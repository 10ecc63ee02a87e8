-------------------------------- MODULE Logger --------------------------------
(***************************************************************************)
(* The asynchronous logger: any number of threads call Write, which copies  *)
(* a record into the current buffer under a mutex; one thread runs Flush,   *)
(* which takes the full buffers over and writes them to the log file of the *)
(* hour without the mutex; a controlling thread calls Start and Stop.       *)
(*                                                                          *)
(* A record is its place in the order of acceptance and the hour it was     *)
(* formatted in.  A critical section of m_mutex is one action.              *)
(***************************************************************************)
EXTENDS Naturals, Sequences, FiniteSets

CONSTANTS
  Writers,     \* the threads that call Write
  Buffers,     \* the kBufferNumber buffers of Initialize
  NoHour,      \* the writer has formatted no record
  Capacity,    \* m_buffer_size_kb * 1024
  RecLens,     \* lengths a formatted record may have
  MaxRecords,  \* bound: records accepted
  MaxHour,     \* bound: the hours 0 .. MaxHour pass
  MaxStops     \* bound: completed calls of Stop

ASSUME LoggerAssumption ==
  /\ IsFiniteSet(Buffers) /\ Cardinality(Buffers) >= 2
  /\ Capacity \in Nat /\ MaxRecords \in Nat /\ MaxHour \in Nat /\ MaxStops \in Nat
  /\ RecLens \subseteq Nat \ {0}
  /\ NoHour \notin Nat

VARIABLES
  empty,     \* m_empty_buffers; which of them is taken makes no difference
  curr,      \* m_curr_buffer_ptr
  full,      \* m_full_buffers, in the order they filled up
  toWrite,   \* buffers_to_write of Flush
  released,  \* buffers_released of Flush
  content,   \* the records in each buffer
  used,      \* m_used of each buffer
  running,   \* m_running
  fpc,       \* where the flush thread is
  spc,       \* where the controlling thread is
  stops,     \* how often Stop has joined the flush thread
  pend,      \* the hour of the record each writer has formatted
  accepted,  \* the number of records accepted so far
  file,      \* the records written, each with the hour of the file it is in
  fileHour,  \* m_last_roll_time: the hour of the open file
  now        \* the clock, in hours

poolVars  == <<empty, curr, full>>
flushVars == <<toWrite, released>>
dataVars  == <<content, used>>
ctlVars   == <<running, fpc, spc, stops>>
fileVars  == <<file, fileHour>>
vars == <<empty, curr, full, toWrite, released, content, used, running, fpc, spc,
          stops, pend, accepted, file, fileHour, now>>

-----------------------------------------------------------------------------
(* The clock.                                                               *)

Tick ==
  /\ now < MaxHour
  /\ now' = now + 1
  /\ UNCHANGED <<poolVars, flushVars, dataVars, ctlVars, pend, accepted, fileVars>>

-----------------------------------------------------------------------------
(* Write.                                                                   *)

(* The record is timestamped and formatted without the mutex. *)
Format(w) ==
  /\ pend[w] = NoHour
  /\ pend' = [pend EXCEPT ![w] = now]
  /\ UNCHANGED <<poolVars, flushVars, dataVars, ctlVars, accepted, fileVars, now>>

(* Variant: one byte too many. *)
FitsBarely(b, len) == len <= Capacity - used[b] + 1

(* The record is not longer than space_left(). *)
Fits(b, len) == len <= Capacity - used[b]

(* Buffer::Append, and Write returns true. *)
AppendTo(b, w, len) ==
  /\ accepted < MaxRecords
  /\ accepted' = accepted + 1
  /\ content' = [content EXCEPT ![b] = @ \cup {[n |-> accepted', hour |-> pend[w]]}]
  /\ used' = [used EXCEPT ![b] = @ + len]
  /\ pend' = [pend EXCEPT ![w] = NoHour]

(* There is room in the current buffer. *)
WriteFits(w, len) ==
  /\ pend[w] # NoHour
  /\ Fits(curr, len)
  /\ AppendTo(curr, w, len)
  /\ UNCHANGED <<poolVars, flushVars, ctlVars, fileVars, now>>

(* Variant: in front of the others. *)
EnqueueFront(b) == <<b>> \o full

Enqueue(b) == Append(full, b)

(* The current buffer is queued, the flush thread notified, and an empty
   buffer takes its place; the record must fit into that one (the assertion). *)
WriteSwitches(w, len) ==
  /\ pend[w] # NoHour
  /\ ~Fits(curr, len)
  /\ \E b \in empty :
       /\ Fits(b, len)
       /\ full' = Enqueue(curr)
       /\ curr' = b
       /\ empty' = empty \ {b}
       /\ AppendTo(b, w, len)
  /\ UNCHANGED <<flushVars, ctlVars, fileVars, now>>

(* No empty buffer: the record is discarded and Write returns false. *)
WriteDiscards(w, len) ==
  /\ pend[w] # NoHour
  /\ ~Fits(curr, len) /\ empty = {}
  /\ pend' = [pend EXCEPT ![w] = NoHour]
  /\ UNCHANGED <<poolVars, flushVars, dataVars, ctlVars, accepted, fileVars, now>>

-----------------------------------------------------------------------------
(* Flush: the flush thread.                                                 *)

(* while(m_running): the thread ends and frees what its locals hold. *)
FlushLoop ==
  /\ fpc = "head"
  /\ IF running THEN fpc' = "waiting" /\ UNCHANGED released
                ELSE fpc' = "exited" /\ released' = {}
  /\ UNCHANGED <<poolVars, toWrite, dataVars, running, spc, stops, pend, accepted,
                 fileVars, now>>

(* Nothing is queued, but the current buffer holds something. *)
TakesCurrent == full = << >> /\ used[curr] > 0

(* Variant: a plain wait. *)
TimeNeverUp == FALSE

(* The wait may end at any moment, since it is timed. *)
TimeUp == TRUE

(* Variant: the released buffers are forgotten. *)
NoneGivenBack == {}

(* buffers_released, which the flush thread has written since it last waited. *)
GivenBack == released

(* wait_for returns: a buffer is queued, or the time is up.  In one critical
   section the written buffers are given back, the current buffer is taken if
   nothing else is there (another one must replace it: the assertion), and the
   queue is swapped out. *)
FlushTakes ==
  /\ fpc = "waiting" /\ (full # << >> \/ TimeUp)
  /\ fpc' = "writing"
  /\ released' = {}
  /\ IF TakesCurrent
       THEN \E b \in empty \cup GivenBack :
              /\ toWrite' = <<curr>>
              /\ curr' = b
              /\ empty' = (empty \cup GivenBack) \ {b}
              /\ UNCHANGED full
       ELSE /\ toWrite' = full
            /\ full' = << >>
            /\ empty' = empty \cup GivenBack
            /\ UNCHANGED curr
  /\ UNCHANGED <<dataVars, running, spc, stops, pend, accepted, fileVars, now>>

(* Variant: nothing is reset. *)
NoReset(b) == UNCHANGED dataVars

(* Buffer::Reset. *)
Reset(b) ==
  /\ content' = [content EXCEPT ![b] = {}]
  /\ used' = [used EXCEPT ![b] = 0]

(* fwrite of a whole buffer to the file of hour h. *)
Written(b, h) == {[n |-> r.n, hour |-> r.hour, in |-> h] : r \in content[b]}

(* Variant: the file that is open. *)
NoRoll == fileHour

(* RollFile: the hour of the file that is open afterwards. *)
RollFile == now

(* RollFile, then one buffer is written, reset and released. *)
FlushWrites ==
  /\ fpc = "writing" /\ toWrite # << >>
  /\ fileHour' = RollFile
  /\ file' = file \cup Written(Head(toWrite), RollFile)
  /\ Reset(Head(toWrite))
  /\ released' = released \cup {Head(toWrite)}
  /\ toWrite' = Tail(toWrite)
  /\ UNCHANGED <<poolVars, ctlVars, pend, accepted, now>>

FlushDone ==
  /\ fpc = "writing" /\ toWrite = << >>
  /\ fpc' = "head"
  /\ UNCHANGED <<poolVars, flushVars, dataVars, running, spc, stops, pend, accepted,
                 fileVars, now>>

-----------------------------------------------------------------------------
(* Start and Stop: the controlling thread.                                  *)

Start ==
  /\ spc \in {"idle", "stopped"}
  /\ spc' = "up" /\ running' = TRUE /\ fpc' = "head"
  /\ UNCHANGED <<poolVars, flushVars, dataVars, stops, pend, accepted, fileVars, now>>

(* m_running = false; the notification changes nothing, because the flush
   thread goes on waiting as long as nothing is queued. *)
StopBegins ==
  /\ spc = "up" /\ stops < MaxStops
  /\ spc' = "joining" /\ running' = FALSE
  /\ UNCHANGED <<poolVars, flushVars, dataVars, fpc, stops, pend, accepted, fileVars, now>>

StopJoins ==
  /\ spc = "joining" /\ fpc = "exited"
  /\ spc' = "flushing" /\ fpc' = "none" /\ stops' = stops + 1
  /\ UNCHANGED <<poolVars, flushVars, dataVars, running, pend, accepted, fileVars, now>>

(* The current buffer is written to whatever file is open, without the mutex. *)
StopWrites ==
  /\ spc = "flushing"
  /\ IF used[curr] > 0
       THEN spc' = "resetting" /\ file' = file \cup Written(curr, fileHour)
       ELSE spc' = "stopped" /\ UNCHANGED file
  /\ UNCHANGED <<poolVars, flushVars, dataVars, running, fpc, stops, pend, accepted,
                 fileHour, now>>

StopResets ==
  /\ spc = "resetting"
  /\ spc' = "stopped"
  /\ Reset(curr)
  /\ UNCHANGED <<poolVars, flushVars, running, fpc, stops, pend, accepted, fileVars, now>>

-----------------------------------------------------------------------------
(* Initialize. *)
Init ==
  /\ curr = (CHOOSE b \in Buffers : TRUE) /\ empty = Buffers \ {curr} /\ full = << >>
  /\ toWrite = << >> /\ released = {}
  /\ content = [b \in Buffers |-> {}]
  /\ used = [b \in Buffers |-> 0]
  /\ running = FALSE /\ fpc = "none" /\ spc = "idle" /\ stops = 0
  /\ pend = [w \in Writers |-> NoHour]
  /\ accepted = 0
  /\ file = {} /\ fileHour = 0 /\ now = 0

Write(w) ==
  \/ Format(w)
  \/ \E len \in RecLens : WriteFits(w, len) \/ WriteSwitches(w, len) \/ WriteDiscards(w, len)

Flush == FlushLoop \/ FlushTakes \/ FlushWrites \/ FlushDone

Stop == StopBegins \/ StopJoins \/ StopWrites \/ StopResets

Next == Tick \/ Start \/ Stop \/ Flush \/ \E w \in Writers : Write(w)

Spec == Init /\ [][Next]_vars

(* The flush thread runs (its waits are timed), and so does a thread that is
   inside Stop; the logger is started once, as its constructor does.  Nobody
   has to call Write or Stop, or start the logger again. *)
Fairness ==
  /\ WF_vars(Flush)
  /\ WF_vars(StopJoins \/ StopWrites \/ StopResets)
  /\ WF_vars(Start /\ stops = 0)

FairSpec == Spec /\ Fairness
-----------------------------------------------------------------------------
(* Properties.                                                              *)

Hours == 0 .. MaxHour

Records == [n : Nat, hour : Hours]

(* Types, among them Buffer's bookkeeping: m_used stays within m_length. *)
TypeOK ==
  /\ empty \subseteq Buffers /\ released \subseteq Buffers /\ curr \in Buffers
  /\ full \in Seq(Buffers) /\ toWrite \in Seq(Buffers)
  /\ content \in [Buffers -> SUBSET Records]
  /\ used \in [Buffers -> 0 .. Capacity]
  /\ running \in BOOLEAN
  /\ fpc \in {"none", "head", "waiting", "writing", "exited"}
  /\ spc \in {"idle", "up", "joining", "flushing", "resetting", "stopped"}
  /\ stops \in Nat /\ accepted \in Nat
  /\ pend \in [Writers -> Hours \cup {NoHour}]
  /\ file \subseteq [n : Nat, hour : Hours, in : Hours]
  /\ fileHour \in Hours /\ now \in Hours

(* The buffers with unwritten records, oldest first. *)
Chain == toWrite \o full \o <<curr>>

Elems(s) == {s[i] : i \in 1 .. Len(s)}

Distinct(s) == \A i, j \in 1 .. Len(s) : s[i] = s[j] => i = j

Queued == Elems(Chain)

(* Whoever holds a buffer holds it alone: m_empty_buffers, m_curr_buffer_ptr,
   m_full_buffers and the two deques of the flush thread never share one, and a
   buffer offered as empty is empty. *)
BuffersApart ==
  /\ Distinct(Chain)
  /\ empty \cap released = {} /\ Queued \cap (empty \cup released) = {}
  /\ \A b \in empty \cup released : used[b] = 0 /\ content[b] = {}

(* Until the first Stop joins the flush thread. *)
FirstRun == stops = 0

(* Until the flush thread ends, no buffer goes astray. *)
PoolWhole ==
  FirstRun /\ fpc # "exited" => Queued \cup empty \cup released = Buffers

(* assert(!m_empty_buffers.empty()) in Flush, at the point where it is evaluated. *)
TakeFindsEmpty ==
  fpc = "waiting" /\ TakesCurrent => empty \cup released # {}

(* Until the first Stop has joined the flush thread, that assertion holds. *)
TakeFindsEmptyAtFirst == FirstRun => TakeFindsEmpty

(* assert(record.length() <= m_curr_buffer_ptr->space_left()) in Write, for a
   writer that has to switch buffers. *)
SwitchFits ==
  \A w \in Writers, b \in empty, len \in RecLens :
    pend[w] # NoHour /\ ~Fits(curr, len) => Fits(b, len)

Unwritten == UNION {content[b] : b \in Queued}

(* Until Stop takes over from the flush thread, every accepted record is in the
   file or in exactly one queued buffer, and none is in both. *)
NothingLost ==
  FirstRun =>
    /\ {r.n : r \in file} \cup {r.n : r \in Unwritten} = 1 .. accepted
    /\ \A r \in file, q \in Unwritten : r.n # q.n
    /\ \A b, c \in Queued : b # c => {r.n : r \in content[b]} \cap {r.n : r \in content[c]} = {}

(* Until Stop has joined the flush thread for the first time, the file grows in
   the order in which Write accepted the records. *)
WrittenInOrder ==
  [][FirstRun => \A r \in file' \ file, q \in file : q.n < r.n]_vars

(* Until then, a record formatted in an hour is not put in the file of an earlier
   hour: RollFile looks at the clock after Write has. *)
HourOfFile == FirstRun => \A r \in file : r.hour <= r.in

InFile(k) == \E r \in file : r.n = k

(* The comment in Stop: "flush rest buffer".  A record accepted before Stop is
   called reaches the file. *)
RestIsFlushed ==
  \A k \in 1 .. MaxRecords : accepted >= k /\ spc = "up" /\ FirstRun ~> InFile(k)

(* A Stop that waits for the flush thread gets it joined: its notification does
   not satisfy the predicate of the wait, the timeout ends it. *)
StopReturns == spc = "joining" ~> spc = "stopped"

(* The log as its users see it: a file that follows what they wrote. *)
Pipe == INSTANCE LogPipe WITH
  count <- accepted, written <- {r.n : r \in file}, open <- FirstRun

(* The logger implements that pipe, which is closed when Stop has joined the
   flush thread: until then the file is at every moment a prefix of the accepted
   records and catches up with them, and later, after a restart too, nothing but
   an accepted record gets into it. *)
ImplementsPipe == Pipe!Spec
=============================================================================
