# Verification of tiny_srvframework

TLA+ models of the framework in `src/`, the TLC runs that check small instances
of them, and proofs, checked by TLAPS, of the properties that matter most for
every value of the constants.

## 1. The system

| Part | State it keeps | Operations | Talks to |
|------|----------------|------------|----------|
| reactor, `src/src/srv_framework.cpp` | `m_udp_context`, `m_tcp_context` (descriptor → context with status, buffer, byte counts) | `run`, `create_listen_socket`, `_handle_epoll_`, `_handle_tcp_accept_`, `handle_tcp_read`, `_handle_udp_packet_`, `_close_connection_`, destructor | epoll wrapper, sockets, the user's callbacks |
| epoll wrapper, `epoll_wrapper.cpp` | the epoll descriptor, the event array | `create`, `add_fd`, `delete_fd`, `wait` | kernel |
| sockets, `socket.cpp`, `tcp_socket.cpp`, `udp_socket.cpp` | a descriptor | one system call each | kernel |
| configuration, `conf.cpp` | the two lists of addresses to serve | `add_tcp_ha`, `add_udp_ha`, `get_total_socket_num` | reactor |
| logger, `log.cpp`, `log.h` | the current buffer, `m_empty_buffers`, `m_full_buffers`, two deques local to the flush thread, the open file | `Write` (any thread), `Flush` (its own thread), `Start`, `Stop`, `RollFile` | the file system |
| blocking queue, `blocking_queue.h` | a deque under a mutex | `Push`, `Pop`, `empty`, `size` | any threads |
| package codec, `protocol.cpp` | a head, a body, an output buffer | `Package`, `Unpackage` | the user's `handle_tcp_package` |
| addresses, `host_addr.cpp` | a `sockaddr_in` | conversions | - |
| UDP benchmark, `demo/benchmark.cpp` | per thread: a socket, the address `ha`, the measured `latency`; shared: `kResult` under `kResultMutex` | `UdpBenchmark` (one per thread), `ShowLatencyReport` | an echo server on the reactor (`demo/test_udp_server.cpp`) |
| other demos, `demo/*.cpp` | - | straight-line uses of the parts above | - |

The reactor is one thread. It sleeps in an **edge-triggered** `epoll_wait`, gets
a batch of events and calls one handler after the other; each handler must
drain its socket. The logger is the opposite: many writers, one flush thread
and one controlling thread share five containers of buffers under one mutex
and a condition variable with a timed wait. The reactor does not use the
logger, the queue or the codec; applications put them together (`src/demo`).
The benchmark is a client: its threads share nothing but the list of results.

What is hard:

* in the reactor, an edge is reported once. A handler that returns early loses
  input for good; descriptors are closed and their numbers handed out again in
  the middle of a batch whose later events name descriptors only; three tables
  (contexts, epoll registrations, descriptors) must change together on every
  error path;
* in the logger, a record passes through a buffer that changes hands four times
  between two threads, one of which works outside the mutex; the order in the
  file, the hour of the file, the size of the pool and the return of `Stop` all
  depend on the order of critical sections and on timeouts;
* in `handle_tcp_read`, packages are cut out of a stream that arrives in pieces
  of any size, with three counters that survive from one event to the next; the
  answers go out with one `send` each, on a socket that may take a part of one;
* in the queue, one notification wakes every sleeper and a wait may end by
  itself; two calls in a row (`empty`, `Pop`) are two critical sections;
* in the codec, `Package` converts the byte order of its own head in place, so
  that what an object does depends on the calls before;
* in the benchmark, a datagram may be lost, late or doubled, while each thread
  takes whatever comes next for the answer to the request it has just sent, and
  waits without a limit if nothing comes.

`PROJECT.json` lists these hazards at their lines, with the properties for each.

## 2. Modules

| Module | What it is |
|--------|------------|
| `EventLoop` | the reactor with the kernel objects it talks to and the network |
| `ConnService` | abstract: what the server promises a connection |
| `EventLoopProofs` | proofs about `EventLoop`, for any sockets, connections, descriptors and faults |
| `MCEventLoop` | symmetry for TLC |
| `Framing` | `handle_tcp_read` on one connection: how the stream becomes packages, and how they are answered |
| `PackageStream` | abstract: packages handed over whole, once, in order |
| `FramingProofs` | proofs about `Framing`, for any stream, arrival and buffer |
| `MCFraming` | the lengths that bytes yet to arrive may look like |
| `Logger` | writers, flush thread, controlling thread, buffers, file, clock |
| `LogPipe` | abstract: a file that follows the accepted records in order |
| `LoggerProofs` | proofs about `Logger`, for any writers, buffers and record lengths |
| `MCLogger` | the module of the logger's runs |
| `BlockingQueue` | the queue with its mutex, wait set and deque, under any threads |
| `Fifo` | abstract: elements given away once, in the order pushed |
| `BlockingQueueProofs` | proofs about `BlockingQueue`, for any threads and elements |
| `Codec` | `BaseProtocol` objects and the strings between them |
| `CodecProofs` | proofs about `Codec`, for any objects, sizes and strings |
| `Benchmark` | the UDP benchmark, the echo server and the network between them |
| `LatencyReport` | the lines of the benchmark's latency table |
| `LatencyReportProofs` | proofs about that table, and about sorting and flattening, for any latencies |
| `BenchmarkProofs` | proofs about `Benchmark`, for any threads, requests and mishaps |

In the component modules a definition headed *Variant* stands before the
definition it varies. Variants are not part of the specification: they record a
plausible mistake in that code, and each property of a passing run is known to
fail when one of them takes the place of the original (`PROJECT.json`,
`mutants`).

### 2.1 EventLoop

Code state: `udpCtx` and `tcpCtx` are the two context maps (`tcpCtx[fd]` is
`m_status`, `"none"` without an entry), `pc` and `cur` are the place of the
loop thread and the descriptor its handler serves, `batch` the events not yet
dispatched. Kernel state: `sock` (which socket a descriptor refers to),
`interest` and `ready` (registered descriptors, and those with an edge to
report), `backlog`, `dgrams`, `rx`, `ended`. `conn` is the life of a
connection.

A step of the thread is one system call of a handler with all that follows up
to the next call on that socket; the network (`Connect`, `Send`, `PeerEnds`,
`Datagram`) acts between any two. The batch record carries the socket for
which an event was raised; the code cannot see it, and only `BatchFresh` reads
it.

| Code | Actions |
|------|---------|
| `create_listen_socket` (141-179), `init_udp_context`, `init_tcp_listen_socket` (37-110) | `OpenServer` once per configured socket; `SetupFails` with `CreateFails`, `BindFails`, `RegisterFails` |
| destructor (17-34) | `Destroy` |
| `_handle_epoll_` (470-528) | `EpollWait`, `EpollTimeout`, `Dispatch`, `EndOfBatch` |
| `_handle_udp_packet_` (531-556) | `UdpRecv`, `UdpLeave` |
| `_handle_tcp_accept_` (213-255) | `AcceptConn`, `AcceptLeave`, `AcceptBlocking`, `AcceptGiveUp` |
| `handle_tcp_read` (319-379) | `ReadMore`, `ReadBad`, `ReadEnd`, `ReadLeave` |
| `_close_connection_` (269-296) | `CloseConnection`, inside those handlers |

`Faults` says which failures an instance contains (`FaultKinds`). Events of a
batch are dispatched in any order and `epoll_wait` may report any part of the
ready set, up to the size of the event array: the kernel's order is one of
these. Descriptors are allocated lowest first, as the kernel does, which is
what makes the reuse of a number within a batch likely.

Abstractions: bytes are counted in segments; whether the packages in them are
accepted is a choice (`ReadMore` or `ReadBad`, the latter only with the fault
`bad_package`). Contexts are reduced to what control depends on. A connection
is made once. After a failed start-up `run` returns and the object is destroyed.

Start-up fails at one of three places, and nothing of what went before is taken
back: in `create()` (`CreateFails`), with a socket open but not yet in a map
(`BindFails`: `set_nonblock`, `bind`, `listen`), or with its context in the map and
no registration (`RegisterFails`: `add_fd`). The destructor closes what is in
the maps, so after `BindFails` one socket stays open. `NoOrphan` and `TablesAgree`
say just this much of a start-up that fails, and everything of the running loop.

### 2.2 Logger

`empty`, `curr`, `full`, `toWrite` and `released` are the five containers of the
code; `content` and `used` are what a buffer holds; `fpc` and `spc` place the
flush thread and the controlling thread; `file` is the set of written records
with the hour of the file each went to; `pend[w]` is the hour of the record
that writer `w` has formatted but not yet put in.

| Code | Actions |
|------|---------|
| `Write`, before the mutex (101-124) | `Format` |
| `Write`, under the mutex (138-162) | `WriteFits`, `WriteSwitches`, `WriteDiscards` |
| `Flush`, `while(m_running)` (211) | `FlushLoop` |
| `Flush`, the critical section (214-229) | `FlushTakes` |
| `Flush`, one buffer (231-239), with `RollFile` (183-201) | `FlushWrites`, `FlushDone` |
| `Start`, `Stop` (164-180) | `Start`, `StopBegins`, `StopJoins`, `StopWrites`, `StopResets` |

A critical section is one action, because nothing it touches is touched
outside the mutex, with one exception: `Stop` handles the current buffer
without the mutex, so its write and its reset are two actions between which
writers may run. `wait_for` returns when its predicate holds or after the
timeout, so `FlushTakes` has no guard on the queue. `FlushLoop` with
`m_running` false frees what the two local deques hold, as the end of the
function does.

A record is its number in the order of acceptance and its hour. Which of the
empty buffers is taken makes no difference, so `empty` is a set, and which one is
current at the start does not either, so it is fixed; `full` and `toWrite` are
sequences. Assumed: `fopen` succeeds, `Start` is called only when
no flush thread runs, one thread controls the logger. The destructor is `Stop`
and a close.

### 2.3 Framing

`EventLoop` treats the bytes of a connection as a choice (the package is
accepted or not); `Framing` looks into them. A byte is its place in the stream.
`m_recv_buf` always holds one stretch of the stream, so two numbers describe it:
`base`, the place of its first byte, and `got`, which is `m_bytes_recv`.
`pkgLen` is `m_pkg_len`; `handed` is the history of the stretches given to
`handle_tcp_package`. The peer's packages are the stretches between the places
in `ends`; `arrived` says how far the network is, and `edge` whether the loop
will be told. The user answers every package with `send_tcp_packet`, as the
repository's servers do: `outq` is what the connection holds of answers the peer
has not read, `cut` remembers that an answer was not taken whole.

The peer sends well-formed packages, of lengths that may exceed the buffer. Whether
it is `paced` is chosen at the start. A paced peer may send several packages ahead of
their answers, but keeps what is unanswered within the receive buffer and leaves room
in the connection for the answers it is to get or has not read (`HasRoom`). A
client that sends a package and waits for its answer, like
`demo/test_tcp_client.cpp`, is one; nothing obliges other clients to be, so what
is claimed of any peer and what of a paced one are different properties.

Two histories mark what the properties have to make an exception for. `guessed`:
`handle_tcp_head` was given a head whose length field had not arrived, which
happens only if the configured head is shorter than the field, as the demo's is
(`src/README.md:115`). `crowded`: one `recv` brought the ends of two packages.

| Code | Actions |
|------|---------|
| `_handle_epoll_` calls the handler (511-520) | `Wake` |
| `recv` and the counters (333-349) | in each `Read...` |
| `handle_tcp_head` (298-316) | `HeadValue` |
| head incomplete, `continue` (351) | `ReadShort` |
| package incomplete (361-376) | `ReadPart` |
| `package_len > buffer_len` (354-359) | `ReadTooLong` |
| `handle_tcp_package` and `memmove` (361-375) | `ReadPackage`, `ReadRefused` |
| `send_tcp_packet` (381-384), `tcp_socket::send` | `Answer` with `Taken`, in `ReadPackage` |
| the peer | `Send`, `PeerReads`, `PeerEnds`, `Arrive` |
| `EAGAIN`; end of the stream or an error (334-347) | `ReadAgain`; `ReadEnd` |

`ReadUndefined` is what the code has no answer for: `recv` is offered the whole
length of the buffer behind the bytes already there, and may write past its end,
and `m_bytes_recv` then exceeds the buffer length; or a negative length reaches
`handle_tcp_package`. The model stops there. `handle_tcp_head` reads the length
from the bytes up to the fifteenth of a package (`LengthEnd`), whether they have
arrived or not; if not, or if there is no package at that place, it may find any of
`Junk`, and the handler goes on with that. Sizes are scaled down.

### 2.4 BlockingQueue

A call is several steps: the mutex is asked for (`Call`), obtained (`Lock`), and
the body of the call runs (`Push`, `PopWaits`, `PopGoesOn`, `PopTakes`, `Answer`).
`pc[t]` is the place of thread `t`, `"waiting"` the wait set. Giving back the
mutex and joining the wait set is one step, as the standard demands of
`wait`; `Spurious` ends a wait without a notification. A *drainer* runs the loop
of `demo/blocking_queue_use.cpp`: `while(!queue.empty()) queue.Pop()`. `pushed`
and `popped` are histories.

### 2.5 Codec

A head is one value for the fields other than `package_length`, and that length,
each with its byte order; `Swap` exchanges both orders, like `Host2Net` and
`Net2Host` on a little-endian host (on a big-endian one they do nothing, and
nothing here can fail). A body is its length. `SetHead`, `SetBody`, `Package` and
`PackageFails`, `Unpackage`, `UnpackageMismatch` and `UnpackageRefuses` are the
calls with their ways to end; `Transport` damages, cuts or replaces the string
between two calls. `made` in a string
is a history of what its packer held, the byte order included: `RoundTrip` says
that this is what comes out, so an object that is packaged a second time without a
new head (or after a `Package` that failed) sends its fields turned round and the
receiver gets them so. `LengthOnWire` holds even then: this is what `Framing`
takes for granted of the packages it cuts.

A body one byte below the limit makes `Package` write one byte behind
`m_package`; the model lets it hit nothing, as in the slack of an allocation of
this size.

### 2.6 Benchmark and LatencyReport

A datagram is its two addresses and the number of the request it carries; `wire`
holds those on their way or in a receive queue, in no order, so that they may
overtake each other. `round` is the loop's `i` (counted from 1), `ha` the
address object that `recvfrom` overwrites, `samples` the vector `latency`, with
the request that was just sent and the one that was answered as a history:
the code keeps the time only. `hit` and `mishaps` record what has gone wrong, for
the properties, and bound it.

| Code | Actions |
|------|---------|
| `main` (182-187) | `StartThread` |
| `UdpBenchmark`: `sendto` (93-94) | `Send` |
| `recvfrom` and what follows (95-101) | `Receive`, `ReceiveFails` |
| `kResult.push_back` under the mutex (105-107) | `Finish` |
| `join` and `ShowLatencyReport` (188-192, 109-142) | `Report`, with `LatencyReport` for the table |
| echo server: `handle_udp_packet`, `send_udp_packet` | `Serve`, with `Echo` |
| the network | `Lose`, `Duplicate`, `Stray` |

The server is the reactor with the handler of `demo/test_udp_server.cpp`; that it
takes every datagram from its queue is what `EventLoop` shows
(`DatagramsAreRead`). The socket of a thread blocks, so `recvfrom` fails only if
it is interrupted. A time is a whole number of milliseconds, since the table
divides by 1000 before it compares. A datagram without content (`n` is 0) counts
as no answer, but its sender becomes `ha` all the same.

`std::sort` is stated by what it returns: at place `k` stands the least latency
that at least `k` of them do not exceed (`Sorted`). That this is the sequence
rearranged in ascending order is proved (`SortedRearranges`).

### 2.7 The abstract specifications

`ConnService`: a connection is admitted or turned away once and released only
if it has ended or sent something; in the full specification whoever queues is
answered, and input is drained. `EventLoop` maps its `conn` to `phase` and
"queued or open with unread bytes or an end" to `input`. The safety part holds
under every fault (`ServiceKept`, also proved), the whole only without those
that stop a drain (`ServiceProvided`).

`LogPipe`: the number of accepted records, the set of written numbers, and whether
the log is open. As long as it is, the set is `1..k`, and catches up; afterwards
it only grows by accepted records. `Logger` implements it (`ImplementsPipe`; the
safety part is proved, `PipeImplemented`), closing the pipe when `Stop` has
joined the flush thread.

`PackageStream`: the packages sent, those handed over, and whether the
connection is over. `Framing` maps the stretches between `ends` to the first. The
safety part holds however the stream arrives (proved, `StreamImplemented`), until
the framework loses track of it (`sound`: a length was guessed or the buffer
overrun); that no package is kept back for ever, only until packages arrive together
(`prompt`). `StreamServed` checks both.

`Fifo`: elements pushed, elements given away, callers of `Pop` not yet served.
`BlockingQueue` implements its safety part (`FifoKept`, proved for any threads as
`QueueIsFifo`) and its fairness: whoever it is, somebody is served while there are
elements (`FifoServed`, which checks both).

## 3. Runs

| Run | Instance | Shows |
|-----|----------|-------|
| `event_loop_live` | 1 listener, 1 UDP socket, 2 connections, 4 descriptors, 1 segment each, 2 datagrams, faults `setup` and `bad_package`; fairness | no orphan but by a failed start-up, no lost edge; queued connections are answered, ended ones released, datagrams read, `ConnService` implemented |
| `event_loop_faults` | 2 listeners, 1 UDP socket, 2 connections, 4 descriptors, all faults | types, the tables stay in step, no stale event, and the service's safety is kept when everything goes wrong |
| `event_loop_refuse` | fault `refuse`; fairness | **violation** of `QueuedIsServed`: a refused connection ends the accept loop |
| `logger` | 2 writers, 3 buffers of 2 units, records of 1 or 2, 4 records, 1 change of hour, 1 stop and a restart after it; fairness | one owner per buffer, pool whole, both assertions, nothing lost or doubled, order, hours; `Stop` returns, `LogPipe` implemented, its catching up included |
| `logger_restart` | 1 writer, 3 records, 2 stops | **violation** of the assertion at `log.cpp:223` after a restart |
| `logger_rest` | 1 writer, 5 records, 1 stop; fairness | **violation** of "flush rest buffer", `log.cpp:174` |
| `framing` | packages of 3 and 4 bytes, a buffer of 6, a configured head of 2 with a length field that ends at 3, 3 packages, in any pieces, from any peer and from a paced one; answers of 2 bytes over a connection that holds 4; fairness | for any peer: bytes handed on once and in order, buffer aligned and packages whole until a length is guessed, none kept back unless they come two at once; for a paced one: never past the buffer, every answer whole |
| `framing_stuck` | 2 packages of 3 bytes | **violation** of `NothingStuck`: a complete package waits in the buffer with no event to come |
| `queue` | 2 producers, 2 consumers, 1 drainer, 2 elements, 4 pushes; fairness | no lost wakeup, assertion in `Pop`, FIFO order, somebody is served while there are elements |
| `codec` | 1 object, limit 5, bodies of 0 to 3, calls in any order | types, lengths on the wire, accepted strings consistent, what goes in comes out |
| `benchmark` | 2 threads of 2 requests, answers after 0, 2 or 3 ms, 2 mishaps; fairness | what is timed, what the report says, and that the benchmark ends unless a datagram is lost or a thread is drawn away from its server |
| `benchmark_report` | 1 thread, 3 requests, no mishap | **violation** of `ReportIsTrue`: the last line of the table |

Bounds, and why they are enough. Two connections are the least number at which
a batch can hold two connections' events, one handler can close a descriptor
whose number the next `accept` hands out again, and one connection can be left
behind another in the backlog. The
batch holds as many events as there are configured sockets, two or three here.
In `event_loop_faults` there is one descriptor fewer than sockets, so `accept`
also fails for want of descriptors. Two datagrams tell one `recvfrom` per event
from a loop; on a connection the segment and the end of the stream do the same.
In the logger, three buffers let one be current, one queued or being written and
one empty or released, so that each transfer happens with the others in every
state; four records of up to the size of a buffer fill them all and find none
left. After the one stop of `logger` (so `StopReturns` is
checked of a first `Stop`) the logger may be started again and goes on; two stops, in `logger_restart`, are needed for a buffer freed by the first
to be missed after it. What does not
depend on these bounds is proved (section 4).

In `Framing`, a buffer of six holds two packages of 3, or one and a part of the next,
so a `recv` can bring a package with the end of the one before and the start of
the one after it; with one byte in the buffer the head is not there, with two it is
without its length, so that one is guessed (right, wrong, too long, negative or 0), and
with three it is read; three packages make the counters go through two
resets. The connection holds two answers, so a paced peer may have two packages in
flight, and another peer's third answer is cut. Packages of the peer that are longer
than the buffer are left to the proofs; a length that is too long comes from a guess
in this run. In `BlockingQueue`, two consumers and a drainer
compete for elements of two producers, and four pushes let the queue grow and
empty again while sleepers are woken in vain. In `Codec` the bodies lie on both
sides of the limit, where it is tested (3 is refused, the one below gives the
byte too many); one object is enough, since objects share nothing but the strings,
and it may be given back its own, or a foreign one. In `Benchmark` one mishap (a
failed call, a duplicate) leaves an answer for the next request to take, and a second
one may meet it, in the same thread or in the other; three delays, two of them
next to each other, give every shape of the table with four samples: equal, neighbouring and distant milliseconds.

`CHECK_DEADLOCK FALSE` stands only where the program may stop: after a failed
start-up has been cleaned up (`event_loop_live`, `event_loop_faults`), when the records and stops
of the instance are used up, or the flush thread ends in its assertion after a
restart (`logger`, `logger_rest`), when the connection is closed (`framing`, `framing_stuck`), when
everything has been pushed and consumers wait for more (`queue`), and when the
report is printed (`benchmark`, `benchmark_report`).

Symmetry is used in `event_loop_faults` only, over connections, which no
definition tells apart; that run checks safety.

Fairness. The loop thread takes its next step (weak fairness of its own
actions): it is one thread that never blocks except in `epoll_wait`. For
`epoll_wait`, strong fairness for each descriptor: a descriptor that is ready
again and again is reported in the end, since the kernel serves its ready list
round robin. In the logger, weak fairness of the flush thread (its wait is
timed) and of `Stop` once called, and of the first `Start`. In `Framing`, weak
fairness of the handler (the loop comes round) and of the network, which delivers
what was sent in the end. In the queue, a free mutex is given to some thread that
asks for it, not to each in turn, and the thread that holds it runs. In the
benchmark, weak fairness of the main thread, of the server and of each thread: a
datagram that is not lost is answered, and arrives. Otherwise
nothing is assumed of the network, the clients, the writers or the clock, and
nobody has to make a call.

## 4. Proofs

All theorems are for arbitrary constants under the named assumptions
`EventLoopAssumption`, `LoggerAssumption`, `FramingAssumption`, `QueueAssumption`,
`CodecAssumption` and `BenchmarkAssumption`, which the code justifies: kinds of
sockets are disjoint, the sets are finite, at least one server is configured
(`_initialize_` refuses an empty configuration), there are at least two buffers
(`kBufferNumber` is 10).

`EventLoopProofs`. The inductive invariant `LoopInv` is `TypeOK`, the parts of
`TablesAgree` (`TablesOK` and, in `CurOK`, `HandlerHasContext`), `BatchFresh`, and
what only the induction needs: the rest of `CurOK` (the event of the running
handler's descriptor has left the batch), `PhaseOK` (what is
open before and after the main loop), `BacklogOK` (queued connections are those
in some backlog) and `ReadyOK` (edges belong to registered descriptors).
`BatchFresh` needs `CurOK`, because what a handler closes is the descriptor it
serves, and that one is no longer in the batch; it needs `TablesOK`, because
`accept` takes a descriptor that is not open and so is in no batch.
`TypeCorrect`, `TablesStayInStep` and `NoStaleEvent` follow. `EdgesSuffice`
assumes that no datagram is empty and that accept does not give up early and
finds a descriptor (`Undisturbed`), and proves that no wakeup is lost: a readable
registered descriptor has an edge, is in the batch or is being drained
(`EdgeOK`). `DescriptorLeft` counts: descriptors in use belong to distinct
sockets, so with as many descriptors as sockets one is left for a queued
connection. `OnlyStartUpLeaks` assumes that `set_nonblock` works on accepted
descriptors, and proves that every open descriptor is registered while the loop runs,
and that a failed start-up leaves at most one outside: the return after
that `set_nonblock` is the accept handler's only leak. `ReactorKeepsService` is the
refinement: every step of the reactor, under all faults, is a step of `ConnService` or a stutter.

`LoggerProofs`. Unwritten buffers form a chain (being written, queued, current);
`SwitchChain`, `TakeChain` and `WriteChain` say how each critical section changes
it: it grows by one at its end, or loses its head. `PoolInv` is `TypeOK`,
`ControlOK` (where each thread may hold buffers), `BuffersApart` and `PoolWhole`.
From it: `LogTypeCorrect`, `OneOwnerPerBuffer`, `PoolStaysWhole`,
`FlushAssertionHolds` (with at least two buffers, the assertion in `Flush` cannot
fail before the flush thread first ends - the run `logger_restart` shows that it
can afterwards) and `WriteAssertionHolds` (if no record is longer than a buffer,
the assertion in `Write` holds).

What happens to the records rests on a second invariant, `RecordsInv`.
`NothingLost` is not inductive, since it does not say where in the chain a record
is: `FileThenChain` adds that the file is older than the chain and each buffer
older than those behind it. Three lemmas, free of the state, say how the critical
sections keep that: an empty buffer joins the chain (`EmptyJoins`), the next
record joins its last buffer (`RecordJoins`), its first buffer is written
(`HeadIsWritten`). From it `NoRecordIsLost`, `FileKeepsOrder` and, with the hours
of pending and buffered records bounded by the clock, `NotBackdated`. For the
refinement `PipeImplemented` a step of the flush thread must leave exactly
`1..k` in the file; the `k` is the last record of the buffer written, which is
there because every buffer with records has a last one (`LastExists`).

`FramingProofs`. `FrameInv` adds to the checked invariants that the stream is in
order (`StreamOK`). `RightLength` is the heart: with the buffer aligned, and unless the
length field has not arrived, the length the handler uses is that of the package it
has begun. From it `FrameTypes`, `StreamAligned`, `OnlyWholePackages` and the
refinement `StreamImplemented`, for any configured head: the demo's head of 4 bytes is
among them, and what they say of it is that only a guess (`guessed`) can make
the stream lose its cut, and never its order. The other three are about when nothing
worse happens. `PacedInv` says of a paced peer that what is unanswered fits the
buffer and that the answers to it, and those not yet read, fit the connection; each
package answered moves its answer from the one to the other (`OneAnswerLess`). Hence
`PacedStaysInside`: with a guess excluded, `recv` never writes past the buffer, although
it is offered the whole length of it; and `PacedIsAnswered`: every answer is taken whole,
several in flight included. `StuckOnlyWhenCrowded` assumes that no package is
shorter than the configured head. Until one `recv` brings the ends of two packages, no
complete package stays in the buffer when the handler has gone on (`SpacedInv`), so the
loop never sleeps with one and no event to come.

`BlockingQueueProofs`. `QueueInv` adds `Conserved` (pushed is returned followed by
queued) to the checked invariants. `NoWakeupLost` and `PopAssertionHolds` rest on
the mutex being held by the one thread inside (`TypeOK`, `AloneInside`);
`QueueIsFifo` is the refinement.

`CodecProofs`. `HeadWritten` says that whatever happens to a string on its way,
its head is as its packer wrote it; `CodecTypes`, `LengthIsRight` and
`AcceptedIsWhole` and `PackedIsUnpacked` follow, for any use.

`BenchmarkProofs`. A property of what was timed needs an invariant of what may
still come: `OwnOK` says it of the datagrams of each thread, as far as that thread's
mishaps allow. Without a stray datagram, none carries a request that has not been
sent; without duplicates either, there is at most one for each request, and none for
a request already timed; and if nothing worse than a loss has happened, only the
request just sent is on its way. Mishaps of other threads do not matter. With
`PlaceOK`, `SamplesOK` and `WireOK` this is inductive (`BenchInv`); `BenchmarkTypes`
and `SamplesAreOwn` follow.

What it reports needs besides that each thread that has ended is in `kResult`
once (`ResultsOK`) and that the report printed is of all samples, which are final
(`ReportOK`); together they are `ReportInv`. From it `ReportIsComplete`,
`ReportTellsMostlyTruth`, `ReportIsFinal`, and `WhenTheTableIsTrue`: the table is
right throughout exactly if the two slowest answers took the same number of
milliseconds, and the run `benchmark_report` shows a case in which they did not.

`AnswerIsOnItsWay` is what the liveness property `EndsUnlessHit` rests on, without
its fairness: a thread that waits in `recvfrom`, and that neither lost a datagram
nor met a stray one, has a datagram of its own on the wire. It needs a count
(`TimedIfMissing` of `WaitInv`): of the requests a thread has sent, those
with no datagram left are no more than the samples it took, and while it waits it
has fewer samples than requests sent. So neither duplicates nor failing calls can
make it wait for ever.

`LatencyReportProofs`. The table is about sorting and flattening, which one would
prove by induction; the library's induction theorems cannot be used here, since they
take an operator as a parameter. What stands in for them is that a non-empty family of
finite sets has a minimal member (`Minimal`), from which follow the least number
of a set (`LeastNumber`) and the highest of a finite one (`HighestOf`), and with
them an argument by the least counterexample. `AtMost` grows with its bound, and `Sorted`
takes the least bounds that `1, 2, ...` of the latencies do not exceed; so a value
occurs in it as often as in the latencies (`SortedTimes`), and joining the
bijections for each value gives the permutation of `SortedRearranges`. For
`FlattenSeq`, a recursive function of the community modules, `FlattensExists`
shows that a function with its equation exists, and the lemma `FlattenFacts` says
where each element comes to lie and that there are no others, which `ReportIsComplete`
needs. `LineIsTrue`,
`LinesGrow` and `LastLine` are about the lines of the table, for any number of latencies.

Model-checked only: everything under fairness, that is the liveness properties and
the second half of the four refinements, since the prover has no rules for
fairness here and none for `ENABLED`. The safety that these rest on is proved:
`EdgesSuffice` for the reactor, `FlushAssertionHolds` for `Stop`,
`StuckOnlyWhenCrowded` for the framing, `NoWakeupLost` for the queue and
`AnswerIsOnItsWay` for the benchmark. No invariant and no action property of a
passing run is left without a theorem. Recursive operators are out of the prover's
reach as well; these modules use none.

## 5. Where code and documentation disagree

Five disagreements have a run (`findings` in `PROJECT.json`): a refused connection
ends the accept loop of an edge-triggered listener early (`event_loop_refuse`); a
second package of one `recv` is kept back until more bytes come (`framing_stuck`);
`Stop` leaves queued buffers unwritten (`logger_rest`); a restart shrinks the pool
until an assertion fails (`logger_restart`); the last line of the benchmark's table
puts the slowest request in with those of an earlier millisecond
(`benchmark_report`).

Others can be seen by changing a constant of a run that passes, or by taking a
proviso out of a property:

* an empty datagram ends the read loop with datagrams queued behind it
  (`srv_framework.cpp:541`): with `"empty_dgram"` in `Faults`, `event_loop_live`
  violates `NoLostWakeup`;
* a record longer than a buffer fails the assertion at `log.cpp:158`: with a
  length of 3 in `RecLens`, `logger` violates `SwitchFits`;
* the demo configures a head of 4 bytes (`src/README.md:115`), but
  `handle_tcp_head` reads the length from bytes 12 to 15, and its result is ignored
  (`srv_framework.cpp:352`): without `~guessed` in them, `BufferAligned`,
  `HandedIsSent`, `WithinBuffer` and `AnswersWhole` are violated in `framing`;
* a peer that sends further ahead than the buffer holds makes `recv` write past it
  (`srv_framework.cpp:333`): without `paced` in it, `WithinBuffer` is violated;
* a peer that sends without reading may have its answers cut, since `send_tcp_packet`
  reports success when a part was taken (`srv_framework.cpp:383`): without
  `paced` in it, `AnswersWhole` is violated.

Two leaks have no property: a failing `set_nonblock` on an accepted descriptor
(`srv_framework.cpp:227`; `NoOrphan` fails with `"fcntl"` in the `Faults` of
`event_loop_live`), and the socket a failed start-up leaves without a context, which
`NoOrphan` tolerates.

Three more follow from reading the definitions: `TooLarge` of `Codec` does not count
the closing mark, so a package may be one byte longer than `MAX_PACKAGE_LENGTH`
(`protocol.cpp:53`); `Package` leaves the object's own head in network order, which
`demo/protocol_use.cpp:20` prints as a length; and `WriteDiscards` can happen while
written buffers wait in `released` (`log.cpp:143`).

## 6. Not modelled, and the plan

Not modelled: the addresses (conversions by the C library), `max_conn_num` (never
read), `m_send_buf` and `m_bytes_tosend` (never filled), failures of `fopen`,
formatting, and memory management other than the buffers of the logger. Of the
demos, the straight-line ones; of the benchmark, its command line (`-t` measures
nothing) and the total times; `demo/test_tcp_client.cpp` reads its answer with one
`recv`, `PeerReads` in any pieces.

Also not modelled: in the queue, a failing allocation in `push_back` and a
throwing move of an element; in the codec, the text of error messages and what a
failed `Unpackage` promises (nothing in the repository says; `UnpackageMismatch`
shows that the head is overwritten and the body is not).

Hazards without a property, with the reasons, are in `PROJECT.json`: a sender that
never lets the receive loop end (it would have to be bounded by fairness the code
does not have), the behaviour of the C library on a null stream or a truncated
record, and places where nothing in the repository says what should happen.

Left to do, most important first:

1. `EventLoop` and `Framing` together: one loop over several connections whose
   handlers are `Framing`'s, so that the package a user is given and the
   descriptor it is answered on belong together across reuse of descriptors.
2. Start and stop of the logger as its demo uses it: the constructor of the
   directory that starts it by itself, a second `Start`, a failing `fopen`.
3. The halves of the refinements under fairness, should the prover come to
   support them.
