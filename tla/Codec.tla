-------------------------------- MODULE Codec --------------------------------
(***************************************************************************)
(* BaseProtocol: objects that put a head and a body into a package and take *)
(* them out again.  A number in a head has a byte order: that of the host   *)
(* or that of the network; htonl and ntohl of a little-endian host turn     *)
(* each into the other.  A body is its length.  A package is a string with  *)
(* a first and a last mark, a length and a head.                            *)
(***************************************************************************)
EXTENDS Integers

CONSTANTS
  Objects,  \* BaseProtocol objects
  Fields,   \* the values of the head but for package_length
  Fresh,    \* the fields of a new object: PROTOCOL_VERSION, the rest zero
  HeadSize, \* PROTOCOL_HEAD_SIZE
  Max,      \* MAX_PACKAGE_LENGTH, also the size of m_package
  Bodies    \* the lengths of the bodies

ASSUME CodecAssumption ==
  /\ Fresh \in Fields /\ HeadSize \in Nat /\ Max \in Nat
  /\ Bodies \subseteq Nat

VARIABLES
  head,   \* m_head: the fields and package_length, each with its byte order
  body,   \* m_body
  wire,   \* a string on its way from one object to another
  last    \* the last call: its object and how it ended

vars == <<head, body, wire, last>>

Order == {"host", "net"}

Swapped(order) == IF order = "host" THEN "net" ELSE "host"

Head == [fields : Fields, order : Order, len : Nat, lenOrder : Order]

(* Net2Host and Host2Net: the same exchange of bytes in every number. *)
Swap(h) == [h EXCEPT !.order = Swapped(@), !.lenOrder = Swapped(@)]

Total(b) == 2 + HeadSize + b

(* A string that says of itself that it has n bytes; made is a history: what
   its packer held.  If it is shorter than a head, what lies behind it may
   say so too. *)
Foreign(n) ==
  [stx |-> TRUE, etx |-> TRUE, len |-> n,
   head |-> [fields |-> Fresh, order |-> "net", len |-> n, lenOrder |-> "net"],
   made |-> [fields |-> Fresh, order |-> "host", body |-> IF n < Total(0) THEN 0 ELSE n - Total(0)]]

(* What a string may become on its way: a mark damaged, cut short or run
   together with the next, or another one altogether. *)
Received(s) ==
  {[s EXCEPT !.stx = FALSE], [s EXCEPT !.etx = FALSE]}
  \cup {[s EXCEPT !.len = n] : n \in {s.len - 1, s.len + 1} \cap 0 .. Max + 1}
  \cup {Foreign(n) : n \in 0 .. Max + 1}

-----------------------------------------------------------------------------
Transport ==
  /\ wire' \in Received(wire)
  /\ last' = [last EXCEPT !.call = "sent"]
  /\ UNCHANGED <<head, body>>

Ended(o, call) == last' = [object |-> o, call |-> call]

SetHead(o) ==
  /\ \E f \in Fields :
       head' = [head EXCEPT ![o] = [fields |-> f, order |-> "host", len |-> 0, lenOrder |-> "host"]]
  /\ Ended(o, "set")
  /\ UNCHANGED <<body, wire>>

SetBody(o) ==
  /\ \E b \in Bodies : body' = [body EXCEPT ![o] = b]
  /\ Ended(o, "set")
  /\ UNCHANGED <<head, wire>>

(* Variant: the length of an earlier package is kept. *)
FilledOnce(o) ==
  Swap(IF head[o].len # 0 THEN head[o]
       ELSE [head[o] EXCEPT !.len = Total(body[o]), !.lenOrder = "host"])

(* package_length is set and the whole head converted, in the object itself. *)
Filled(o) ==
  Swap([head[o] EXCEPT !.len = Total(body[o]), !.lenOrder = "host"])

(* The first mark, the head and the body are compared with the limit. *)
TooLarge(o) == 1 + HeadSize + body[o] > Max

PackageFails(o) ==
  /\ TooLarge(o)
  /\ head' = [head EXCEPT ![o] = Filled(o)]
  /\ Ended(o, "failed")
  /\ UNCHANGED <<body, wire>>

(* With a body one byte below the limit the last mark is the byte behind
   m_package; it is taken to hit nothing else. *)
Package(o) ==
  /\ ~TooLarge(o)
  /\ head' = [head EXCEPT ![o] = Filled(o)]
  /\ wire' = [stx |-> TRUE, etx |-> TRUE, len |-> Total(body[o]), head |-> Filled(o),
             made |-> [fields |-> head[o].fields, order |-> head[o].order, body |-> body[o]]]
  /\ Ended(o, "packed")
  /\ UNCHANGED body

(* Variant: a string shorter than a head is looked into. *)
WellFormedShort(s) == s.len > 0 /\ s.stx /\ s.etx /\ s.len <= Max

(* The checks of Unpackage before it touches the object. *)
WellFormed(s) ==
  /\ s.len > 0 /\ s.stx /\ s.etx
  /\ s.len >= HeadSize + 2 /\ s.len <= Max

(* Variant: the length in the head is not looked at. *)
LengthIgnored(s) == TRUE

(* The length in the head, read in the order of the host, against the real one. *)
LengthAgrees(s) == Swap(s.head).lenOrder = "host" /\ s.head.len = s.len

(* Variant: in the order of the network. *)
HeadUnswapped(s) == s.head

(* The head of a string, converted. *)
HeadFrom(s) == Swap(s.head)

UnpackageRefuses(o) ==
  /\ ~WellFormed(wire)
  /\ Ended(o, "failed")
  /\ UNCHANGED <<head, body, wire>>

(* The head of the object is already overwritten, the body is not. *)
UnpackageMismatch(o) ==
  /\ WellFormed(wire) /\ ~LengthAgrees(wire)
  /\ head' = [head EXCEPT ![o] = HeadFrom(wire)]
  /\ Ended(o, "failed")
  /\ UNCHANGED <<body, wire>>

Unpackage(o) ==
  /\ WellFormed(wire) /\ LengthAgrees(wire)
  /\ head' = [head EXCEPT ![o] = HeadFrom(wire)]
  /\ body' = [body EXCEPT ![o] = wire.len - 2 - HeadSize]
  /\ Ended(o, "unpacked")
  /\ UNCHANGED wire

-----------------------------------------------------------------------------
Init ==
  /\ head = [o \in Objects |-> [fields |-> Fresh, order |-> "host", len |-> 0, lenOrder |-> "host"]]
  /\ body = [o \in Objects |-> 0]
  /\ wire = Foreign(0)
  /\ \E o \in Objects : last = [object |-> o, call |-> "new"]

Unpack(o) == UnpackageRefuses(o) \/ UnpackageMismatch(o) \/ Unpackage(o)

Next ==
  \/ Transport
  \/ \E o \in Objects :
       SetHead(o) \/ SetBody(o) \/ Package(o) \/ PackageFails(o) \/ Unpack(o)

Spec == Init /\ [][Next]_vars

-----------------------------------------------------------------------------
(* Properties.                                                              *)

Made == [fields : Fields, order : Order, body : Nat]

TypeOK ==
  /\ head \in [Objects -> Head] /\ body \in [Objects -> Nat]
  /\ wire \in [stx : BOOLEAN, etx : BOOLEAN, len : Nat, head : Head, made : Made]
  /\ last \in [object : Objects, call : {"new", "set", "sent", "packed", "unpacked", "failed"}]

(* What handle_tcp_head reads from a package put out by Package is the length
   of that package, however often its object has been used before. *)
LengthOnWire == last.call = "packed" => LengthAgrees(wire)

(* An object that has accepted a string holds a head and a body that belong
   together. *)
UnpackedWhole ==
  LET o == last.object
  IN last.call = "unpacked" => head[o].lenOrder = "host" /\ head[o].len = Total(body[o])

(* And they are the fields and the body of the packer, in the byte order in
   which it held them: that of the host, if it has set its head since it last
   packaged it. *)
RoundTrip ==
  LET o == last.object
  IN last.call = "unpacked" =>
       /\ head[o].fields = wire.made.fields /\ head[o].order = wire.made.order
       /\ body[o] = wire.made.body
=============================================================================
