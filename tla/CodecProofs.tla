----------------------------- MODULE CodecProofs -----------------------------
(***************************************************************************)
(* Proofs about BaseProtocol, for any objects, heads, sizes and strings.    *)
(***************************************************************************)
EXTENDS Codec, TLAPS

String == [stx : BOOLEAN, etx : BOOLEAN, len : Nat, head : Head, made : Made]

(* Whatever happens to a string on its way, its head is as its packer wrote it:
   with every number turned round. *)
HeadWritten(s) ==
  /\ s.head.fields = s.made.fields
  /\ s.head.lenOrder = "net"
  /\ s.head.len >= Total(0) => s.head.len = Total(s.made.body)
  /\ s.head.order = Swapped(s.made.order)

(* The inductive invariant. *)
CodecInv ==
  /\ TypeOK /\ HeadWritten(wire)
  /\ LengthOnWire /\ UnpackedWhole /\ RoundTrip

(* The byte exchange keeps the values and turns each order into the other. *)
LEMMA SwapProperties ==
  ASSUME NEW h \in Head
  PROVE  /\ Swap(h) \in Head
         /\ Swap(h).fields = h.fields /\ Swap(h).len = h.len
         /\ (Swap(h).order = "host" <=> h.order = "net")
         /\ (Swap(h).lenOrder = "host" <=> h.lenOrder = "net")
BY DEF Head, Swap, Swapped, Order

LEMMA ForeignIsString ==
  ASSUME NEW n \in Nat
  PROVE  Foreign(n) \in String /\ HeadWritten(Foreign(n))
<1>1. Total(0) \in Nat /\ Total(0) = 2 + HeadSize
  BY CodecAssumption DEF Total
<1>2. (IF n < Total(0) THEN 0 ELSE n - Total(0)) \in Nat
  BY <1>1
<1>3. Foreign(n).made \in Made /\ Foreign(n).head \in Head
  BY <1>2, CodecAssumption DEF Foreign, Made, Head, Order
<1>4. Foreign(n) \in String
  BY <1>3 DEF Foreign, String
<1>5. n >= Total(0) => n = Total(Foreign(n).made.body)
  BY <1>1, CodecAssumption DEF Foreign, Total
<1>6. HeadWritten(Foreign(n))
  BY <1>5 DEF HeadWritten, Foreign, Swapped
<1>7. QED
  BY <1>4, <1>6

(* The head that Package writes into the object and the string. *)
LEMMA FilledProperties ==
  ASSUME TypeOK, NEW o \in Objects
  PROVE  /\ Filled(o) \in Head
         /\ Filled(o).fields = head[o].fields /\ Filled(o).len = Total(body[o])
         /\ Filled(o).lenOrder = "net"
         /\ Filled(o).order = Swapped(head[o].order)
         /\ Total(body[o]) \in Nat
<1> DEFINE h == [head[o] EXCEPT !.len = Total(body[o]), !.lenOrder = "host"]
<1>1. head[o] \in Head /\ body[o] \in Nat
  BY DEF TypeOK
<1>2. Total(body[o]) \in Nat
  BY <1>1, CodecAssumption DEF Total
<1>3. /\ h \in Head /\ h.fields = head[o].fields /\ h.len = Total(body[o])
      /\ h.lenOrder = "host" /\ h.order = head[o].order
  BY <1>1, <1>2 DEF Head, Order
<1>4. Filled(o) = Swap(h)
  BY DEF Filled
<1> HIDE DEF h
<1>5. /\ Swap(h) \in Head /\ Swap(h).fields = h.fields /\ Swap(h).len = h.len
      /\ Swap(h).lenOrder = "net" /\ Swap(h).order = Swapped(h.order)
  BY <1>3, SwapProperties DEF Swap, Swapped, Head, Order
<1>6. QED
  BY <1>2, <1>3, <1>4, <1>5

LEMMA CodecInit == Init => CodecInv
<1> SUFFICES ASSUME Init PROVE CodecInv
  OBVIOUS
<1>1. wire \in String /\ HeadWritten(wire)
  BY ForeignIsString DEF Init
<1>2. head \in [Objects -> Head] /\ body \in [Objects -> Nat]
  BY CodecAssumption DEF Init, Head, Order
<1>3. last \in [object : Objects, call : {"new"}] /\ last.call = "new"
  BY DEF Init
<1>4. TypeOK
  BY <1>1, <1>2, <1>3 DEF TypeOK, String
<1>5. QED
  BY <1>1, <1>3, <1>4 DEF CodecInv, LengthOnWire, UnpackedWhole, RoundTrip

(* Every call, and everything that may happen to a string, keeps it. *)
LEMMA CodecStep == CodecInv /\ [Next]_vars => CodecInv'
<1> SUFFICES ASSUME CodecInv, [Next]_vars
             PROVE  CodecInv'
  OBVIOUS
<1>a. /\ TypeOK /\ HeadWritten(wire)
      /\ head \in [Objects -> Head] /\ body \in [Objects -> Nat] /\ wire \in String
  BY DEF CodecInv, TypeOK, String
<1>b. ASSUME NEW o \in Objects, NEW call \in {"set", "failed"}, Ended(o, call),
             head' \in [Objects -> Head], body' \in [Objects -> Nat], UNCHANGED wire
      PROVE  CodecInv'
  <2>1. last' \in [object : Objects, call : {"new", "set", "sent", "packed", "unpacked", "failed"}]
        /\ last'.call = call
    BY <1>b DEF Ended
  <2>2. TypeOK'
    BY <1>a, <1>b, <2>1 DEF TypeOK
  <2>3. HeadWritten(wire)'
    BY <1>a, <1>b DEF HeadWritten, Total
  <2>4. QED
    BY <1>b, <2>1, <2>2, <2>3 DEF CodecInv, LengthOnWire, UnpackedWhole, RoundTrip
<1>1. CASE Transport
  <2>1. wire' \in Received(wire) /\ UNCHANGED <<head, body>>
    BY <1>1 DEF Transport
  <2>2. last' \in [object : Objects, call : {"new", "set", "sent", "packed", "unpacked", "failed"}]
        /\ last'.call = "sent"
    BY <1>1, <1>a DEF Transport, TypeOK
  <2>3. wire' \in String /\ HeadWritten(wire')
    <3>1. CASE wire' \in {[wire EXCEPT !.stx = FALSE], [wire EXCEPT !.etx = FALSE]}
      BY <1>a, <3>1 DEF String, HeadWritten
    <3>2. CASE \E n \in {wire.len - 1, wire.len + 1} \cap 0 .. Max + 1 : wire' = [wire EXCEPT !.len = n]
      <4>1. PICK n \in Nat : wire' = [wire EXCEPT !.len = n]
        BY <3>2, CodecAssumption
      <4>2. QED
        BY <1>a, <4>1 DEF String, HeadWritten
    <3>3. CASE \E n \in 0 .. Max + 1 : wire' = Foreign(n)
      <4>1. PICK n \in Nat : wire' = Foreign(n)
        BY <3>3, CodecAssumption
      <4>2. QED
        BY <4>1, ForeignIsString
    <3>4. QED
      BY <2>1, <3>1, <3>2, <3>3 DEF Received
  <2>4. TypeOK'
    BY <1>a, <2>1, <2>2, <2>3 DEF TypeOK, String
  <2>5. HeadWritten(wire)'
    BY <2>3 DEF HeadWritten, Total
  <2>6. QED
    BY <2>2, <2>4, <2>5 DEF CodecInv, LengthOnWire, UnpackedWhole, RoundTrip
<1>2. ASSUME NEW o \in Objects, SetHead(o) PROVE CodecInv'
  <2>1. PICK f \in Fields :
          head' = [head EXCEPT ![o] = [fields |-> f, order |-> "host", len |-> 0, lenOrder |-> "host"]]
    BY <1>2 DEF SetHead
  <2>2. head' \in [Objects -> Head]
    BY <1>a, <2>1 DEF Head, Order
  <2>3. QED
    BY <1>2, <1>a, <1>b, <2>2 DEF SetHead
<1>3. ASSUME NEW o \in Objects, SetBody(o) PROVE CodecInv'
  <2>1. body' \in [Objects -> Nat]
    BY <1>3, <1>a, CodecAssumption DEF SetBody
  <2>2. QED
    BY <1>3, <1>a, <1>b, <2>1 DEF SetBody
<1>4. ASSUME NEW o \in Objects, PackageFails(o) PROVE CodecInv'
  <2>1. head' \in [Objects -> Head]
    BY <1>4, <1>a, FilledProperties DEF PackageFails
  <2>2. QED
    BY <1>4, <1>a, <1>b, <2>1 DEF PackageFails
<1>5. ASSUME NEW o \in Objects, UnpackageRefuses(o) PROVE CodecInv'
  BY <1>5, <1>a, <1>b DEF UnpackageRefuses
<1>6. ASSUME NEW o \in Objects, UnpackageMismatch(o) PROVE CodecInv'
  <2>1. Swap(wire.head) \in Head
    BY <1>a, SwapProperties DEF String
  <2>2. head' \in [Objects -> Head]
    BY <1>6, <1>a, <2>1 DEF UnpackageMismatch, HeadFrom
  <2>3. QED
    BY <1>6, <1>a, <1>b, <2>2 DEF UnpackageMismatch, HeadFrom
<1>7. ASSUME NEW o \in Objects, Package(o) PROVE CodecInv'
  <2>1. /\ Filled(o) \in Head /\ Filled(o).fields = head[o].fields
        /\ Filled(o).len = Total(body[o]) /\ Filled(o).lenOrder = "net"
        /\ Filled(o).order = Swapped(head[o].order)
        /\ Total(body[o]) \in Nat
    BY <1>a, FilledProperties
  <2>2. /\ wire' = [stx |-> TRUE, etx |-> TRUE, len |-> Total(body[o]), head |-> Filled(o),
                    made |-> [fields |-> head[o].fields, order |-> head[o].order, body |-> body[o]]]
        /\ head' = [head EXCEPT ![o] = Filled(o)] /\ body' = body
        /\ last' = [object |-> o, call |-> "packed"]
    BY <1>7 DEF Package, Ended
  <2>3. [fields |-> head[o].fields, order |-> head[o].order, body |-> body[o]] \in Made
    BY <1>a DEF Made, Head
  <2>4. wire' \in String
    BY <2>1, <2>2, <2>3 DEF String
  <2>5. /\ wire'.head = Filled(o) /\ wire'.len = Total(body[o])
        /\ wire'.made.fields = head[o].fields /\ wire'.made.body = body[o]
        /\ wire'.made.order = head[o].order
    BY <2>2
  <2>6. HeadWritten(wire')
    BY <2>1, <2>2, <2>5 DEF HeadWritten
  <2>7. HeadWritten(wire)'
    BY <2>6 DEF HeadWritten, Total
  <2>a. Swap(Filled(o)).lenOrder = "host" /\ wire'.head.len = wire'.len
    BY <2>1, <2>5, SwapProperties
  <2>b. Swap(wire'.head).lenOrder = "host"
    BY <2>5, <2>a
  <2>8. LengthOnWire'
    BY <2>a, <2>b DEF LengthOnWire, LengthAgrees, Swap, Swapped
  <2>9. TypeOK'
    BY <1>a, <2>1, <2>2, <2>4 DEF TypeOK, String
  <2>10. UnpackedWhole' /\ RoundTrip'
    BY <2>2 DEF UnpackedWhole, RoundTrip
  <2>11. QED
    BY <2>7, <2>8, <2>9, <2>10 DEF CodecInv
<1>8. ASSUME NEW o \in Objects, Unpackage(o) PROVE CodecInv'
  <2>1. /\ WellFormed(wire) /\ LengthAgrees(wire)
        /\ head' = [head EXCEPT ![o] = Swap(wire.head)]
        /\ body' = [body EXCEPT ![o] = wire.len - 2 - HeadSize]
        /\ last' = [object |-> o, call |-> "unpacked"] /\ wire' = wire
    BY <1>8 DEF Unpackage, HeadFrom, Ended
  <2>2. wire.head \in Head /\ wire.len \in Nat /\ wire.made.body \in Nat /\ wire.made.order \in Order
    BY <1>a DEF String, Made
  <2>3. /\ Swap(wire.head) \in Head /\ Swap(wire.head).fields = wire.head.fields
        /\ Swap(wire.head).len = wire.head.len
        /\ Swap(wire.head).order = wire.made.order
    BY <1>a, <2>2, SwapProperties DEF HeadWritten, Made, Order, Swapped, Swap, Head
  <2>4. /\ wire.len - 2 - HeadSize \in Nat /\ wire.len = Total(wire.len - 2 - HeadSize)
        /\ wire.head.len = wire.len /\ Swap(wire.head).lenOrder = "host"
        /\ wire.len >= Total(0)
    BY <2>1, <2>2, CodecAssumption DEF WellFormed, LengthAgrees, Total
  <2>5. wire.len - 2 - HeadSize = wire.made.body
    BY <1>a, <2>2, <2>4, CodecAssumption DEF HeadWritten, Total
  <2>6. head'[o] = Swap(wire.head) /\ body'[o] = wire.len - 2 - HeadSize
    BY <1>a, <2>1
  <2>7. last'.object = o /\ last'.call = "unpacked"
    BY <2>1
  <2>8. UnpackedWhole'
    BY <2>3, <2>4, <2>6, <2>7 DEF UnpackedWhole, Total
  <2>9. RoundTrip'
    BY <1>a, <2>1, <2>3, <2>5, <2>6, <2>7 DEF RoundTrip, HeadWritten
  <2>10. TypeOK'
    BY <1>a, <2>1, <2>3, <2>4 DEF TypeOK
  <2>11. HeadWritten(wire)'
    BY <1>a, <2>1 DEF HeadWritten, Total
  <2>12. LengthOnWire'
    BY <2>7 DEF LengthOnWire
  <2>13. QED
    BY <2>8, <2>9, <2>10, <2>11, <2>12 DEF CodecInv
<1>9. CASE UNCHANGED vars
  BY <1>9 DEF vars, CodecInv, TypeOK, HeadWritten, LengthOnWire, LengthAgrees, UnpackedWhole,
              RoundTrip, Total
<1>10. QED
  BY <1>1, <1>2, <1>3, <1>4, <1>5, <1>6, <1>7, <1>8, <1>9 DEF Next, Unpack

LEMMA CodecInvariant == Spec => []CodecInv
BY CodecInit, CodecStep, PTL DEF Spec

(* The types; in particular, a body taken out of a string is never shorter
   than nothing. *)
THEOREM CodecTypes == Spec => []TypeOK
<1>1. CodecInv => TypeOK
  BY DEF CodecInv
<1>2. QED
  BY <1>1, CodecInvariant, PTL

(* A package says its own length in the byte order the receiver reads, even if
   its object has been packaged any number of times. *)
THEOREM LengthIsRight == Spec => []LengthOnWire
<1>1. CodecInv => LengthOnWire
  BY DEF CodecInv
<1>2. QED
  BY <1>1, CodecInvariant, PTL

(* After a successful Unpackage, head and body belong together. *)
THEOREM AcceptedIsWhole == Spec => []UnpackedWhole
<1>1. CodecInv => UnpackedWhole
  BY DEF CodecInv
<1>2. QED
  BY <1>1, CodecInvariant, PTL

(* What is taken out of a string is what was put into it. *)
THEOREM PackedIsUnpacked == Spec => []RoundTrip
<1>1. CodecInv => RoundTrip
  BY DEF CodecInv
<1>2. QED
  BY <1>1, CodecInvariant, PTL
=============================================================================
