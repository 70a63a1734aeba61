--------------------------- MODULE TSPackerProofs ---------------------------
(***************************************************************************)
(* Proofs about TSPacker for units of every size: the number of packets    *)
(* that is computed, the continuity counters and the length in the PES     *)
(* header.  TLC checks the sizes around the boundaries; what it cannot do  *)
(* is to show that there are no other boundaries.                          *)
(***************************************************************************)
EXTENDS TSPacker, TLAPS

(* The packets that so many bytes of a unit take behind its first packet.  *)
Behind(bytes) == (bytes + 183) \div 184

(* What is left of a unit behind its first packet.                         *)
Rest(k, s) == IF s > FirstRoom(k) THEN s - FirstRoom(k) ELSE 0

(* The number that packetize computes with its two special cases is one    *)
(* packet, and as many as it takes to hold the rest.                       *)
LEMMA PacketCountIsExact ==
  ASSUME NEW k \in Kind, NEW s \in Nat
  PROVE  PacketCount(k, s) = 1 + Behind(Rest(k, s))
<1> DEFINE r == Rest(k, s)
           full == r \div 184
           left == r - full * 184
<1>1. r \in Nat
  BY DEF Rest, FirstRoom, Stuffing, Packet, TsHeader, PesHeader
<1>2. PacketCount(k, s) =
        1 + full + (IF (full = 0 /\ left > 0) \/ (full > 0 /\ left + 184 > 184) THEN 1 ELSE 0)
  BY DEF PacketCount, Rest, NextRoom, Packet, TsHeader
<1> HIDE DEF r
<1>3. full \in Nat /\ left \in 0..183
  BY <1>1
<1>4. Behind(r) = full + (IF left > 0 THEN 1 ELSE 0)
  BY <1>1, <1>3 DEF Behind
<1> QED
  BY <1>2, <1>3, <1>4 DEF r

(* One more packet takes 184 bytes, or what is left.                       *)
LEMMA OnePacketLess ==
  ASSUME NEW d \in Nat, d > 0
  PROVE  Behind(d) = 1 + Behind(d - (IF d > 184 THEN 184 ELSE d))
BY DEF Behind

(* The counters step through 0..15, as the receiver expects.               *)
LEMMA IncrementIsModulo ==
  ASSUME NEW c \in Counter
  PROVE  Increment(c) \in Counter /\ Increment(c) = (c + 1) % 16
BY DEF Increment, Counter

(* The length fits into the 16 bits it has; it is the true one, or 0.       *)
LEMMA PesLengthIsShort ==
  ASSUME NEW k, NEW s \in Nat, Stuffing(k) \in Nat
  PROVE  PesLength(k, s) \in HeaderLength
<1> DEFINE n == s + 8 + Stuffing(k)
<1>1. n \in Nat /\ PesLength(k, s) = IF n >= 65536 THEN 0 ELSE n % 65536
  BY DEF PesLength
<1> HIDE DEF n
<1>2. PesLength(k, s) \in Int /\ 0 <= PesLength(k, s) /\ PesLength(k, s) < 65536
  BY <1>1
<1> QED
  BY <1>2 DEF HeaderLength

(* The packets for which there is room are those that will be written.     *)
RoomInv ==
  /\ pc \in {"idle", "pat", "pmt", "pcr", "first"} => offset = 0
  /\ pc = "pat" => room = PacketCount(kind, size) + 3
  /\ pc = "pmt" => room = PacketCount(kind, size) + 2
  /\ pc = "pcr" => room = PacketCount(kind, size) + 1
  /\ pc = "first" => room = PacketCount(kind, size)
  /\ pc = "next" => offset <= size /\ room = Behind(size - offset)

(* A receiver that has seen a packet expects the counter that will be      *)
(* written next: of the tables the counter after, of the units the counter *)
(* itself.                                                                 *)
CounterInv ==
  /\ ~broken
  /\ \A p \in {"pat", "pmt"} : expected[p] \in {Any, Increment(counter[p])}
  /\ \A p \in {"video", "audio"} : expected[p] \in {Any, counter[p]}

(* Behind the length of the PES header have come its own eight bytes, the  *)
(* stuffing and what is written of the unit.                               *)
LengthInv ==
  pc = "next" =>
    /\ pesBytes = offset + 8 + Stuffing(kind)
    /\ pesLength \in {0, size + 8 + Stuffing(kind)}

IInv == TypeOK /\ RoomInv /\ CounterInv /\ LengthInv

LEMMA CountIsInt ==
  ASSUME NEW k \in Kind, NEW s \in Nat
  PROVE  PacketCount(k, s) \in Nat /\ PacketCount(k, s) >= 1
<1>1. Rest(k, s) \in Nat
  BY DEF Rest, FirstRoom, Stuffing, Packet, TsHeader, PesHeader
<1>2. Behind(Rest(k, s)) \in Nat
  BY <1>1 DEF Behind
<1> QED
  BY <1>2, PacketCountIsExact

LEMMA InitHolds == Init => IInv
<1> SUFFICES ASSUME Init PROVE IInv
  OBVIOUS
<1>1. TypeOK
  <2>1. counter \in [Pid -> Counter] /\ expected \in [Pid -> Counter \union {Any}]
    BY DEF Init, Counter
  <2>2. /\ size \in Nat /\ offset \in Nat /\ room \in Int
        /\ pesLength \in HeaderLength /\ pesBytes \in Nat
    BY DEF Init, HeaderLength
  <2>3. kind \in Kind /\ first \in BOOLEAN /\ broken \in BOOLEAN /\ pc = "idle"
    BY DEF Init, Kind
  <2> QED
    BY <2>1, <2>2, <2>3 DEF TypeOK
<1>2. RoomInv /\ LengthInv
  BY DEF Init, RoomInv, LengthInv
<1>3. CounterInv
  BY DEF Init, CounterInv, Pid
<1> QED
  BY <1>1, <1>2, <1>3 DEF IInv

(* What a packet with a counter does to the receiver that has seen it.     *)
LEMMA ReceiveType ==
  ASSUME TypeOK, NEW p \in Pid, NEW c \in Counter, Receive(p, c)
  PROVE  /\ expected' \in [Pid -> Counter \union {Any}]
         /\ broken' \in BOOLEAN
<1>1. (c + 1) % 16 \in Counter
  BY DEF Counter
<1>2. expected' \in [Pid -> Counter \union {Any}]
  BY <1>1 DEF TypeOK, Receive
<1>3. broken' \in BOOLEAN
  BY DEF TypeOK, Receive
<1> QED
  BY <1>2, <1>3

LEMMA TableType ==
  ASSUME TypeOK, NEW p \in {"pat", "pmt"}, NEW next \in {"pmt", "pcr"}, Table(p, next)
  PROVE  TypeOK'
<1>1. p \in Pid
  BY DEF Pid
<1>2. Increment(counter[p]) \in Counter
  BY <1>1, IncrementIsModulo DEF TypeOK
<1>3. counter' \in [Pid -> Counter] /\ counter'[p] \in Counter
  BY <1>1, <1>2 DEF Table, TypeOK
<1>4. expected' \in [Pid -> Counter \union {Any}] /\ broken' \in BOOLEAN
  BY <1>1, <1>3, ReceiveType DEF Table
<1>5. room' \in Int
  BY DEF Table, TypeOK
<1>6. pc' \in {"pmt", "pcr"} /\ UNCHANGED <<kind, size, offset, first, pesLength, pesBytes>>
  BY DEF Table, unit
<1> QED
  BY <1>3, <1>4, <1>5, <1>6 DEF TypeOK

LEMMA UnitType ==
  ASSUME TypeOK, NEW copy \in Nat, UnitPacket(copy), pc' = "next",
         pesLength' \in HeaderLength, pesBytes' \in Nat
  PROVE  TypeOK'
<1>1. kind \in Pid /\ counter[kind] \in Counter
  BY DEF TypeOK, Kind, Pid
<1>2. Increment(counter[kind]) \in Counter
  BY <1>1, IncrementIsModulo
<1>3. counter' \in [Pid -> Counter]
  <2>1. counter \in [Pid -> Counter]
    BY DEF TypeOK
  <2>2. counter' = [counter EXCEPT ![kind] = Increment(counter[kind])]
    BY DEF UnitPacket
  <2> QED
    BY <1>1, <1>2, <2>1, <2>2
<1>4. expected' \in [Pid -> Counter \union {Any}] /\ broken' \in BOOLEAN
  BY <1>1, ReceiveType DEF UnitPacket
<1>5. offset' \in Nat /\ room' \in Int
  BY DEF UnitPacket, TypeOK
<1>6. UNCHANGED <<kind, size, first>>
  BY DEF UnitPacket
<1> QED
  BY <1>3, <1>4, <1>5, <1>6 DEF TypeOK

LEMMA TypeStep == IInv /\ [Next]_vars => TypeOK'
<1> SUFFICES ASSUME TypeOK, RoomInv, [Next]_vars PROVE TypeOK'
  BY DEF IInv
<1>1. ASSUME NEW k \in Kind, NEW s \in Sizes, NEW tables \in BOOLEAN, Packetize(k, s, tables)
      PROVE  TypeOK'
  <2>1. s \in Nat /\ PacketCount(k, s) \in Nat
    BY SizesAssumption, CountIsInt
  <2>2. room' \in Int /\ size' \in Nat /\ offset' \in Nat
    BY <1>1, <2>1 DEF Packetize
  <2>3. first' \in BOOLEAN
    BY <1>1 DEF Packetize, TypeOK
  <2>4. kind' \in Kind /\ pc' \in {"pat", "first"} /\ UNCHANGED <<counter, receiver>>
    BY <1>1 DEF Packetize
  <2> QED
    BY <2>2, <2>3, <2>4 DEF TypeOK, receiver
<1>2. CASE ClockReference
  <2>1. room' \in Int
    BY <1>2 DEF ClockReference, TypeOK
  <2> QED
    BY <1>2, <2>1 DEF ClockReference, TypeOK, unit, receiver
<1>3. CASE FirstPacket
  <2> DEFINE copy == IF size > FirstRoom(kind) THEN FirstRoom(kind) ELSE size
  <2>1. UnitPacket(copy) /\ pc' = "next" /\ pesLength' = PesLength(kind, size)
        /\ pesBytes' = 3 + 5 + Stuffing(kind) + copy
    BY <1>3 DEF FirstPacket
  <2>2. copy \in Nat /\ Stuffing(kind) \in Nat
    BY DEF FirstRoom, Stuffing, Packet, TsHeader, PesHeader, TypeOK
  <2> HIDE DEF copy
  <2>3. size \in Nat
    BY DEF TypeOK
  <2>4. PesLength(kind, size) \in HeaderLength
    BY <2>2, <2>3, PesLengthIsShort
  <2>5. pesBytes' \in Nat
    BY <2>1, <2>2
  <2> QED
    BY <2>1, <2>2, <2>4, <2>5, UnitType
<1>4. CASE NextPacket
  <2> DEFINE copy == IF size - offset > NextRoom THEN NextRoom ELSE size - offset
  <2>1. UnitPacket(copy) /\ pc' = "next" /\ pesLength' = pesLength
        /\ pesBytes' = pesBytes + copy /\ offset < size
    BY <1>4 DEF NextPacket
  <2>2. copy \in Nat
    BY <2>1 DEF NextRoom, Packet, TsHeader, TypeOK
  <2> HIDE DEF copy
  <2>3. pesLength' \in HeaderLength /\ pesBytes' \in Nat
    BY <2>1, <2>2 DEF TypeOK
  <2> QED
    BY <2>1, <2>2, <2>3, UnitType
<1>5. CASE Return
  <2>1. size' \in Nat /\ offset' \in Nat /\ room' \in Int /\ pesLength' \in HeaderLength
        /\ pesBytes' \in Nat /\ kind' \in Kind
    BY <1>5 DEF Return, Kind, HeaderLength
  <2> QED
    BY <1>5, <2>1 DEF Return, TypeOK
<1>6. CASE UNCHANGED vars
  BY <1>6 DEF vars, unit, receiver, TypeOK
<1> QED
  BY <1>1, <1>2, <1>3, <1>4, <1>5, <1>6, TableType DEF Next, ProgramAssociation, ProgramMap

LEMMA RoomStep == IInv /\ [Next]_vars => RoomInv'
<1> SUFFICES ASSUME TypeOK, RoomInv, [Next]_vars PROVE RoomInv'
  BY DEF IInv
<1>0. PacketCount(kind, size) \in Nat /\ kind \in Kind /\ size \in Nat /\ offset \in Nat
      /\ room \in Int
  BY CountIsInt DEF TypeOK
<1>1. ASSUME NEW k \in Kind, NEW s \in Sizes, NEW tables \in BOOLEAN, Packetize(k, s, tables)
      PROVE  RoomInv'
  <2>1. kind' = k /\ size' = s /\ offset' = 0
    BY <1>1 DEF Packetize
  <2>2. \/ pc' = "pat" /\ room' = PacketCount(k, s) + 3
        \/ pc' = "first" /\ room' = PacketCount(k, s) + 0
    BY <1>1 DEF Packetize
  <2>3. PacketCount(k, s) \in Nat
    BY SizesAssumption, CountIsInt
  <2> QED
    BY <2>1, <2>2, <2>3 DEF RoomInv
<1>2. CASE ProgramAssociation
  BY <1>0, <1>2 DEF ProgramAssociation, Table, RoomInv, unit
<1>3. CASE ProgramMap
  BY <1>0, <1>3 DEF ProgramMap, Table, RoomInv, unit
<1>4. CASE ClockReference
  BY <1>0, <1>4 DEF ClockReference, RoomInv, unit
<1>5. CASE FirstPacket
  <2>1. room = 1 + Behind(Rest(kind, size)) /\ offset = 0
    BY <1>0, <1>5, PacketCountIsExact DEF FirstPacket, RoomInv
  <2>2. room' = room - 1 /\ kind' = kind /\ size' = size /\ pc' = "next"
        /\ offset' = offset + (IF size > FirstRoom(kind) THEN FirstRoom(kind) ELSE size)
    BY <1>5 DEF FirstPacket, UnitPacket
  <2>3. offset' <= size /\ size - offset' = Rest(kind, size)
    BY <1>0, <2>1, <2>2 DEF Rest, FirstRoom, Stuffing, Packet, TsHeader, PesHeader
  <2>4. Behind(Rest(kind, size)) \in Int
    BY <1>0 DEF Behind, Rest, FirstRoom, Stuffing, Packet, TsHeader, PesHeader
  <2> QED
    BY <1>0, <2>1, <2>2, <2>3, <2>4 DEF RoomInv
<1>6. CASE NextPacket
  <2>1. offset < size /\ room = Behind(size - offset)
    BY <1>6 DEF NextPacket, RoomInv
  <2>2. /\ room' = room - 1 /\ size' = size /\ pc' = "next"
        /\ offset' = offset + (IF size - offset > 184 THEN 184 ELSE size - offset)
    BY <1>6 DEF NextPacket, UnitPacket, NextRoom, Packet, TsHeader
  <2>3. offset' <= size /\ offset' \in Nat
    BY <1>0, <2>1, <2>2
  <2>4. Behind(size - offset) = 1 + Behind(size - offset')
    <3>1. Behind(size - offset) = 1 + Behind((size - offset)
             - (IF size - offset > 184 THEN 184 ELSE size - offset))
      BY <1>0, <2>1, OnePacketLess
    <3>2. (size - offset) - (IF size - offset > 184 THEN 184 ELSE size - offset)
            = size - offset'
      BY <1>0, <2>2
    <3> QED
      BY <3>1, <3>2
  <2>5. Behind(size - offset') \in Int
    BY <1>0, <2>3 DEF Behind
  <2> QED
    BY <2>1, <2>2, <2>3, <2>4, <2>5 DEF RoomInv
<1>7. CASE Return
  BY <1>7 DEF Return, RoomInv
<1>8. CASE UNCHANGED vars
  BY <1>8 DEF vars, unit, receiver, RoomInv
<1> QED
  BY <1>1, <1>2, <1>3, <1>4, <1>5, <1>6, <1>7, <1>8 DEF Next

(* A table's counter is incremented first, so it is the one expected.      *)
LEMMA TableCounter ==
  ASSUME TypeOK, CounterInv, NEW p \in {"pat", "pmt"}, NEW next, Table(p, next)
  PROVE  CounterInv'
<1> DEFINE c == Increment(counter[p])
<1>1. p \in Pid /\ counter[p] \in Counter /\ counter \in [Pid -> Counter]
      /\ DOMAIN expected = Pid
  BY DEF Pid, TypeOK
<1>2. Increment(c) = (c + 1) % 16
  BY <1>1, IncrementIsModulo
<1>3. counter'[p] = c /\ \A q \in Pid \ {p} : counter'[q] = counter[q]
  BY <1>1 DEF Table
<1>4. expected' = [expected EXCEPT ![p] = (c + 1) % 16]
  BY <1>3 DEF Table, Receive
<1>5. expected[p] \in {Any, c} /\ ~broken
  BY DEF CounterInv
<1>6. ~broken'
  BY <1>3, <1>5 DEF Table, Receive
<1> HIDE DEF c
<1>7. expected'[p] = Increment(c) /\ \A q \in Pid \ {p} : expected'[q] = expected[q]
  BY <1>1, <1>2, <1>4
<1>8. \A q \in {"pat", "pmt"} : expected'[q] \in {Any, Increment(counter'[q])}
  BY <1>3, <1>7 DEF CounterInv, Pid
<1>9. \A q \in {"video", "audio"} : expected'[q] \in {Any, counter'[q]}
  BY <1>3, <1>7 DEF CounterInv, Pid
<1> QED
  BY <1>6, <1>8, <1>9 DEF CounterInv

(* A unit's counter is used as it is, and incremented for the next packet. *)
LEMMA UnitCounter ==
  ASSUME TypeOK, CounterInv, NEW copy, UnitPacket(copy)
  PROVE  CounterInv'
<1> DEFINE c == counter[kind]
<1>1. kind \in {"video", "audio"} /\ kind \in Pid /\ c \in Counter
      /\ DOMAIN counter = Pid /\ DOMAIN expected = Pid
  BY DEF Pid, Kind, TypeOK
<1>2. Increment(c) = (c + 1) % 16
  BY <1>1, IncrementIsModulo
<1>3. counter'[kind] = Increment(c) /\ \A q \in Pid \ {kind} : counter'[q] = counter[q]
  BY <1>1 DEF UnitPacket
<1>4. expected' = [expected EXCEPT ![kind] = (c + 1) % 16]
  BY DEF UnitPacket, Receive
<1>5. expected[kind] \in {Any, c} /\ ~broken
  BY <1>1 DEF CounterInv
<1>6. ~broken'
  BY <1>5 DEF UnitPacket, Receive
<1> HIDE DEF c
<1>7. expected'[kind] = Increment(c) /\ \A q \in Pid \ {kind} : expected'[q] = expected[q]
  BY <1>1, <1>2, <1>4
<1>8. \A q \in {"pat", "pmt"} : expected'[q] \in {Any, Increment(counter'[q])}
  BY <1>1, <1>3, <1>7 DEF CounterInv, Pid
<1>9. \A q \in {"video", "audio"} : expected'[q] \in {Any, counter'[q]}
  BY <1>3, <1>7 DEF CounterInv, Pid
<1> QED
  BY <1>6, <1>8, <1>9 DEF CounterInv

LEMMA CounterStep == IInv /\ [Next]_vars => CounterInv'
<1> SUFFICES ASSUME TypeOK, CounterInv, [Next]_vars PROVE CounterInv'
  BY DEF IInv
<1>1. ASSUME UNCHANGED <<counter, expected, broken>> PROVE CounterInv'
  BY <1>1 DEF CounterInv
<1>2. CASE ProgramAssociation \/ ProgramMap
  BY <1>2, TableCounter DEF ProgramAssociation, ProgramMap
<1>3. CASE FirstPacket
  BY <1>3, UnitCounter DEF FirstPacket
<1>4. CASE NextPacket
  BY <1>4, UnitCounter DEF NextPacket
<1>5. ASSUME NEW k \in Kind, NEW s \in Sizes, NEW tables \in BOOLEAN, Packetize(k, s, tables)
      PROVE  CounterInv'
  BY <1>1, <1>5 DEF Packetize, receiver
<1>6. CASE ClockReference \/ Return \/ UNCHANGED vars
  BY <1>1, <1>6 DEF ClockReference, Return, vars, receiver
<1> QED
  BY <1>2, <1>3, <1>4, <1>5, <1>6 DEF Next

LEMMA LengthStep == IInv /\ [Next]_vars => LengthInv'
<1> SUFFICES ASSUME TypeOK, RoomInv, LengthInv, [Next]_vars PROVE LengthInv'
  BY DEF IInv
<1>0. Stuffing(kind) \in Nat /\ size \in Nat /\ offset \in Nat /\ pesBytes \in Nat
  BY DEF Stuffing, TypeOK
<1>1. CASE FirstPacket
  <2> DEFINE copy == IF size > FirstRoom(kind) THEN FirstRoom(kind) ELSE size
  <2>1. /\ offset = 0 /\ offset' = offset + copy /\ kind' = kind /\ size' = size
        /\ pesLength' = PesLength(kind, size)
        /\ pesBytes' = 3 + 5 + Stuffing(kind) + copy
    BY <1>1 DEF FirstPacket, UnitPacket, RoomInv
  <2>2. copy \in Nat
    BY <1>0 DEF FirstRoom, Stuffing, Packet, TsHeader, PesHeader
  <2> HIDE DEF copy
  <2>3. PesLength(kind, size) \in {0, size + 8 + Stuffing(kind)}
    BY <1>0 DEF PesLength
  <2> QED
    BY <1>0, <2>1, <2>2, <2>3 DEF LengthInv
<1>2. CASE NextPacket
  <2> DEFINE copy == IF size - offset > NextRoom THEN NextRoom ELSE size - offset
  <2>1. /\ pc = "next" /\ offset < size
        /\ offset' = offset + copy /\ kind' = kind /\ size' = size
        /\ pesLength' = pesLength /\ pesBytes' = pesBytes + copy
    BY <1>2 DEF NextPacket, UnitPacket
  <2>2. copy \in Nat
    BY <1>0, <2>1 DEF NextRoom, Packet, TsHeader
  <2> HIDE DEF copy
  <2> QED
    BY <1>0, <2>1, <2>2 DEF LengthInv
<1>3. ASSUME NEW k \in Kind, NEW s \in Sizes, NEW tables \in BOOLEAN, Packetize(k, s, tables)
      PROVE  LengthInv'
  BY <1>3 DEF Packetize, LengthInv
<1>4. CASE ProgramAssociation \/ ProgramMap \/ ClockReference \/ Return
  BY <1>4 DEF ProgramAssociation, ProgramMap, Table, ClockReference, Return, LengthInv
<1>5. CASE UNCHANGED vars
  BY <1>5 DEF vars, unit, receiver, LengthInv
<1> QED
  BY <1>1, <1>2, <1>3, <1>4, <1>5 DEF Next

(* The conjunction of the four invariants of packetize and its receiver is *)
(* inductive, and so holds in every state.                                 *)
THEOREM Invariance == Spec => []IInv
<1>1. IInv /\ [Next]_vars => IInv'
  BY TypeStep, RoomStep, CounterStep, LengthStep DEF IInv
<1> QED
  BY InitHolds, <1>1, PTL DEF Spec

(* Type correctness of the packer and of the receiver.                     *)
THEOREM TypeCorrect == Spec => []TypeOK
<1>1. IInv => TypeOK
  BY DEF IInv
<1> QED
  BY Invariance, <1>1, PTL

(* packetize fills the buffer it has computed the size of, and no more,    *)
(* for units of every size.                                                *)
THEOREM PacketsAlwaysFillBuffer == Spec => []PacketsFillBuffer
<1>1. ASSUME IInv PROVE PacketsFillBuffer
  <2> USE <1>1 DEF IInv, TypeOK, RoomInv
  <2>1. PacketCount(kind, size) \in Nat /\ PacketCount(kind, size) >= 1
    BY CountIsInt
  <2>2. pc = "next" /\ offset < size => Behind(size - offset) >= 1
    BY DEF Behind
  <2>3. pc = "next" /\ offset >= size => Behind(size - offset) = 0
    BY DEF Behind
  <2> QED
    BY <2>1, <2>2, <2>3 DEF PacketsFillBuffer, UnitDone
<1> QED
  BY Invariance, <1>1, PTL

(* The receiver never finds a packet missing or repeated.                  *)
THEOREM ContinuityAlwaysKept == Spec => []ContinuityKept
<1>1. IInv => ContinuityKept
  BY DEF IInv, CounterInv, ContinuityKept
<1> QED
  BY Invariance, <1>1, PTL

(* A unit of any size arrives as a whole, with the announced length.       *)
THEOREM UnitAlwaysArrivesWhole == Spec => []UnitArrivesWhole
<1>1. IInv => UnitArrivesWhole
  BY DEF IInv, TypeOK, RoomInv, LengthInv, UnitArrivesWhole, UnitDone
<1> QED
  BY Invariance, <1>1, PTL
=============================================================================
