------------------------------ MODULE TSPacker ------------------------------
(***************************************************************************)
(* TSPacker::packetize (services/screencontrol/Media2Ts/tspack.cpp), which *)
(* packs the units the encoders put out into the 188 byte packets of an    *)
(* MPEG-2 transport stream.  It first computes how many packets it will    *)
(* write, allocates a buffer for exactly these, and then writes them one   *)
(* behind the other: PAT, PMT and PCR when they are due, one packet that   *)
(* begins with the PES header, and packets of payload up to the end of the *)
(* unit.  Every packet is 188 bytes long: padding fills what is left.      *)
(*                                                                         *)
(* The other side is the receiver that the format is made for: it notices  *)
(* a lost packet by the continuity counter of its PID, and believes the    *)
(* length in the PES header.                                               *)
(***************************************************************************)
EXTENDS Integers

CONSTANT Sizes   (* the sizes a unit may have                                *)

ASSUME SizesAssumption == Sizes \subseteq Nat

Packet == 188
TsHeader == 4
PesHeader == 14

Kind == {"video", "audio"}
Pid == {"pat", "pmt", "video", "audio"}   (* those with a continuity counter *)
Counter == 0..15
HeaderLength == {n \in Nat : n < 65536}   (* PES_packet_length has 16 bits *)
Any == 16   (* no packet yet, so any counter will do *)

VARIABLES
  pc,         (* what packetize writes next                                  *)
  kind,       (* isAudio, or the audio unit                                  *)
  size,       (* buffer_size                                                 *)
  offset,     (* how much of the unit is written                             *)
  room,       (* the packets for which there is still room in the buffer     *)
  first,      (* no video unit was packed since start                        *)
  counter,    (* mPATContinuityCounter, mPMT..., mVideo..., mAudio...        *)
  expected,   (* receiver: the counter expected next                         *)
  broken,     (* receiver: a packet is missing or repeated                   *)
  pesLength,  (* receiver: PES_packet_length, 0 when it is not given         *)
  pesBytes    (* receiver: the bytes of the unit that followed it            *)

unit == <<kind, size, offset>>
receiver == <<expected, broken, pesLength, pesBytes>>
vars == <<pc, unit, room, first, counter, receiver>>

(* numStuffingBytes of the two calls.                                      *)
Stuffing(k) == IF k = "audio" THEN 2 ELSE 0

(* sizeAvailableForPayload of the first packet and of those behind it.     *)
FirstRoom(k) == Packet - TsHeader - PesHeader - Stuffing(k)
NextRoom == Packet - TsHeader

(* MUTANT: a last packet is added also when those before take everything. *)
PacketCountExtra(k, s) ==
  LET rest == IF s > FirstRoom(k) THEN s - FirstRoom(k) ELSE 0 IN
  1 + rest \div NextRoom + 1

(* numTSPackets; nothing is aligned.                                       *)
PacketCount(k, s) ==
  LET rest == IF s > FirstRoom(k) THEN s - FirstRoom(k) ELSE 0
      full == rest \div NextRoom
      left == rest - full * NextRoom
  IN 1 + full
       + (IF (full = 0 /\ left > 0) \/ (full > 0 /\ left + NextRoom > NextRoom) THEN 1 ELSE 0)

(* MUTANT: the counter starts again one too early. *)
IncrementTo14(c) == IF c + 1 = 15 THEN 0 ELSE c + 1

(* ++counter == 16 starts again at 0.                                      *)
Increment(c) == IF c + 1 = 16 THEN 0 ELSE c + 1

Init ==
  /\ pc = "idle"
  /\ kind = "video" /\ size = 0 /\ offset = 0
  /\ room = 0
  /\ first = TRUE
  /\ counter = [p \in Pid |-> 0]
  /\ expected = [p \in Pid |-> Any] /\ broken = FALSE
  /\ pesLength = 0 /\ pesBytes = 0

----------------------------------------------------------------------------

Receive(p, c) ==
  /\ expected' = [expected EXCEPT ![p] = (c + 1) % 16]
  /\ broken' = (broken \/ expected[p] \notin {Any, c})

(* A call by threadFunc.  The tables are due with the first video unit and *)
(* then by the time that passed; an audio unit never carries them.         *)
Packetize(k, s, tables) ==
  /\ pc = "idle"
  /\ tables => k = "video"
  /\ k = "video" /\ first => tables
  /\ kind' = k /\ size' = s /\ offset' = 0
  /\ room' = PacketCount(k, s) + (IF tables THEN 3 ELSE 0)
  /\ pc' = IF tables THEN "pat" ELSE "first"
  /\ first' = (first /\ ~tables)
  /\ UNCHANGED <<counter, receiver>>

(* The counters of the tables are incremented before they are written,     *)
Table(p, next) ==
  /\ pc = p
  /\ counter' = [counter EXCEPT ![p] = Increment(@)]
  /\ Receive(p, counter'[p])
  /\ room' = room - 1
  /\ pc' = next
  /\ UNCHANGED <<unit, first, pesLength, pesBytes>>

ProgramAssociation == Table("pat", "pmt")

ProgramMap == Table("pmt", "pcr")

(* The packet of the PCR has no payload, so no counter either.             *)
ClockReference ==
  /\ pc = "pcr"
  /\ room' = room - 1
  /\ pc' = "first"
  /\ UNCHANGED <<unit, first, counter, receiver>>

(* MUTANT: a length that is too long is cut. *)
PesLengthCut(k, s) == (s + 8 + Stuffing(k)) % 65536

(* PES_packet_length, which has 16 bits.                                   *)
PesLength(k, s) ==
  LET length == s + 8 + Stuffing(k) IN IF length >= 65536 THEN 0 ELSE length % 65536

(* incrementContinuityCounter: those of the units afterwards.              *)
UnitPacket(copy) ==
  /\ counter' = [counter EXCEPT ![kind] = Increment(@)]
  /\ Receive(kind, counter[kind])
  /\ offset' = offset + copy
  /\ room' = room - 1
  /\ UNCHANGED <<kind, size, first>>

(* Behind the length come three bytes of flags, the stamp and the stuffing. *)
FirstPacket ==
  LET copy == IF size > FirstRoom(kind) THEN FirstRoom(kind) ELSE size IN
  /\ pc = "first"
  /\ UnitPacket(copy)
  /\ pesLength' = PesLength(kind, size)
  /\ pesBytes' = 3 + 5 + Stuffing(kind) + copy
  /\ pc' = "next"

NextPacket ==
  LET copy == IF size - offset > NextRoom THEN NextRoom ELSE size - offset IN
  /\ pc = "next" /\ offset < size
  /\ UnitPacket(copy)
  /\ pesBytes' = pesBytes + copy
  /\ UNCHANGED <<pc, pesLength>>

(* CHECK(packetDataStart == buffer->data() + buffer->capacity()), and the  *)
(* buffer goes to mOutputBufferQueue.                                      *)
Return ==
  /\ pc = "next" /\ offset >= size
  /\ pc' = "idle"
  /\ kind' = "video" /\ size' = 0 /\ offset' = 0 /\ room' = 0
  /\ pesLength' = 0 /\ pesBytes' = 0
  /\ UNCHANGED <<first, counter, expected, broken>>

Next ==
  \/ \E k \in Kind, s \in Sizes, tables \in BOOLEAN : Packetize(k, s, tables)
  \/ ProgramAssociation \/ ProgramMap \/ ClockReference
  \/ FirstPacket \/ NextPacket \/ Return

Spec == Init /\ [][Next]_vars

----------------------------------------------------------------------------
(* Type correctness.                                                       *)
TypeOK ==
  /\ pc \in {"idle", "pat", "pmt", "pcr", "first", "next"}
  /\ kind \in Kind /\ size \in Nat /\ offset \in Nat
  /\ room \in Int
  /\ first \in BOOLEAN
  /\ counter \in [Pid -> Counter]
  /\ expected \in [Pid -> Counter \union {Any}] /\ broken \in BOOLEAN
  /\ pesLength \in HeaderLength /\ pesBytes \in Nat

UnitDone == pc = "next" /\ offset >= size

(* packetize never writes behind the buffer it has computed the size of,   *)
(* and fills it to the end, as its last CHECK demands, whatever the size   *)
(* of the unit is.                                                         *)
PacketsFillBuffer ==
  /\ pc \in {"pat", "pmt", "pcr", "first"} => room >= 1
  /\ pc = "next" /\ ~UnitDone => room >= 1
  /\ UnitDone => room = 0

(* Across units, tables and wrap-arounds the receiver never finds a packet *)
(* missing: the counters of the tables are incremented before, those of    *)
(* the units after they are used, and the packet of the PCR has none.      *)
ContinuityKept == ~broken

(* A unit arrives as a whole, and the length announced in its PES header,  *)
(* if any, is the number of bytes that follow it.                          *)
UnitArrivesWhole ==
  UnitDone =>
    /\ offset = size
    /\ pesBytes = size + 8 + Stuffing(kind)
    /\ pesLength \in {0, pesBytes}
=============================================================================
