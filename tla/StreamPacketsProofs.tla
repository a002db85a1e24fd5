------------------------- MODULE StreamPacketsProofs -------------------------
(* Proofs about StreamPackets: the packets that were accepted are the      *)
(* command stream, for every packet size, word size and program length.    *)
EXTENDS StreamPackets, Integers, TLAPS

\* The packets accepted so far are the stream up to `offset`, every byte once
\* and in order, and the header has announced the stream.
Prefix ==
  /\ stored = <<>> => offset = 0
  /\ stored # <<>> => stored[1].from = 0 /\ stored[Len(stored)].to = offset
  /\ \A i \in 2..Len(stored) : stored[i].from = stored[i - 1].to

Progress ==
  /\ next = "header" => offset = 0 /\ stored = <<>>
  /\ next \in {"data", "none"} => announced = rows
  /\ next = "none" => offset = Length

PInv == TypeOK /\ Prefix /\ Progress

\* A stream of at least one word has at least one byte.
LEMMA LengthIsPositive ==
  ASSUME rows \in RowCounts
  PROVE  Length \in Nat \ {0}
<1>1. rows \in Nat \ {0} /\ WordBytes \in Nat \ {0}  BY PacketAssumption
<1> QED  BY <1>1 DEF Length

\* Every variable of the download keeps its type: numbers fit into the fields of
\* the packets.
LEMMA TypeInit == Init => TypeOK
<1> SUFFICES ASSUME Init PROVE TypeOK  OBVIOUS
<1>1. Length \in Nat  BY LengthIsPositive DEF Init
<1>2. stored \in Seq(Packet)  BY DEF Init
<1>3. 0 \in 0..(CountModulus - 1) /\ 1 \in 1..Retry  BY PacketAssumption
<1> QED  BY <1>1, <1>2, <1>3 DEF Init, TypeOK

LEMMA PayloadBounds ==
  ASSUME TypeOK, offset < Length
  PROVE  PayloadEnd \in 0..Length /\ NextPacket \in Packet
<1>1. Length \in Nat \ {0}  BY LengthIsPositive DEF TypeOK
<1>2. offset \in Nat /\ PacketBytes \in Nat /\ offset <= Length
  BY PacketAssumption, <1>1 DEF TypeOK
<1>3. PayloadEnd \in 0..Length  BY <1>1, <1>2 DEF PayloadEnd, UpToLength
<1>4. seq % SeqModulus \in 0..(SeqModulus - 1)  BY PacketAssumption DEF TypeOK
<1> QED  BY <1>1, <1>2, <1>3, <1>4 DEF NextPacket, Packet

LEMMA TypeStep == TypeOK /\ [Next]_vars => TypeOK'
<1> SUFFICES ASSUME TypeOK, [Next]_vars PROVE TypeOK'  OBVIOUS
<1>0. rows' = rows /\ Length' = Length
  BY DEF Next, HeaderRefused, HeaderAccepted, PacketRefused, PacketAccepted, Return,
         Refused, vars, Length
<1>1. CASE HeaderRefused \/ PacketRefused
  BY <1>0, <1>1, PacketAssumption DEF HeaderRefused, PacketRefused, Refused, TypeOK
<1>2. CASE HeaderAccepted
  <2>1. announced' \in 0..(CountModulus - 1)
    BY <1>2, PacketAssumption DEF HeaderAccepted, TypeOK
  <2> QED  BY <1>0, <1>2, <2>1, PacketAssumption DEF HeaderAccepted, TypeOK
<1>3. CASE PacketAccepted
  <2>1. stored' \in Seq(Packet) /\ offset' \in 0..Length
    BY <1>3, PayloadBounds DEF PacketAccepted, TypeOK
  <2>2. seq' \in Nat /\ attempt' \in 1..Retry
    BY <1>3, PacketAssumption DEF PacketAccepted, TypeOK
  <2> QED  BY <1>0, <1>3, <2>1, <2>2 DEF PacketAccepted, TypeOK
<1>4. CASE Return  BY <1>0, <1>4 DEF Return, TypeOK
<1>5. CASE UNCHANGED vars  BY <1>0, <1>5 DEF vars, TypeOK
<1> QED  BY <1>1, <1>2, <1>3, <1>4, <1>5 DEF Next

\* An accepted packet continues the stream where the one before it has ended.
LEMMA PrefixStep ==
  ASSUME TypeOK, Prefix, PacketAccepted
  PROVE  Prefix'
<1> DEFINE n == Len(stored)
           p == NextPacket
<1>1. stored \in Seq(Packet) /\ p \in Packet /\ n \in Nat
  BY PayloadBounds DEF PacketAccepted, TypeOK
<1>2. /\ stored' = Append(stored, p) /\ Len(stored') = n + 1
      /\ stored'[n + 1] = p /\ \A i \in 1..n : stored'[i] = stored[i]
  BY <1>1 DEF PacketAccepted
<1>3. p.from = offset /\ p.to = offset' /\ stored' # <<>>
  BY <1>1, <1>2 DEF PacketAccepted, NextPacket
<1>4. CASE stored = <<>>
  <2>1. n = 0 /\ offset = 0  BY <1>4 DEF Prefix
  <2> QED  BY <1>2, <1>3, <2>1 DEF Prefix
<1>5. CASE stored # <<>>
  <2>1. n >= 1 /\ stored[1].from = 0 /\ stored[n].to = offset
    BY <1>1, <1>5 DEF Prefix
  <2>2. stored'[1].from = 0 /\ stored'[n + 1].to = offset'
    BY <1>1, <1>2, <1>3, <2>1
  <2>3. ASSUME NEW i \in 2..(n + 1) PROVE stored'[i].from = stored'[i - 1].to
    <3>1. CASE i = n + 1  BY <1>1, <1>2, <1>3, <2>1, <3>1
    <3>2. CASE i # n + 1
      <4>1. i \in 2..n /\ i \in 1..n /\ i - 1 \in 1..n  BY <1>1, <3>2
      <4> QED  BY <1>2, <4>1 DEF Prefix
    <3> QED  BY <3>1, <3>2
  <2> QED  BY <1>2, <1>3, <2>2, <2>3 DEF Prefix
<1> QED  BY <1>4, <1>5

LEMMA ProgressStep ==
  ASSUME TypeOK, Progress, [Next]_vars
  PROVE  Progress'
<1>0. Length' = Length /\ rows' = rows
  BY DEF Next, HeaderRefused, HeaderAccepted, PacketRefused, PacketAccepted, Return,
         Refused, vars, Length
<1>1. CASE HeaderRefused \/ PacketRefused
  BY <1>0, <1>1 DEF HeaderRefused, PacketRefused, Refused, Progress
<1>2. CASE HeaderAccepted
  <2>1. rows \in 0..(CountModulus - 1) /\ CountModulus \in Nat \ {0}
    BY PacketAssumption DEF TypeOK
  <2>2. rows % CountModulus = rows  BY <2>1
  <2> QED  BY <1>0, <1>2, <2>2 DEF HeaderAccepted, Progress
<1>3. CASE PacketAccepted  BY <1>0, <1>3 DEF PacketAccepted, Progress
<1>4. CASE Return
  <2>1. offset = Length  BY <1>4, LengthIsPositive DEF Return, TypeOK
  <2> QED  BY <1>0, <1>4, <2>1 DEF Return, Progress
<1>5. CASE UNCHANGED vars  BY <1>0, <1>5 DEF vars, Progress
<1> QED  BY <1>1, <1>2, <1>3, <1>4, <1>5 DEF Next

LEMMA PInvariant == Spec => []PInv
<1>1. Init => PInv
  BY TypeInit DEF Init, PInv, Prefix, Progress
<1>2. PInv /\ [Next]_vars => PInv'
  <2> SUFFICES ASSUME PInv, [Next]_vars PROVE PInv'  OBVIOUS
  <2>1. TypeOK' /\ Progress'  BY TypeStep, ProgressStep DEF PInv
  <2>2. Prefix'
    <3>1. CASE PacketAccepted  BY <3>1, PrefixStep DEF PInv
    <3>2. CASE ~PacketAccepted
      <4>1. stored' = stored /\ offset' = offset
        BY <3>2 DEF Next, HeaderRefused, HeaderAccepted, PacketRefused, Return,
                    Refused, vars
      <4> QED  BY <4>1 DEF PInv, Prefix
    <3> QED  BY <3>1, <3>2
  <2> QED  BY <2>1, <2>2 DEF PInv
<1> QED  BY <1>1, <1>2, PTL DEF Spec

\* Type correctness of the download: the counters stay within the widths of their
\* fields and every packet is well formed.
THEOREM PacketTypes == Spec => []TypeOK
<1>1. PInv => TypeOK  BY DEF PInv
<1> QED  BY <1>1, PInvariant, PTL

\* For every program length, packet size and sequence of refusals, a download
\* that returns has delivered the announced command stream, every byte once and
\* in order.
THEOREM StreamDelivered == Spec => []StreamIsWhole
<1>1. PInv => StreamIsWhole
  <2> SUFFICES ASSUME PInv, next = "none" PROVE StreamIsWhole
    BY DEF StreamIsWhole
  <2>1. offset = Length /\ Length \in Nat \ {0} /\ announced = rows
    BY LengthIsPositive DEF PInv, Progress, TypeOK
  <2>2. stored # <<>>  BY <2>1 DEF PInv, Prefix
  <2> QED  BY <2>1, <2>2 DEF PInv, Prefix, StreamIsWhole, Length
<1> QED  BY <1>1, PInvariant, PTL
-----------------------------------------------------------------------------
(* Packet numbers.                                                         *)

\* A multiple of a number greater than one is not one.
LEMMA OneIsNoMultiple ==
  ASSUME NEW m \in Nat \ {0, 1}, NEW d \in Int
  PROVE  m * d # 1
<1>1. CASE d <= 0
  <2>1. m * d <= 0  BY <1>1
  <2> QED  BY <2>1
<1>2. CASE d >= 1
  <2>1. m * d >= m  BY <1>2
  <2> QED  BY <2>1
<1> QED  BY <1>1, <1>2

\* A number and the one after it are told apart by their remainders.
LEMMA NeighboursDiffer ==
  ASSUME NEW n \in Nat, NEW m \in Nat \ {0, 1}
  PROVE  (n + 1) % m # n % m
<1>1. /\ n % m \in Int /\ n \div m \in Int /\ n = m * (n \div m) + (n % m)
      /\ (n + 1) % m \in Int /\ (n + 1) \div m \in Int
      /\ n + 1 = m * ((n + 1) \div m) + ((n + 1) % m)
  OBVIOUS
<1>2. PICK p \in Int, q \in Int : n \div m = p /\ (n + 1) \div m = q
  BY <1>1
<1>3. ASSUME (n + 1) % m = n % m PROVE m * (q - p) = 1
  <2>1. m * p \in Int /\ m * q \in Int /\ m * (q - p) = m * q - m * p  OBVIOUS
  <2> QED  BY <1>1, <1>2, <1>3, <2>1
<1>4. q - p \in Int  BY <1>2
<1> QED  BY <1>3, <1>4, OneIsNoMultiple

\* The last accepted packet has the number before the next one.
NumberInv ==
  stored # <<>> => seq > 0 /\ stored[Len(stored)].seq = (seq - 1) % SeqModulus

LEMMA NumberStep ==
  ASSUME TypeOK, NumberInv, [Next]_vars
  PROVE  NumberInv'
<1>1. CASE PacketAccepted
  <2>1. stored \in Seq(Packet) /\ NextPacket \in Packet
    BY <1>1, PayloadBounds DEF PacketAccepted, TypeOK
  <2>2. stored'[Len(stored')] = NextPacket /\ seq' = seq + 1
    BY <1>1, <2>1 DEF PacketAccepted
  <2>3. NextPacket.seq = seq % SeqModulus  BY DEF NextPacket
  <2>4. seq \in Nat /\ seq' > 0 /\ seq' - 1 = seq  BY <2>2 DEF TypeOK
  <2> QED  BY <2>2, <2>3, <2>4 DEF NumberInv
<1>2. CASE ~PacketAccepted
  <2>1. stored' = stored /\ seq' = seq
    BY <1>2 DEF Next, HeaderRefused, HeaderAccepted, PacketRefused, Return, Refused, vars
  <2> QED  BY <2>1 DEF NumberInv
<1> QED  BY <1>1, <1>2

\* The device can tell a repeated packet from the next one, for every modulus of the
\* number: a packet that is sent again keeps its number, and the number of every
\* accepted packet differs from that of the one before it.
THEOREM NumbersDistinguish == Spec => NumbersTellPacketsApart
<1>1. Init => NumberInv  BY DEF Init, NumberInv
<1>2. TypeOK /\ NumberInv /\ [Next]_vars => NumberInv'  BY NumberStep
<1>3. TypeOK /\ NumberInv /\ [Next]_vars
        => [/\ stored' = stored /\ offset' = offset => seq' = seq
            /\ stored # <<>> /\ stored' # stored
                 => stored'[Len(stored')].seq # stored[Len(stored)].seq]_vars
  <2> SUFFICES ASSUME TypeOK, NumberInv, Next
               PROVE  /\ stored' = stored /\ offset' = offset => seq' = seq
                      /\ stored # <<>> /\ stored' # stored
                           => stored'[Len(stored')].seq # stored[Len(stored)].seq
    OBVIOUS
  <2>1. CASE PacketAccepted
    <3>1. stored \in Seq(Packet) /\ NextPacket \in Packet
      BY <2>1, PayloadBounds DEF PacketAccepted, TypeOK
    <3>2. stored' = Append(stored, NextPacket)  BY <2>1 DEF PacketAccepted
    <3>3. stored' # stored /\ stored'[Len(stored')].seq = seq % SeqModulus
      BY <3>1, <3>2 DEF NextPacket
    <3>4. ASSUME stored # <<>>
          PROVE  stored[Len(stored)].seq # seq % SeqModulus
      <4>1. PICK n \in Nat : seq = n + 1 /\ stored[Len(stored)].seq = n % SeqModulus
        <5>1. seq - 1 \in Nat /\ seq = (seq - 1) + 1  BY <3>4 DEF NumberInv, TypeOK
        <5> QED  BY <5>1, <3>4 DEF NumberInv
      <4>2. SeqModulus \in Nat \ {0, 1}  BY PacketAssumption
      <4> QED  BY <4>1, <4>2, NeighboursDiffer
    <3> QED  BY <3>3, <3>4
  <2>2. CASE ~PacketAccepted
    BY <2>2 DEF Next, HeaderRefused, HeaderAccepted, PacketRefused, Return, Refused
  <2> QED  BY <2>1, <2>2
<1> QED  BY <1>1, <1>2, <1>3, PacketTypes, PTL DEF Spec, NumbersTellPacketsApart
=============================================================================
