---------------------------- MODULE StreamPackets ----------------------------
(***************************************************************************)
(* What the packets of a download contain: the header and the command      *)
(* words of StreamBytesGenerator (device_data.py), cut into packets by     *)
(* _send_adm_stream (dsg_executor.py).  DSGExecutor models when they are   *)
(* sent and what their answers do; here every packet is answered, and      *)
(* accepted or refused.                                                    *)
(*                                                                         *)
(* Bytes are named by their position in the command stream: row r of the   *)
(* program is the word of the bytes WordBytes * r and following.           *)
(***************************************************************************)
EXTENDS Naturals, Sequences

CONSTANTS
  RowCounts,     \* len(program), of a program that generate_code let through
  WordBytes,     \* COMMAND_WORD_BYTES
  PacketBytes,   \* max_payload - 2
  CountModulus,  \* group_count is sent in 16 bits
  SeqModulus,    \* seq is sent in 8 bits
  Retry

ASSUME PacketAssumption ==
  /\ {WordBytes, PacketBytes, CountModulus, Retry} \subseteq Nat \ {0}
  /\ SeqModulus \in Nat \ {0, 1}
  /\ RowCounts \subseteq 1..(CountModulus - 1)

VARIABLES
  rows,           \* len(program)
  next,           \* the packet to be sent: "header", "data" or "none"
  offset, seq,    \* locals of _send_adm_stream
  attempt,
  announced,      \* group_count as the device has accepted it
  stored          \* the packets the device has accepted, in order

vars == <<rows, next, offset, seq, attempt, announced, stored>>

Length == rows * WordBytes

Packet == [seq : 0..(SeqModulus - 1), from : Nat, to : Nat]

TypeOK ==
  /\ rows \in RowCounts /\ next \in {"header", "data", "none", "failed"}
  /\ offset \in 0..Length /\ seq \in Nat /\ attempt \in 1..Retry
  /\ announced \in 0..(CountModulus - 1)
  /\ stored \in Seq(Packet)

Init ==
  /\ rows \in RowCounts
  /\ next = "header" /\ offset = 0 /\ seq = 0 /\ attempt = 1
  /\ announced = 0 /\ stored = <<>>

-----------------------------------------------------------------------------

\* Either retry loop on a refusal: the same packet again, or the exception.
Refused ==
  /\ IF attempt < Retry
       THEN attempt' = attempt + 1 /\ UNCHANGED next
       ELSE next' = "failed" /\ UNCHANGED attempt
  /\ UNCHANGED <<rows, offset, seq, announced, stored>>

HeaderRefused == next = "header" /\ Refused

HeaderAccepted ==
  /\ next = "header"
  /\ announced' = rows % CountModulus
  /\ next' = "data" /\ attempt' = 1
  /\ UNCHANGED <<rows, offset, seq, stored>>

UpToLength(n) == IF n < Length THEN n ELSE Length

PayloadEnd == UpToLength(offset + PacketBytes)

\* Mutation: the packet number is not cut to one byte.
NumberNotCut == [seq |-> seq, from |-> offset, to |-> PayloadEnd]

NextPacket == [seq |-> seq % SeqModulus, from |-> offset, to |-> PayloadEnd]

PacketRefused == next = "data" /\ offset < Length /\ Refused

\* Mutations: the offset advances by the bytes of the whole packet, request and
\* number included; the number is counted up in the wrong place.
OffsetOfWholePacket ==
  /\ next = "data" /\ offset < Length
  /\ stored' = Append(stored, NextPacket)
  /\ offset' = UpToLength(PayloadEnd + 2) /\ seq' = seq + 1 /\ attempt' = 1
  /\ UNCHANGED <<rows, next, announced>>
NumberedByAttempt ==
  /\ next = "data" /\ offset < Length
  /\ stored' = Append(stored, NextPacket)
  /\ offset' = PayloadEnd /\ seq' = seq + attempt - 1 /\ attempt' = 1
  /\ UNCHANGED <<rows, next, announced>>

PacketAccepted ==
  /\ next = "data" /\ offset < Length
  /\ stored' = Append(stored, NextPacket)
  /\ offset' = PayloadEnd /\ seq' = seq + 1 /\ attempt' = 1
  /\ UNCHANGED <<rows, next, announced>>

Return ==
  /\ next = "data" /\ offset >= Length
  /\ next' = "none"
  /\ UNCHANGED <<rows, offset, seq, attempt, announced, stored>>

Next ==
  HeaderRefused \/ HeaderAccepted \/ PacketRefused \/ PacketAccepted \/ Return

Spec == Init /\ [][Next]_vars

-----------------------------------------------------------------------------
(* Properties.                                                             *)

\* When _adm_batch returns, the packets the device has accepted are the whole
\* command stream, every byte once and in order, and as many words as the header
\* has announced: nothing is skipped or sent twice after a refusal.
StreamIsWhole ==
  next = "none" =>
    /\ stored[1].from = 0 /\ stored[Len(stored)].to = announced * WordBytes
    /\ \A i \in 2..Len(stored) : stored[i].from = stored[i - 1].to

\* A packet sent again after a refusal has the number of the refused one, and
\* every packet another number than the accepted one before it, also where the
\* 8-bit number wraps: the device can tell a repetition from the next packet.
NumbersTellPacketsApart ==
  [][/\ stored' = stored /\ offset' = offset => seq' = seq
     /\ stored # <<>> /\ stored' # stored
          => stored'[Len(stored')].seq # stored[Len(stored)].seq]_vars
=============================================================================
