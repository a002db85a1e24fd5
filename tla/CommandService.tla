---------------------------- MODULE CommandService ----------------------------
(***************************************************************************)
(* What the layers above rely on when they call DSGExecutor: one command   *)
(* at a time; a call that returns normally was carried out by the device,  *)
(* every packet of it once and in order; a call that raises was carried    *)
(* out up to some packet; nothing happens at the device between calls.     *)
(*                                                                         *)
(* DSGWorker is written against this: its CommandSucceeds is a call that   *)
(* ends in Return, its FailedExchange one that ends in Raise.              *)
(***************************************************************************)
EXTENDS Naturals

CONSTANTS
  Writes,   \* commands sent with OPCODE_WRITE and no download
  Reads,    \* queries
  Parts     \* number of data packets of a download, after its header

Commands == Writes \cup Reads \cup {"ADM"}
NoRequest == "none"

\* The packets a command consists of.
Packets(c) == IF c = "ADM" THEN 0..Parts ELSE {0}

VARIABLES
  request,   \* the command being executed, or NoRequest
  done,      \* packets of the latest command that the device carried out
  result     \* how the latest command ended

vars == <<request, done, result>>

Init == request = NoRequest /\ done = {} /\ result = "none"

Call(c) ==
  /\ request = NoRequest
  /\ request' = c /\ done' = {} /\ result' = "none"

\* The device carries out the next packet of the command.
Serve ==
  /\ request # NoRequest
  /\ \E p \in Packets(request) \ done :
       /\ \A q \in Packets(request) : q < p => q \in done
       /\ done' = done \cup {p}
  /\ UNCHANGED <<request, result>>

Return ==
  /\ request # NoRequest /\ done = Packets(request)
  /\ request' = NoRequest /\ result' = "ok"
  /\ UNCHANGED done

Raise ==
  /\ request # NoRequest
  /\ request' = NoRequest /\ result' = "error"
  /\ UNCHANGED done

Next == (\E c \in Commands : Call(c)) \/ Serve \/ Return \/ Raise

\* Every call comes back: wait_until_done and BLACS wait for it.
Spec == Init /\ [][Next]_vars /\ WF_vars(Return \/ Raise)
=============================================================================
