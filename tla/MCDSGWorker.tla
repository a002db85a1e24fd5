----------------------------- MODULE MCDSGWorker -----------------------------
(* Instances of DSGWorker for TLC: two channels and up to four shots, one  *)
(* per kind of program the driver treats differently.                      *)
EXTENDS DSGWorker

CONSTANTS c1, c2

MCChannels == {c1, c2}
MCStop == [s \in Shots |-> 2]
MCHasWait == [s \in Shots |-> s = "wait"]
MCFirst == [s \in Shots |-> IF s = "empty" THEN {} ELSE {c1}]
MCSource == [s \in Shots |-> IF s = "slave" THEN "external" ELSE "software"]
MCEmpty == [s \in Shots |-> s = "empty"]
MCAllButStart == Commands \ {"SWR"}
MCAllButStartAndMan == Commands \ {"SWR", "MAN"}
=============================================================================
