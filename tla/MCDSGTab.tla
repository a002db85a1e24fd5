------------------------------ MODULE MCDSGTab -------------------------------
(* Instances of DSGTab for TLC, with the shots of MCDSGWorker.             *)
EXTENDS DSGTab

CONSTANTS c1, c2

MCStop == [s \in Shots |-> 2]
MCHasWait == [s \in Shots |-> s = "wait"]
MCFirst == [s \in Shots |-> {c1}]
MCSource == [s \in Shots |-> IF s = "slave" THEN "external" ELSE "software"]
MCEmpty == [s \in Shots |-> s = "empty"]
=============================================================================
