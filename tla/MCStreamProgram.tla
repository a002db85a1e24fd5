--------------------------- MODULE MCStreamProgram ---------------------------
EXTENDS StreamProgram, TLC

\* Two names of channel 0, one of channel 1, one of no channel of this bank, and
\* one of another kind of port.
SomeConnections ==
  {[prefix |-> p, index |-> i] : p \in {"CH"}, i \in 0..2}
    \cup {[prefix |-> "do", index |-> 0], [prefix |-> "di", index |-> 1]}

\* Outputs differ only in what the experiment does with them.
Symmetry == Permutations(Outputs)
=============================================================================
