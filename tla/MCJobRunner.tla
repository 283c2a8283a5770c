----------------------------- MODULE MCJobRunner -----------------------------
(* Instances of JobRunner for TLC.  Rows differ only in what the actions do *)
(* to them and ticks are interchangeable, so safety runs use symmetry.      *)
EXTENDS JobRunner, TLC

MCPriorities == {0, 1}
MCSymmetry == Permutations(Jobs) \cup Permutations(Ticks)
=============================================================================
