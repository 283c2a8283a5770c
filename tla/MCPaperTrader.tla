---------------------------- MODULE MCPaperTrader ----------------------------
(* Instances of PaperTrader for TLC.                                        *)
EXTENDS PaperTrader, TLC

MCSymmetry == Permutations(Steps) \cup Permutations(Handlers)
=============================================================================
