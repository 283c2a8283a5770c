----------------------------- MODULE MCRiskGuard -----------------------------
(* Instances of RiskGuard for TLC.                                          *)
EXTENDS RiskGuard, TLC

Seeded  == [sessions |-> TRUE, complete |-> TRUE, cooldown |-> TRUE]
Plain   == [sessions |-> FALSE, complete |-> TRUE, cooldown |-> TRUE]

MCPlain == {Plain}
MCBoth  == {Plain, Seeded}

MCOneEquity == {100}
MCEquities == {90, 100}

MCSymmetry == Permutations(Runs)
=============================================================================
