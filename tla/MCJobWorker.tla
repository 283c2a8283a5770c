----------------------------- MODULE MCJobWorker -----------------------------
(* Instances of JobWorker for TLC.  One type has a runner with two          *)
(* artifacts, as backtest and walkforward have.                             *)
EXTENDS JobWorker

MCJobs == 1..2
MCFiles == [backtest |-> <<"csv", "json">>]
=============================================================================
