----------------------------- MODULE MCThreads -----------------------------
(* Threads for TLC: every way to give the threads the levels 1 to 3, with  *)
(* the idle thread behind them.                                            *)
EXTENDS Threads

AllLvls == {f \in [All -> 1..4] : f[Idle] = 4 /\ \A t \in Threads : f[t] < 4}
=============================================================================
