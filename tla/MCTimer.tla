------------------------------ MODULE MCTimer ------------------------------
(* Timer for TLC.                                                          *)
EXTENDS Timer

CONSTANTS b1, b2, b3, h1, test_timeout, vn_timeout, other_timeout

\* With one node for three functions yaos_malloc is reached, and can fail;
\* with three it is not.
Bufs == <<b1, b2, b3>>

\* Two functions with the same period and one slower, so that nodes expire
\* together, in batches larger than NR_FUNC, and one at a time.
Periods == [f \in Funcs |-> IF f = vn_timeout THEN 2 ELSE 1]

ASSUME TimerAssumption
=============================================================================
