------------------------------ MODULE MCKHeap ------------------------------
(* KHeap for TLC.  A small request is under 4 units, a page of the pool 4  *)
(* (the code's 4k) and a physical page 8 (its 2M).                         *)
EXTENDS KHeap, TLC

TwoRegions == {<<8, 4>>, <<20, 4>>}
=============================================================================
