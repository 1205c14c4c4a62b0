------------------------------- MODULE MCOpfs -------------------------------
(* Opfs for TLC: images made from no file and from one file of a block.    *)
EXTENDS Opfs

MCArchives == {<<>>} \cup {<< <<n, BSIZE>> >> : n \in Names}
View == <<img, cmds>>
Symmetry == Permutations(Names)
=============================================================================
