------------------------- MODULE MCSegmentClaiming -------------------------
(* Three translators over two halves of an episode and the whole of it.      *)
EXTENDS SegmentClaiming, TLC

Halves == {<<0, 1>>, <<1, 2>>}
HalvesAndWhole == {<<0, 1>>, <<1, 2>>, <<0, 2>>}

\* Requests of a kind are interchangeable.
Symmetry == Permutations(Claimant) \cup Permutations(Ender)
=============================================================================
