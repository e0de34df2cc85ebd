------------------------ MODULE MCTranslationClaims ------------------------
(* One or two translation tasks; an episode of two or three seconds, or one  *)
(* of unknown length.                                                       *)
EXTENDS TranslationClaims

CONSTANTS one, two, sup, ann, bob

RankOf == [t \in Task |-> IF t = one THEN 1 ELSE 2]
Thirds == {<<0, 1>>, <<1, 2>>, <<2, 3>>}
AllSegments == {<<0, 1>>, <<1, 2>>, <<2, 3>>, <<0, 2>>, <<1, 3>>}
Halves == {<<0, 1>>, <<1, 2>>}
=============================================================================
