--------------------------- MODULE MCTaskWorkflow ---------------------------
(* Instances of TaskWorkflow small enough for TLC: up to three tasks of one  *)
(* episode, named for their place in a chain first -> second -> third.      *)
EXTENDS TaskWorkflow

CONSTANTS first, second, third,   \* tasks
          sup, ann, bob           \* accounts

OneUnit == [t \in Task |-> "episode 1"]

NoPipeline == <<>>
ShortPipeline == <<"timing", "post_production", "release">>
TwoStages == <<"timing", "post_production">>

StageRoles ==
  [t \in Task |-> CASE t = first -> {"timing"}
                    [] t = second -> {"post_production"}
                    [] t = third -> {"release"}]

EitherRole == [t \in Task |-> {"timing", "post_production"}]

Chain == {<<first, second>>, <<second, third>>} \cap (Task \X Task)
ChainAndSelf == Chain \cup {<<first, first>>, <<second, second>>}
LateLink == {<<third, second>>}
Loop == {<<first, second>>, <<second, first>>}
=============================================================================
