---------------------------- MODULE MCTaskUnlock ----------------------------
(* bottom waits for left through a dependency row and for right as its stage, *)
(* tail for bottom and left; extra is a task of its own.                      *)
EXTENDS TaskUnlockGate

CONSTANTS left, right, bottom, tail, extra

StageOf == [t \in Task |-> IF t = bottom THEN {right} ELSE {}]
DepsOf  == [t \in Task |-> CASE t = bottom -> {left}
                             [] t = tail   -> {bottom, left}
                             [] OTHER      -> {}]

\* What the idle requests are said to have completed does not matter.
MCInit == GateInit /\ job = [h \in Handler |-> left]
MCSpec == MCInit /\ [][GateNext]_gateUnlockVars /\ Fairness
=============================================================================
