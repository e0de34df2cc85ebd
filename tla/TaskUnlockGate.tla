----------------------------- MODULE TaskUnlockGate -----------------------------
(***************************************************************************)
(* TaskUnlock implements TaskGate: the requests that complete tasks, read  *)
(* what is downstream, ask for its prerequisites and write it unlocked, in *)
(* any interleaving, open no task too early.                               *)
(*                                                                         *)
(* A prerequisite may be reopened by a late write after a request was told *)
(* that it is completed; `finished' remembers which ever were.             *)
(***************************************************************************)
EXTENDS TaskUnlock

VARIABLE finished   \* history: the tasks that were completed at some time

gateUnlockVars == <<vars, finished>>

GateInit == Init /\ finished = {}

GateNext == Next /\ finished' = finished \cup {t \in Task : status'[t] = "completed"}

GateSpec == GateInit /\ [][GateNext]_gateUnlockVars /\ Fairness

PlaceOf(s) == IF s = "completed" THEN "done"
              ELSE IF s = "pending_publish" THEN "waiting"
              ELSE IF s = "absent" THEN s ELSE "open"

Gate == INSTANCE TaskGate WITH Before <- [d \in Task |-> Needs(d)],
                               place  <- [t \in Task |-> PlaceOf(status[t])]

\* No task opens before everything before it was completed, however stale the
\* rows are that requests read and write back, and nothing but a write decided
\* earlier takes a task out of `completed'.  (For assignments and creations of
\* tasks that wait for nothing.)
ImplementsGate == Gate!Spec
=============================================================================
