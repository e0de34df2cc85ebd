-------------------------------- MODULE TaskGate --------------------------------
(***************************************************************************)
(* What unlocking promises, without requests, rows or awaits: a task opens *)
(* only after every task before it was finished.  TaskUnlock implements it *)
(* (see TaskUnlockGate); that tasks do open is its EventuallyUnlocked.     *)
(***************************************************************************)
CONSTANTS
  Task,
  Before     \* Before[d]: the tasks that d waits for

VARIABLES
  place,     \* where each task is
  finished   \* the tasks that were completed at some time

gateVars == <<place, finished>>

Place == {"absent", "waiting", "open", "done"}
Put(t, p) == place' = [place EXCEPT ![t] = p]

Init ==
  /\ place \in [Task -> Place \ {"done"}]
  /\ \A t \in Task : place[t] = "open" => Before[t] = {}
  /\ finished = {}

Appear(t) ==
  /\ place[t] = "absent"
  /\ \/ Put(t, "waiting")
     \/ Before[t] \subseteq finished /\ Put(t, "open")
  /\ UNCHANGED finished

Open(t) ==
  /\ place[t] = "waiting" /\ Before[t] \subseteq finished
  /\ Put(t, "open")
  /\ UNCHANGED finished

Finish(t) ==
  /\ place[t] = "open"
  /\ Put(t, "done")
  /\ finished' = finished \cup {t}

\* By a write that was decided before the task was finished.
Reopen(t) ==
  /\ place[t] = "done"
  /\ Put(t, "open")
  /\ UNCHANGED finished

Next == \E t \in Task : Appear(t) \/ Open(t) \/ Finish(t) \/ Reopen(t)

Spec == Init /\ [][Next]_gateVars
=============================================================================
