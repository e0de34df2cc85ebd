-------------------------- MODULE TaskUnlockProofs --------------------------
(***************************************************************************)
(* Theorems about TaskUnlock, for any tasks, dependencies, stages and any  *)
(* number of completing requests: its types, that nothing ready to open is *)
(* forgotten, and that it implements TaskGate, the last two while          *)
(* supervisors assign and create tasks of a first stage only.              *)
(***************************************************************************)
EXTENDS TaskUnlockGate, TLAPS

LEMMA InitType == Init => TypeOK
<1> SUFFICES ASSUME Init PROVE TypeOK
  OBVIOUS
<1>1. status \in [Task -> TaskStatus] /\ owned \subseteq Task
  BY DEF Init, TaskStatus
<1>2. job \in [Handler -> Task] /\ cur \in [Handler -> Task]
  BY DEF Init
<1>3. /\ pc \in [Handler -> {"idle", "approving", "listing", "scanning", "checking"}]
      /\ todo \in [Handler -> SUBSET Task]
      /\ held \in [Handler -> SUBSET Task]
      /\ asks \in [Handler -> SUBSET Query]
      /\ ok \in [Handler -> BOOLEAN]
  BY DEF Init
<1> QED
  BY <1>1, <1>2, <1>3 DEF TypeOK, Init

\* The steps of one request keep the types.
LEMMA ContinueType ==
  ASSUME TypeOK, NEW h \in Handler, Continue(h)
  PROVE  TypeOK'
<1> USE DEF TypeOK
<1>1. CASE Complete(h)
  BY <1>1 DEF Complete, TaskStatus
<1>2. CASE List(h)
  BY <1>2 DEF List
<1>3. ASSUME NEW d \in Task, LookAt(h, d) PROVE TypeOK'
  BY <1>3 DEF LookAt
<1>4. ASSUME NEW q \in Query, Answer(h, q) PROVE TypeOK'
  <2>1. ok' \in [Handler -> BOOLEAN]
    BY <1>4 DEF Answer, Completed
  <2>2. asks' \in [Handler -> SUBSET Query]
    BY <1>4 DEF Answer
  <2> QED
    BY <1>4, <2>1, <2>2 DEF Answer
<1>5. CASE Unlock(h)
  BY <1>5 DEF Unlock, Forget, Unlocked, TaskStatus
<1>6. CASE Skip(h)
  BY <1>6 DEF Skip, Forget
<1>7. CASE Finish(h)
  BY <1>7 DEF Finish
<1> QED
  BY <1>1, <1>2, <1>3, <1>4, <1>5, <1>6, <1>7 DEF Continue

\* Type correctness: the requests and the supervisor only ever write statuses of
\* the task table and remember tasks.
THEOREM TypeCorrect == Spec => []TypeOK
<1>1. TypeOK /\ [Next]_vars => TypeOK'
  <2> SUFFICES ASSUME TypeOK, [Next]_vars PROVE TypeOK'
    OBVIOUS
  <2> USE DEF TypeOK
  <2>1. ASSUME NEW h \in Handler, NEW t \in Task, Begin(h, t) PROVE TypeOK'
    BY <2>1 DEF Begin
  <2>2. ASSUME NEW h \in Handler, Continue(h) PROVE TypeOK'
    BY <2>2, ContinueType
  <2>3. ASSUME NEW t \in Task, Work(t) PROVE TypeOK'
    BY <2>3 DEF Work, TaskStatus, handlerVars
  <2>4. ASSUME NEW t \in Task, AssignRead(t) PROVE TypeOK'
    BY <2>4 DEF AssignRead, handlerVars
  <2>5. ASSUME NEW t \in Task, CreateCheck(t) PROVE TypeOK'
    BY <2>5 DEF CreateCheck, Completed, handlerVars
  <2>6. CASE AssignCheck
    BY <2>6 DEF AssignCheck, Completed, Idle, handlerVars
  <2>7. CASE AssignWrite
    BY <2>7 DEF AssignWrite, TaskStatus, Idle, handlerVars
  <2>8. CASE CreateWrite
    BY <2>8 DEF CreateWrite, TaskStatus, Idle, handlerVars
  <2>9. CASE UNCHANGED vars
    BY <2>9 DEF vars
  <2> QED
    BY <2>1, <2>2, <2>3, <2>4, <2>5, <2>6, <2>7, <2>8, <2>9 DEF Next, EditorStep
<1> QED
  BY InitType, <1>1, PTL DEF Spec

-----------------------------------------------------------------------------
(* No unlock is lost.  NoLostUnlock is inductive once the supervisor's     *)
(* requests only write tasks that wait for nothing: a step of request h    *)
(* can only take the last unlock of d away if h was the one to make it.    *)

\* The supervisor assigns and creates tasks of a first stage only.
FirstStageEdits ==
  /\ \A t \in Assignable : Needs(t) = {}
  /\ \A t \in Creatable : Stage[t] = {}

\* So what a supervisor's request writes is never pending_publish.
EditorOpens ==
  /\ editor.op = "assignCheck" => Needs(editor.task) = {}
  /\ editor.op \in {"assignWrite", "createWrite"} => editor.saw

\* A step that completes no task makes no pending task ready.
LEMMA WaitedBefore ==
  ASSUME NEW d \in Task,
         \A p \in Needs(d) : status'[p] = "completed" => status[p] = "completed",
         status'[d] = "pending_publish" => status[d] = "pending_publish",
         WaitsForNothing(d)'
  PROVE  WaitsForNothing(d)
BY DEF WaitsForNothing, Completed, Needs

\* A request that does not move still unlocks what it would have unlocked.
LEMMA OthersUnlock ==
  ASSUME NEW g \in Handler, NEW d \in Task, WillUnlock(g, d),
         pc'[g] = pc[g], job'[g] = job[g], todo'[g] = todo[g],
         cur'[g] = cur[g], ok'[g] = ok[g]
  PROVE  WillUnlock(g, d)'
BY DEF WillUnlock, Needs

LEMMA InitNoLostUnlock ==
  ASSUME Init
  PROVE  NoLostUnlock
<1> SUFFICES ASSUME NEW d \in Task, WaitsForNothing(d) PROVE FALSE
  BY DEF NoLostUnlock
<1>1. Needs(d) # {}
  BY DEF Init, WaitsForNothing
<1>2. PICK p \in Needs(d) : p \in Task
  BY <1>1, DepsAssumption, StageAssumption DEF Needs
<1>3. status[p] # "completed"
  BY <1>2 DEF Init
<1> QED
  BY <1>3 DEF WaitsForNothing, Completed

LEMMA NeedsTasks == ASSUME NEW d \in Task PROVE Needs(d) \subseteq Task
BY DepsAssumption, StageAssumption DEF Needs

LEMMA ContinueKeepsUnlocks ==
  ASSUME TypeOK, NoLostUnlock, NEW h \in Handler, Continue(h)
  PROVE  NoLostUnlock'
<1> SUFFICES ASSUME NEW d \in Task, WaitsForNothing(d)'
             PROVE  \E g \in Handler : WillUnlock(g, d)'
  BY DEF NoLostUnlock
<1> USE NeedsTasks DEF TypeOK
<1>0. ASSUME NEW g \in Handler, g # h, WillUnlock(g, d) PROVE WillUnlock(g, d)'
  BY <1>0, OthersUnlock DEF Continue, Complete, List, LookAt, Answer, Unlock,
     Skip, Finish, Forget
<1>1. CASE Complete(h)
  <2>1. d # job[h]
    BY <1>1 DEF Complete, WaitsForNothing
  <2>2. CASE job[h] \in Needs(d)
    BY <1>1, <2>2 DEF Complete, WillUnlock, Needs
  <2>3. CASE job[h] \notin Needs(d)
    <3>1. WaitsForNothing(d)
      BY <1>1, <2>1, <2>3, WaitedBefore DEF Complete
    <3>2. PICK g \in Handler : WillUnlock(g, d)
      BY <3>1 DEF NoLostUnlock
    <3>3. g # h
      BY <1>1, <3>2 DEF Complete, WillUnlock
    <3> QED
      BY <1>0, <3>2, <3>3
  <2> QED
    BY <2>2, <2>3
<1>2. CASE ~Complete(h)
  <2>1. WaitsForNothing(d)
    <3>1. CASE Unlock(h)
      BY <3>1, WaitedBefore DEF Unlock, Unlocked, Forget
    <3>2. CASE ~Unlock(h)
      BY <1>2, <3>2, WaitedBefore DEF Continue, List, LookAt, Answer, Skip, Finish
    <3> QED
      BY <3>1, <3>2
  <2>2. PICK g \in Handler : WillUnlock(g, d)
    BY <2>1 DEF NoLostUnlock
  <2>3. CASE g # h
    BY <1>0, <2>2, <2>3
  <2>4. CASE g = h
    <3>0. WillUnlock(h, d)
      BY <2>2, <2>4
    <3>1. CASE List(h)
      BY <3>0, <3>1, <2>1 DEF List, WillUnlock, WaitsForNothing, Needs
    <3>2. ASSUME NEW e \in Task, LookAt(h, e) PROVE WillUnlock(h, d)'
      BY <3>0, <3>2 DEF LookAt, WillUnlock, Needs
    <3>3. ASSUME NEW q \in Query, Answer(h, q) PROVE WillUnlock(h, d)'
      <4>1. CASE cur[h] = d /\ ok[h]
        <5>1. Completed(Deps[d]) /\ Completed(Stage[d])
          BY <2>1 DEF WaitsForNothing, Completed, Needs
        <5>2. ok'[h] = TRUE
          BY <3>3, <4>1, <5>1 DEF Answer
        <5> QED
          BY <3>0, <3>3, <4>1, <5>2 DEF Answer, WillUnlock, Needs
      <4>2. CASE ~(cur[h] = d /\ ok[h])
        BY <3>0, <3>3, <4>2 DEF Answer, WillUnlock, Needs
      <4> QED
        BY <4>1, <4>2
    <3>4. CASE Unlock(h)
      <4>1. cur[h] # d
        BY <3>4 DEF Unlock, Unlocked, Forget, WaitsForNothing
      <4> QED
        BY <3>0, <3>4, <4>1 DEF Unlock, Forget, WillUnlock, Needs
    <3>5. CASE Skip(h)
      BY <3>0, <3>5 DEF Skip, Forget, WillUnlock, Needs
    <3>6. CASE Finish(h)
      BY <3>0, <3>6 DEF Finish, WillUnlock
    <3> QED
      BY <1>2, <3>1, <3>2, <3>3, <3>4, <3>5, <3>6 DEF Continue
  <2> QED
    BY <2>3, <2>4
<1> QED
  BY <1>1, <1>2

LEMMA BeginKeepsUnlocks ==
  ASSUME TypeOK, NoLostUnlock, NEW h \in Handler, NEW t \in Task, Begin(h, t)
  PROVE  NoLostUnlock'
<1> SUFFICES ASSUME NEW d \in Task, WaitsForNothing(d)'
             PROVE  \E g \in Handler : WillUnlock(g, d)'
  BY DEF NoLostUnlock
<1>1. WaitsForNothing(d)
  BY DEF Begin, WaitsForNothing, Completed, Needs
<1>2. PICK g \in Handler : WillUnlock(g, d)
  BY <1>1 DEF NoLostUnlock
<1>3. g # h
  BY <1>2 DEF Begin, WillUnlock
<1> QED
  BY <1>2, <1>3, OthersUnlock DEF Begin, TypeOK

\* A step outside the completing requests that makes no task completed or pending.
LEMMA OutsideKeepsUnlocks ==
  ASSUME NoLostUnlock, UNCHANGED handlerVars,
         \A p \in Task : status'[p] = status[p]
                         \/ status'[p] \notin {"completed", "pending_publish"}
  PROVE  NoLostUnlock'
<1> SUFFICES ASSUME NEW d \in Task, WaitsForNothing(d)'
             PROVE  \E g \in Handler : WillUnlock(g, d)'
  BY DEF NoLostUnlock
<1>1. WaitsForNothing(d)
  BY WaitedBefore, NeedsTasks DEF WaitsForNothing
<1>2. PICK g \in Handler : WillUnlock(g, d)
  BY <1>1 DEF NoLostUnlock
<1> QED
  BY <1>2, OthersUnlock DEF handlerVars

\* No unlock is lost between completing requests, however many complete the
\* tasks of a stage at the same time (approveTask, submitTask), as long as the
\* tasks a supervisor assigns or creates between their steps wait for nothing.
THEOREM UnlocksAreKept ==
  ASSUME FirstStageEdits
  PROVE  Spec => []NoLostUnlock
<1>1. Init => EditorOpens /\ NoLostUnlock
  BY InitNoLostUnlock DEF Init, EditorOpens, Idle
<1>2. TypeOK /\ EditorOpens /\ NoLostUnlock /\ [Next]_vars => EditorOpens' /\ NoLostUnlock'
  <2> SUFFICES ASSUME TypeOK, EditorOpens, NoLostUnlock, [Next]_vars
               PROVE  EditorOpens' /\ NoLostUnlock'
    OBVIOUS
  <2>1. ASSUME NEW h \in Handler, NEW t \in Task, Begin(h, t)
        PROVE  EditorOpens' /\ NoLostUnlock'
    <3>1. EditorOpens'
      BY <2>1 DEF Begin, EditorOpens, Needs
    <3> QED
      BY <2>1, <3>1, BeginKeepsUnlocks
  <2>2. ASSUME NEW h \in Handler, Continue(h) PROVE EditorOpens' /\ NoLostUnlock'
    <3>1. EditorOpens'
      BY <2>2 DEF Continue, Complete, List, LookAt, Answer, Unlock, Skip, Finish,
         EditorOpens, Needs
    <3> QED
      BY <2>2, <3>1, ContinueKeepsUnlocks
  <2>3. ASSUME NEW t \in Task, Work(t) PROVE EditorOpens' /\ NoLostUnlock'
    <3>1. NoLostUnlock'
      BY <2>3, OutsideKeepsUnlocks DEF Work, TypeOK
    <3> QED
      BY <2>3, <3>1 DEF Work, EditorOpens, Needs
  <2>4. ASSUME NEW t \in Task, AssignRead(t) PROVE EditorOpens' /\ NoLostUnlock'
    <3>1. NoLostUnlock'
      BY <2>4, OutsideKeepsUnlocks DEF AssignRead, TypeOK
    <3> QED
      BY <2>4, <3>1 DEF AssignRead, EditorOpens, FirstStageEdits, Needs
  <2>5. ASSUME NEW t \in Task, CreateCheck(t) PROVE EditorOpens' /\ NoLostUnlock'
    <3>1. NoLostUnlock'
      BY <2>5, OutsideKeepsUnlocks DEF CreateCheck, TypeOK
    <3> QED
      BY <2>5, <3>1 DEF CreateCheck, EditorOpens, FirstStageEdits, Completed
  <2>6. CASE AssignCheck
    <3>1. NoLostUnlock'
      BY <2>6, OutsideKeepsUnlocks DEF AssignCheck
    <3>2. Completed(Needs(editor.task))
      BY <2>6 DEF AssignCheck, EditorOpens, Completed
    <3> QED
      BY <2>6, <3>1, <3>2 DEF AssignCheck, EditorOpens, Idle
  <2>7. CASE AssignWrite
    <3>1. NoLostUnlock'
      BY <2>7, OutsideKeepsUnlocks DEF AssignWrite, EditorOpens, TypeOK
    <3> QED
      BY <2>7, <3>1 DEF AssignWrite, EditorOpens, Idle
  <2>8. CASE CreateWrite
    <3>1. NoLostUnlock'
      BY <2>8, OutsideKeepsUnlocks DEF CreateWrite, EditorOpens, TypeOK
    <3> QED
      BY <2>8, <3>1 DEF CreateWrite, EditorOpens, Idle
  <2>9. CASE UNCHANGED vars
    BY <2>9 DEF vars, handlerVars, EditorOpens, NoLostUnlock, WaitsForNothing,
       Completed, WillUnlock, Needs
  <2> QED
    BY <2>1, <2>2, <2>3, <2>4, <2>5, <2>6, <2>7, <2>8, <2>9 DEF Next, EditorStep
<1> QED
  BY <1>1, <1>2, TypeCorrect, PTL DEF Spec

-----------------------------------------------------------------------------
(* The gate                                                                *)

\* What a supervisor assigns or creates meanwhile waits for nothing.
FreeEdits == \A t \in Assignable \cup Creatable : Needs(t) = {}

Asked(q, d) == IF q = "deps" THEN Deps[d] ELSE Stage[d]

\* What request h has seen: the task it approves is open or done, those it looks
\* at exist, and an answer that was `completed' is about tasks that were finished.
Informed(h) ==
  /\ pc[h] = "approving" => status[job[h]] \notin {"absent", "pending_publish"}
  /\ \A d \in todo[h] : status[d] # "absent"
  /\ pc[h] = "checking" =>
       /\ status[cur[h]] # "absent"
       /\ \A q \in Query \ asks[h] : ok[h] => Asked(q, cur[h]) \subseteq finished

EditorInformed ==
  /\ editor.op \in {"assignCheck", "assignWrite"} =>
       editor.task \in Assignable /\ status[editor.task] # "absent"
  /\ editor.op = "assignWrite" => editor.saw
  /\ editor.op = "createWrite" =>
       editor.task \in Creatable /\ status[editor.task] = "absent"

FinishedOnes == \A t \in Task : status[t] = "completed" => t \in finished

GateInv == FinishedOnes /\ (\A h \in Handler : Informed(h)) /\ EditorInformed

\* No task disappears, and none that was open or done starts to wait.
Kept == \A t \in Task : /\ status[t] # "absent" => status'[t] # "absent"
                        /\ status'[t] = "pending_publish" =>
                             status[t] \in {"absent", "pending_publish"}

\* And none appears.
Steady == Kept /\ \A t \in Task : status[t] = "absent" => status'[t] = "absent"

Remembers == finished' = finished \cup {t \in Task : status'[t] = "completed"}

-----------------------------------------------------------------------------
LEMMA StaysInformed ==
  ASSUME TypeOK, NEW h \in Handler, Informed(h), Kept, Remembers,
         pc'[h] = pc[h], job'[h] = job[h], todo'[h] = todo[h],
         cur'[h] = cur[h], asks'[h] = asks[h], ok'[h] = ok[h]
  PROVE  Informed(h)'
<1>1. finished \subseteq finished'
  BY DEF Remembers
<1>2. job[h] \in Task /\ cur[h] \in Task /\ todo[h] \subseteq Task
  BY DEF TypeOK
<1>3. pc'[h] = "approving" => status'[job'[h]] \notin {"absent", "pending_publish"}
  BY <1>2 DEF Informed, Kept
<1>4. \A d \in todo'[h] : status'[d] # "absent"
  BY <1>2 DEF Informed, Kept
<1>5. pc'[h] = "checking" => status'[cur'[h]] # "absent"
  BY <1>2 DEF Informed, Kept
<1>6. ASSUME pc'[h] = "checking", NEW q \in Query \ asks'[h], ok'[h]
      PROVE  Asked(q, cur'[h]) \subseteq finished'
  BY <1>1, <1>6 DEF Informed, Asked
<1> QED
  BY <1>3, <1>4, <1>5, <1>6 DEF Informed, Asked

\* One write to one row is one step of the gate, or none.
LEMMA WriteStep ==
  ASSUME TypeOK, FinishedOnes, Remembers, NEW t \in Task, NEW s \in TaskStatus \ {"absent"},
         status' = [status EXCEPT ![t] = s],
         status[t] = "absent" => s # "completed",
         s = "pending_publish" => status[t] \in {"absent", "pending_publish"},
         s = "completed" => status[t] # "pending_publish",
         s \notin {"completed", "pending_publish"} /\ status[t] \in {"absent", "pending_publish"}
           => Needs(t) \subseteq finished
  PROVE  [Gate!Next]_(Gate!gateVars)
<1> DEFINE place == [d \in Task |-> PlaceOf(status[d])]
<1>1. status \in [Task -> TaskStatus]
  BY DEF TypeOK
<1>2. place' = [place EXCEPT ![t] = PlaceOf(s)]
  BY <1>1
<1>3. finished' = IF s = "completed" THEN finished \cup {t} ELSE finished
  BY <1>1 DEF FinishedOnes, Remembers
<1>4. CASE PlaceOf(s) = place[t]
  <2>1. place' = place
    BY <1>2, <1>4
  <2>2. finished' = finished
    BY <1>1, <1>3, <1>4 DEF PlaceOf, FinishedOnes, TaskStatus
  <2> QED
    BY <2>1, <2>2 DEF Gate!gateVars
<1>5. CASE s = "completed" /\ PlaceOf(s) # place[t]
  <2>1. place[t] = "open"
    BY <1>1, <1>5 DEF PlaceOf, TaskStatus
  <2>2. PlaceOf(s) = "done"
    BY <1>5 DEF PlaceOf
  <2> QED
    BY <1>2, <1>3, <1>5, <2>1, <2>2 DEF Gate!Next, Gate!Finish, Gate!Put
<1>6. CASE s = "pending_publish" /\ PlaceOf(s) # place[t]
  <2>1. place[t] = "absent" /\ PlaceOf(s) = "waiting"
    BY <1>1, <1>6 DEF PlaceOf, TaskStatus
  <2> QED
    BY <1>2, <1>3, <1>6, <2>1 DEF Gate!Next, Gate!Appear, Gate!Put
<1>7. CASE s \notin {"completed", "pending_publish"} /\ PlaceOf(s) # place[t]
  <2>1. PlaceOf(s) = "open"
    BY <1>7 DEF PlaceOf, TaskStatus
  <2>2. place[t] \in {"absent", "waiting", "done"}
    BY <1>1, <1>7, <2>1 DEF PlaceOf, TaskStatus
  <2>3. CASE place[t] = "absent"
    <3>1. Needs(t) \subseteq finished
      BY <1>7, <2>3 DEF PlaceOf, TaskStatus
    <3> QED
      BY <1>2, <1>3, <1>7, <2>1, <2>3, <3>1 DEF Gate!Next, Gate!Appear, Gate!Put
  <2>4. CASE place[t] = "waiting"
    <3>1. Needs(t) \subseteq finished
      BY <1>7, <2>4 DEF PlaceOf, TaskStatus
    <3> QED
      BY <1>2, <1>3, <1>7, <2>1, <2>4, <3>1 DEF Gate!Next, Gate!Open, Gate!Put
  <2>5. CASE place[t] = "done"
    BY <1>2, <1>3, <1>7, <2>1, <2>5 DEF Gate!Next, Gate!Reopen, Gate!Put
  <2> QED
    BY <2>2, <2>3, <2>4, <2>5
<1> QED
  BY <1>4, <1>5, <1>6, <1>7

\* A step that writes no row is none of the gate.
LEMMA QuietStep ==
  ASSUME FinishedOnes, Remembers, TypeOK, UNCHANGED status
  PROVE  /\ [Gate!Next]_(Gate!gateVars)
         /\ Steady /\ FinishedOnes'
<1>1. finished' = finished
  BY DEF FinishedOnes, Remembers
<1>2. UNCHANGED Gate!gateVars
  BY <1>1 DEF Gate!gateVars
<1> QED
  BY <1>1, <1>2 DEF Steady, Kept, FinishedOnes

LEMMA FinishedStay ==
  ASSUME Remembers
  PROVE  FinishedOnes'
BY DEF Remembers, FinishedOnes

LEMMA EditorStays ==
  ASSUME TypeOK, EditorInformed, Steady, UNCHANGED editor
  PROVE  EditorInformed'
<1>1. CASE editor = Idle
  BY <1>1 DEF EditorInformed, Idle
<1>2. CASE editor # Idle
  <2>1. editor.task \in Task
    BY <1>2 DEF TypeOK
  <2> QED
    BY <2>1 DEF EditorInformed, Steady, Kept
<1> QED
  BY <1>1, <1>2

-----------------------------------------------------------------------------
(* The steps of a request                                                  *)

\* What a step of request h leaves to show when it writes no row.
LEMMA OwnStep ==
  ASSUME TypeOK, GateInv, Remembers, NEW h \in Handler,
         Steady, UNCHANGED editor, Informed(h)',
         \A g \in Handler \ {h} :
           /\ pc'[g] = pc[g] /\ job'[g] = job[g] /\ todo'[g] = todo[g]
           /\ cur'[g] = cur[g] /\ asks'[g] = asks[g] /\ ok'[g] = ok[g]
  PROVE  GateInv'
<1>1. FinishedOnes' /\ EditorInformed'
  BY FinishedStay, EditorStays DEF GateInv
<1>2. ASSUME NEW g \in Handler PROVE Informed(g)'
  <2>1. CASE g = h
    BY <2>1
  <2>2. CASE g # h
    BY <2>2, StaysInformed DEF GateInv, Steady
  <2> QED
    BY <2>1, <2>2
<1> QED
  BY <1>1, <1>2 DEF GateInv

LEMMA BeginGate ==
  ASSUME TypeOK, GateInv, Remembers, NEW h \in Handler, NEW t \in Task, Begin(h, t)
  PROVE  GateInv' /\ [Gate!Next]_(Gate!gateVars)
<1>1. Steady /\ [Gate!Next]_(Gate!gateVars)
  BY QuietStep DEF Begin, GateInv
<1>2. Informed(h)'
  BY DEF Begin, GateInv, Informed, TypeOK
<1>3. GateInv'
  BY <1>1, <1>2, OwnStep DEF Begin, TypeOK
<1> QED
  BY <1>1, <1>3

LEMMA CompleteGate ==
  ASSUME TypeOK, GateInv, Remembers, NEW h \in Handler, Complete(h)
  PROVE  GateInv' /\ [Gate!Next]_(Gate!gateVars)
<1>1. job[h] \in Task /\ status[job[h]] \notin {"absent", "pending_publish"}
  BY DEF Complete, GateInv, Informed, TypeOK
<1>2. [Gate!Next]_(Gate!gateVars)
  BY <1>1, WriteStep DEF Complete, GateInv, TaskStatus
<1>3. Steady
  BY <1>1 DEF Complete, Steady, Kept, TypeOK
<1>4. Informed(h)'
  <2>1. todo[h] \subseteq Task
    BY DEF TypeOK
  <2> QED
    BY <1>3, <2>1 DEF Complete, GateInv, Informed, Steady, Kept, TypeOK
<1>5. GateInv'
  BY <1>3, <1>4, OwnStep DEF Complete, TypeOK
<1> QED
  BY <1>2, <1>5

LEMMA ReadingGate ==
  ASSUME TypeOK, GateInv, Remembers, NEW h \in Handler,
         \/ List(h) \/ Skip(h) \/ Finish(h)
         \/ \E d \in Task : LookAt(h, d)
         \/ \E q \in Query : Answer(h, q)
  PROVE  GateInv' /\ [Gate!Next]_(Gate!gateVars)
<1>1. UNCHANGED <<status, editor>>
  BY DEF List, Skip, Finish, LookAt, Answer
<1>2. Steady /\ [Gate!Next]_(Gate!gateVars) /\ finished' = finished
  BY <1>1, QuietStep DEF GateInv, FinishedOnes, Remembers
<1>3. Informed(h)'
  <2>1. CASE List(h)
    BY <2>1, <1>1 DEF List, GateInv, Informed, TypeOK
  <2>2. CASE Skip(h)
    BY <2>2, <1>1 DEF Skip, Forget, GateInv, Informed, TypeOK
  <2>3. CASE Finish(h)
    BY <2>3, <1>1 DEF Finish, GateInv, Informed, TypeOK
  <2>4. ASSUME NEW d \in Task, LookAt(h, d) PROVE Informed(h)'
    BY <2>4, <1>1 DEF LookAt, GateInv, Informed, TypeOK
  <2>5. ASSUME NEW q \in Query, Answer(h, q) PROVE Informed(h)'
    <3>1. /\ pc[h] = "checking" /\ pc' = pc /\ job' = job /\ todo' = todo /\ cur' = cur
          /\ asks'[h] = asks[h] \ {q}
          /\ ok'[h] = (ok[h] /\ Completed(Asked(q, cur[h])))
      BY <2>5 DEF Answer, Asked, TypeOK
    <3>2. cur[h] \in Task /\ Asked(q, cur[h]) \subseteq Task
      BY DepsAssumption, StageAssumption DEF TypeOK, Asked
    <3>3. ASSUME NEW r \in Query \ asks'[h], ok'[h]
          PROVE  Asked(r, cur[h]) \subseteq finished
      <4>1. CASE r = q
        BY <3>1, <3>2, <3>3, <4>1 DEF Completed, GateInv, FinishedOnes
      <4>2. CASE r # q
        BY <3>1, <3>3, <4>2 DEF GateInv, Informed
      <4> QED
        BY <4>1, <4>2
    <3> QED
      BY <1>1, <1>2, <3>1, <3>3 DEF GateInv, Informed, Asked
  <2> QED
    BY <2>1, <2>2, <2>3, <2>4, <2>5
<1>4. \A g \in Handler \ {h} :
        /\ pc'[g] = pc[g] /\ job'[g] = job[g] /\ todo'[g] = todo[g]
        /\ cur'[g] = cur[g] /\ asks'[g] = asks[g] /\ ok'[g] = ok[g]
  BY DEF List, Skip, Forget, Finish, LookAt, Answer, TypeOK
<1>5. GateInv'
  BY <1>1, <1>2, <1>3, <1>4, OwnStep
<1> QED
  BY <1>2, <1>5

LEMMA UnlockGate ==
  ASSUME TypeOK, GateInv, Remembers, NEW h \in Handler, Unlock(h)
  PROVE  GateInv' /\ [Gate!Next]_(Gate!gateVars)
<1> DEFINE d == cur[h]
           s == Unlocked(d \in held[h])
<1>1. d \in Task /\ status[d] # "absent" /\ job[h] \in Task
  BY DEF Unlock, GateInv, Informed, TypeOK
<1>2. s \in {"assigned", "claimable"} /\ status' = [status EXCEPT ![d] = s]
  BY DEF Unlock, Unlocked
<1>3. Needs(d) \subseteq finished
  <2>1. \A q \in Query : Asked(q, d) \subseteq finished
    BY DEF Unlock, GateInv, Informed
  <2>2. Asked("deps", d) \subseteq finished /\ Asked("stage", d) \subseteq finished
    BY <2>1 DEF Query
  <2> QED
    BY <2>2 DEF Asked, Needs
<1>4. [Gate!Next]_(Gate!gateVars)
  <2>1. s \in TaskStatus \ {"absent"} /\ s \notin {"completed", "pending_publish"}
    BY <1>2 DEF TaskStatus
  <2> HIDE DEF s, d
  <2> QED
    BY <1>1, <1>2, <1>3, <2>1, WriteStep DEF GateInv
<1>5. Steady
  BY <1>1, <1>2 DEF Steady, Kept, TypeOK
<1>6. Informed(h)'
  <2>1. todo[h] \subseteq Task
    BY DEF TypeOK
  <2> QED
    BY <1>5, <2>1 DEF Unlock, Forget, GateInv, Informed, Steady, Kept, TypeOK
<1>7. GateInv'
  BY <1>5, <1>6, OwnStep DEF Unlock, Forget, TypeOK
<1> QED
  BY <1>4, <1>7

-----------------------------------------------------------------------------
(* The steps of everybody else                                             *)

\* What a step that moves no request leaves to show.
LEMMA OutsideStep ==
  ASSUME TypeOK, GateInv, Remembers, Kept, UNCHANGED handlerVars, EditorInformed'
  PROVE  GateInv'
<1>1. ASSUME NEW h \in Handler PROVE Informed(h)'
  BY StaysInformed DEF GateInv, handlerVars
<1> QED
  BY <1>1, FinishedStay DEF GateInv

LEMMA WorkGate ==
  ASSUME TypeOK, GateInv, Remembers, NEW t \in Task, Work(t)
  PROVE  GateInv' /\ [Gate!Next]_(Gate!gateVars)
<1>1. Steady
  BY DEF Work, Steady, Kept, TypeOK
<1>2. EditorInformed'
  BY <1>1, EditorStays DEF Work, GateInv
<1>3. GateInv'
  BY <1>1, <1>2, OutsideStep DEF Work, Steady
<1>4. [Gate!Next]_(Gate!gateVars)
  BY WriteStep DEF Work, GateInv, TaskStatus
<1> QED
  BY <1>3, <1>4

\* With FreeEdits, the supervisor always finds that nothing is before the task.
LEMMA EditorReadsGate ==
  ASSUME FreeEdits, TypeOK, GateInv, Remembers,
         AssignCheck \/ \E t \in Task : AssignRead(t) \/ CreateCheck(t)
  PROVE  GateInv' /\ [Gate!Next]_(Gate!gateVars)
<1>1. UNCHANGED <<status, handlerVars>>
  BY DEF AssignCheck, AssignRead, CreateCheck
<1>2. Steady /\ [Gate!Next]_(Gate!gateVars)
  BY <1>1, QuietStep DEF GateInv
<1>3. EditorInformed'
  <2>1. CASE AssignCheck
    <3>1. editor.task \in Assignable /\ status[editor.task] # "absent"
      BY <2>1 DEF AssignCheck, GateInv, EditorInformed
    <3>2. Completed(Needs(editor.task))
      BY <3>1 DEF FreeEdits, Completed
    <3>3. editor' = [op |-> "assignWrite", task |-> editor.task, saw |-> TRUE]
      BY <2>1, <3>2 DEF AssignCheck
    <3> QED
      BY <1>1, <3>1, <3>3 DEF EditorInformed
  <2>2. ASSUME NEW t \in Task, AssignRead(t) PROVE EditorInformed'
    BY <2>2, <1>1 DEF AssignRead, EditorInformed
  <2>3. ASSUME NEW t \in Task, CreateCheck(t) PROVE EditorInformed'
    BY <2>3, <1>1 DEF CreateCheck, EditorInformed
  <2> QED
    BY <2>1, <2>2, <2>3
<1>4. GateInv'
  BY <1>1, <1>2, <1>3, OutsideStep DEF Steady, handlerVars
<1> QED
  BY <1>2, <1>4

LEMMA EditorWritesGate ==
  ASSUME FreeEdits, TypeOK, GateInv, Remembers, AssignWrite \/ CreateWrite
  PROVE  GateInv' /\ [Gate!Next]_(Gate!gateVars)
<1> DEFINE t == editor.task
<1>1. t \in Task /\ Needs(t) = {}
  BY EditorAssumption DEF AssignWrite, CreateWrite, GateInv, EditorInformed, FreeEdits
<1>2. EditorInformed'
  BY DEF AssignWrite, CreateWrite, EditorInformed, Idle
<1>3. CASE AssignWrite
  <2>1. status[t] # "absent" /\ status' = [status EXCEPT ![t] = "assigned"]
    BY <1>3 DEF AssignWrite, GateInv, EditorInformed
  <2>2. Kept
    BY <1>1, <2>1 DEF Kept, TypeOK
  <2>3. [Gate!Next]_(Gate!gateVars)
    <3> HIDE DEF t
    <3> QED
      BY <1>1, <2>1, WriteStep DEF GateInv, TaskStatus
  <2> QED
    BY <1>2, <1>3, <2>2, <2>3, OutsideStep DEF AssignWrite
<1>4. CASE CreateWrite
  <2> DEFINE s == IF editor.saw THEN "claimable" ELSE "pending_publish"
  <2>1. status[t] = "absent" /\ status' = [status EXCEPT ![t] = s]
    BY <1>4 DEF CreateWrite, GateInv, EditorInformed
  <2>2. s \in {"claimable", "pending_publish"}
    OBVIOUS
  <2>3. Kept
    BY <1>1, <2>1, <2>2 DEF Kept, TypeOK
  <2>4. [Gate!Next]_(Gate!gateVars)
    <3> HIDE DEF t, s
    <3> QED
      BY <1>1, <2>1, <2>2, WriteStep DEF GateInv, TaskStatus
  <2> QED
    BY <1>2, <1>4, <2>3, <2>4, OutsideStep DEF CreateWrite
<1> QED
  BY <1>3, <1>4

-----------------------------------------------------------------------------
LEMMA InitGate ==
  ASSUME GateInit
  PROVE  GateInv /\ Gate!Init
<1>1. FinishedOnes /\ EditorInformed
  BY DEF GateInit, Init, FinishedOnes, EditorInformed, Idle
<1>2. \A h \in Handler : Informed(h)
  BY DEF GateInit, Init, Informed
<1>3. [t \in Task |-> PlaceOf(status[t])] \in [Task -> Gate!Place \ {"done"}]
  BY DEF GateInit, Init, PlaceOf, Gate!Place
<1>4. Gate!Init
  <2>1. ASSUME NEW t \in Task, PlaceOf(status[t]) = "open" PROVE Needs(t) = {}
    BY <2>1 DEF GateInit, Init, PlaceOf
  <2>2. ASSUME NEW t \in Task, [d \in Task |-> PlaceOf(status[d])][t] = "open"
        PROVE  [d \in Task |-> Needs(d)][t] = {}
    BY <2>1, <2>2, Zenon
  <2> QED
    BY <1>3, <2>2 DEF GateInit, Gate!Init
<1> QED
  BY <1>1, <1>2, <1>4 DEF GateInv

LEMMA NextGate ==
  ASSUME FreeEdits, TypeOK, GateInv, [GateNext]_gateUnlockVars
  PROVE  GateInv' /\ [Gate!Next]_(Gate!gateVars)
<1>1. CASE UNCHANGED gateUnlockVars
  <2>1. GateInv'
    BY <1>1 DEF gateUnlockVars, vars, GateInv, FinishedOnes, Informed, Asked, EditorInformed
  <2>2. UNCHANGED Gate!gateVars
    BY <1>1 DEF gateUnlockVars, vars, Gate!gateVars
  <2> QED
    BY <2>1, <2>2
<1>2. CASE GateNext
  <2>1. Remembers
    BY <1>2 DEF GateNext, Remembers
  <2>2. ASSUME NEW h \in Handler, NEW t \in Task, Begin(h, t)
        PROVE  GateInv' /\ [Gate!Next]_(Gate!gateVars)
    BY <2>1, <2>2, BeginGate
  <2>3. ASSUME NEW h \in Handler, Continue(h)
        PROVE  GateInv' /\ [Gate!Next]_(Gate!gateVars)
    BY <2>1, <2>3, CompleteGate, ReadingGate, UnlockGate DEF Continue
  <2>4. ASSUME NEW t \in Task, Work(t) \/ AssignRead(t) \/ CreateCheck(t)
        PROVE  GateInv' /\ [Gate!Next]_(Gate!gateVars)
    BY <2>1, <2>4, WorkGate, EditorReadsGate
  <2>5. CASE EditorStep
    BY <2>1, <2>5, EditorReadsGate, EditorWritesGate DEF EditorStep
  <2> QED
    BY <1>2, <2>2, <2>3, <2>4, <2>5 DEF GateNext, Next
<1> QED
  BY <1>1, <1>2

\* TaskUnlock implements the gate: every interleaving of completing requests,
\* workers and a supervisor (who edits tasks of a first stage) opens a task only
\* after everything before it was completed, and every write of a row is one
\* step of the gate or none.
THEOREM UnlockImplementsGate ==
  ASSUME FreeEdits
  PROVE  GateSpec => ImplementsGate
<1>1. GateInit => Init
  BY DEF GateInit
<1>2. [GateNext]_gateUnlockVars => [Next]_vars
  BY DEF GateNext, gateUnlockVars
<1>3. GateSpec => Spec
  BY <1>1, <1>2, PTL DEF GateSpec, Spec
<1>4. GateSpec => []TypeOK
  BY <1>3, TypeCorrect, PTL
<1>5. GateInit => GateInv /\ Gate!Init
  BY InitGate
<1>6. TypeOK /\ GateInv /\ [GateNext]_gateUnlockVars
        => GateInv' /\ [Gate!Next]_(Gate!gateVars)
  BY NextGate
<1> QED
  BY <1>4, <1>5, <1>6, PTL DEF GateSpec, ImplementsGate, Gate!Spec
=============================================================================
