------------------------ MODULE EvaluationPairProofs ------------------------
(***************************************************************************)
(* Theorems about EvaluationPair, for every pair of graces in which the    *)
(* worker's is the longer, either schedule and any number of faults: its   *)
(* types, that no evaluation is left running without the process that      *)
(* bounds it, and that a pair recorded as failed is stopped.               *)
(***************************************************************************)
EXTENDS EvaluationPair, TLAPS

Idle(v) == supervisor[v] \in {"unborn", "gone"}

\* An evaluation runs only between its supervisor's launch and its reaping.
EvaluationIsSupervised ==
  \A v \in Variants :
    /\ supervisor[v] \in {"unborn", "booting", "armed"} => evaluation[v] = "unborn"
    /\ supervisor[v] \in {"reaping", "recording", "gone"} => evaluation[v] # "running"

\* The registry knows every supervisor at work, and an exit is collected once.
RegistryIsComplete ==
  \A v \in Variants :
    /\ ~Idle(v) => v \in registered
    /\ v \in registered => supervisor[v] # "unborn"
    /\ outcomes[v] # None => supervisor[v] = "gone"

\* While the worker waits for a child it told to stop, its patience outlasts the
\* grace the child still gives the evaluation: time does not pass before a
\* signalled supervisor has begun to stop it, and passes for both alike.
PatienceOutlastsGrace ==
  step = "wait" =>
    \/ supervisor[side] \in {"armed", "watching"} /\ told[side] /\ patience = WorkerGrace
    \/ supervisor[side] = "stopping" /\ grace[side] < patience
    \/ supervisor[side] \in {"reaping", "recording", "gone"}

Starting == {"check", "enter", "start"}
Running == Starting \union {"record", "announce", "watch", "poll", "report"}

\* What has been started when: one side after the other, or both before anything
\* else is done.
PhasesAreOrdered ==
  /\ step \in Starting => supervisor[side] = "unborn"
  /\ step \in Starting /\ side = "baseline" => supervisor["candidate"] = "unborn"
  /\ schedule = "parallel" /\ step \in {"check", "enter"} => side = "baseline"
  /\ step = "announce" => schedule = "parallel"
  /\ schedule = "sequential" /\ step \in Running =>
       IF side = "baseline" THEN supervisor["candidate"] = "unborn"
       ELSE outcomes["baseline"] = "clean"

\* What the worker's unwinding has stopped by the time it gets to each step.
UnwindingStops ==
  /\ step \in {"stop", "wait"} /\ resume # "poll" /\ side = "candidate" => Idle("baseline")
  /\ step \in {"stop", "wait"} /\ resume = "poll" => schedule = "parallel"
  /\ step = "failing" /\ faults = 0 => \A v \in Variants : Idle(v)
  /\ run \in {"failed", "cancelled"} => step = "exited"
  /\ run = "failed" /\ faults = 0 => \A v \in Variants : Idle(v)

Inv ==
  /\ TypeOK
  /\ EvaluationIsSupervised
  /\ RegistryIsComplete
  /\ PatienceOutlastsGrace
  /\ PhasesAreOrdered
  /\ UnwindingStops

\* The worker starts with nothing started.
LEMMA InitInv == Init => Inv
  <1> SUFFICES ASSUME Init PROVE Inv
    OBVIOUS
  <1>1. TypeOK
    BY Graces DEF Init, TypeOK, WorkerSteps, SupervisorSteps, Variants
  <1>2. EvaluationIsSupervised /\ RegistryIsComplete
    BY DEF Init, EvaluationIsSupervised, RegistryIsComplete, Idle
  <1>3. PatienceOutlastsGrace /\ PhasesAreOrdered /\ UnwindingStops
    BY DEF Init, PatienceOutlastsGrace, PhasesAreOrdered, UnwindingStops, Starting, Running,
           Variants
  <1> QED BY <1>1, <1>2, <1>3 DEF Inv

\* Every step of the worker, of a supervisor, of an evaluation and of time keeps
\* the invariant.
LEMMA StepInv == Inv /\ [Next]_vars => Inv'
  <1> SUFFICES ASSUME Inv, [Next]_vars PROVE Inv'
    OBVIOUS
  <1> USE DEF Inv
  <1>1. CASE UNCHANGED vars
    BY <1>1 DEF vars, childVars, TypeOK, WorkerSteps, SupervisorSteps,
       Variants, EvaluationIsSupervised, RegistryIsComplete, Idle,
       PatienceOutlastsGrace, PhasesAreOrdered, Starting, Running,
       UnwindingStops
  <1>2. CASE CheckBefore
    <2>1. TypeOK'
      BY <1>2 DEF CheckBefore, Goto, childVars, TypeOK, WorkerSteps,
         SupervisorSteps, Variants
    <2>2. PatienceOutlastsGrace'
      BY <1>2 DEF CheckBefore, Goto, childVars, TypeOK, PatienceOutlastsGrace
    <2>3. PhasesAreOrdered'
      BY <1>2 DEF CheckBefore, Goto, childVars, TypeOK, PhasesAreOrdered,
         Starting, Running
    <2>4. UnwindingStops'
      BY <1>2 DEF CheckBefore, Goto, childVars, TypeOK, UnwindingStops, Idle
    <2>5. EvaluationIsSupervised' /\ RegistryIsComplete'
      BY <1>2 DEF CheckBefore, Goto, childVars, EvaluationIsSupervised,
         RegistryIsComplete, Idle
    <2> QED BY <2>1, <2>2, <2>3, <2>4, <2>5
  <1>3. CASE EnterPhase
    <2>1. TypeOK'
      BY <1>3 DEF EnterPhase, Goto, childVars, TypeOK, WorkerSteps,
         SupervisorSteps, Variants
    <2>2. PatienceOutlastsGrace'
      BY <1>3 DEF EnterPhase, Goto, childVars, TypeOK, PatienceOutlastsGrace
    <2>3. PhasesAreOrdered'
      BY <1>3 DEF EnterPhase, Goto, childVars, TypeOK, PhasesAreOrdered,
         Starting, Running
    <2>4. UnwindingStops'
      BY <1>3, Graces, NoneIsNoName DEF EnterPhase, Goto, childVars, TypeOK,
         UnwindingStops, Idle, RegistryIsComplete, PhasesAreOrdered, Starting,
         Running, Variants
    <2>5. EvaluationIsSupervised' /\ RegistryIsComplete'
      BY <1>3 DEF EnterPhase, Goto, childVars, EvaluationIsSupervised,
         RegistryIsComplete, Idle
    <2> QED BY <2>1, <2>2, <2>3, <2>4, <2>5
  <1>4. CASE StartOne
    <2>1. TypeOK'
      BY <1>4 DEF StartOne, Goto, TypeOK, WorkerSteps, SupervisorSteps,
         Variants
    <2>2. EvaluationIsSupervised'
      BY <1>4 DEF StartOne, Goto, TypeOK, EvaluationIsSupervised,
         PhasesAreOrdered, Starting, Running
    <2>3. RegistryIsComplete'
      BY <1>4 DEF StartOne, Goto, TypeOK, RegistryIsComplete, Idle,
         PhasesAreOrdered, Starting, Running
    <2>4. PatienceOutlastsGrace'
      BY <1>4 DEF StartOne, Goto, TypeOK, PatienceOutlastsGrace
    <2>5. PhasesAreOrdered'
      BY <1>4 DEF StartOne, Goto, TypeOK, PhasesAreOrdered, Starting, Running
    <2>6. UnwindingStops'
      BY <1>4 DEF StartOne, Goto, TypeOK, UnwindingStops, Idle
    <2> QED BY <2>1, <2>2, <2>3, <2>4, <2>5, <2>6
  <1>5. CASE StartFails
    <2>1. TypeOK'
      BY <1>5 DEF StartFails, Goto, childVars, TypeOK, WorkerSteps,
         SupervisorSteps, Variants
    <2>2. PatienceOutlastsGrace'
      BY <1>5 DEF StartFails, Goto, childVars, TypeOK, PatienceOutlastsGrace
    <2>3. PhasesAreOrdered'
      BY <1>5 DEF StartFails, Goto, childVars, TypeOK, PhasesAreOrdered,
         Starting, Running
    <2>4. UnwindingStops'
      BY <1>5, Graces, NoneIsNoName DEF StartFails, Goto, childVars, TypeOK,
         UnwindingStops, Idle, RegistryIsComplete, PhasesAreOrdered, Starting,
         Running, Variants
    <2>5. EvaluationIsSupervised' /\ RegistryIsComplete'
      BY <1>5 DEF StartFails, Goto, childVars, EvaluationIsSupervised,
         RegistryIsComplete, Idle
    <2> QED BY <2>1, <2>2, <2>3, <2>4, <2>5
  <1>6. CASE RecordChildren
    <2>1. TypeOK'
      BY <1>6 DEF RecordChildren, Goto, childVars, TypeOK, WorkerSteps,
         SupervisorSteps, Variants
    <2>2. PatienceOutlastsGrace'
      BY <1>6 DEF RecordChildren, Goto, childVars, TypeOK,
         PatienceOutlastsGrace
    <2>3. PhasesAreOrdered'
      BY <1>6 DEF RecordChildren, Goto, childVars, TypeOK, PhasesAreOrdered,
         Starting, Running
    <2>4. UnwindingStops'
      BY <1>6 DEF RecordChildren, Goto, childVars, TypeOK, UnwindingStops, Idle
    <2>5. EvaluationIsSupervised' /\ RegistryIsComplete'
      BY <1>6 DEF RecordChildren, Goto, childVars, EvaluationIsSupervised,
         RegistryIsComplete, Idle
    <2> QED BY <2>1, <2>2, <2>3, <2>4, <2>5
  <1>7. CASE AnnounceVariant
    <2>1. TypeOK'
      BY <1>7 DEF AnnounceVariant, Goto, childVars, TypeOK, WorkerSteps,
         SupervisorSteps, Variants
    <2>2. PatienceOutlastsGrace'
      BY <1>7 DEF AnnounceVariant, Goto, childVars, TypeOK,
         PatienceOutlastsGrace
    <2>3. PhasesAreOrdered'
      BY <1>7 DEF AnnounceVariant, Goto, childVars, TypeOK, PhasesAreOrdered,
         Starting, Running
    <2>4. UnwindingStops'
      BY <1>7 DEF AnnounceVariant, Goto, childVars, TypeOK, UnwindingStops,
         Idle
    <2>5. EvaluationIsSupervised' /\ RegistryIsComplete'
      BY <1>7 DEF AnnounceVariant, Goto, childVars, EvaluationIsSupervised,
         RegistryIsComplete, Idle
    <2> QED BY <2>1, <2>2, <2>3, <2>4, <2>5
  <1>8. CASE Watch
    <2>1. TypeOK'
      BY <1>8 DEF Watch, Unwind, Goto, childVars, TypeOK, WorkerSteps,
         SupervisorSteps, Variants
    <2>2. PatienceOutlastsGrace'
      BY <1>8 DEF Watch, Unwind, Goto, childVars, TypeOK, PatienceOutlastsGrace
    <2>3. PhasesAreOrdered'
      BY <1>8 DEF Watch, Unwind, Goto, childVars, TypeOK, PhasesAreOrdered,
         Starting, Running
    <2>4. UnwindingStops'
      BY <1>8 DEF Watch, Unwind, Goto, childVars, TypeOK, UnwindingStops, Idle
    <2>5. EvaluationIsSupervised' /\ RegistryIsComplete'
      BY <1>8 DEF Watch, Unwind, Goto, childVars, EvaluationIsSupervised,
         RegistryIsComplete, Idle
    <2> QED BY <2>1, <2>2, <2>3, <2>4, <2>5
  <1>9. CASE Poll
    <2>1. TypeOK'
      <3>1. step' \in WorkerSteps /\ side' \in Variants
        BY <1>9 DEF Poll, AfterPoll, Goto, TypeOK, WorkerSteps, Variants
      <3>2. /\ outcomes' \in [Variants -> {"clean", "broken", None}]
            /\ pipe' \in [Variants -> BOOLEAN]
            /\ registered' \subseteq Variants
        BY <1>9 DEF Poll, ExitOf, TypeOK
      <3> QED BY <1>9, <3>1, <3>2 DEF Poll, childVars, TypeOK
    <2>2. RegistryIsComplete'
      BY <1>9 DEF Poll, AfterPoll, Goto, childVars, TypeOK, RegistryIsComplete,
         Idle
    <2>3. PatienceOutlastsGrace'
      BY <1>9 DEF Poll, AfterPoll, Goto, childVars, TypeOK,
         PatienceOutlastsGrace
    <2>4. PhasesAreOrdered'
      BY <1>9 DEF Poll, AfterPoll, Goto, childVars, TypeOK, PhasesAreOrdered,
         Starting, Running, Variants
    <2>5. UnwindingStops'
      BY <1>9, NoneIsNoName DEF Poll, AfterPoll, Goto, childVars, TypeOK,
         UnwindingStops, Idle, RegistryIsComplete, PhasesAreOrdered, Starting,
         Running, Variants
    <2>6. EvaluationIsSupervised'
      BY <1>9 DEF Poll, AfterPoll, Goto, childVars, EvaluationIsSupervised
    <2> QED BY <2>1, <2>2, <2>3, <2>4, <2>5, <2>6
  <1>10. CASE Report
    <2>1. TypeOK'
      BY <1>10 DEF Report, Unwind, AfterPoll, Sibling, Goto, childVars, TypeOK,
         WorkerSteps, SupervisorSteps, Variants
    <2>2. PatienceOutlastsGrace'
      BY <1>10 DEF Report, Unwind, AfterPoll, Sibling, Goto, childVars, TypeOK,
         PatienceOutlastsGrace
    <2>3. PhasesAreOrdered'
      BY <1>10, NoneIsNoName DEF Report, Unwind, AfterPoll, Sibling, Goto,
         childVars, TypeOK, PhasesAreOrdered, Starting, Running, Variants
    <2>4. UnwindingStops'
      BY <1>10, NoneIsNoName DEF Report, Unwind, AfterPoll, Sibling, Goto,
         childVars, TypeOK, UnwindingStops, Idle, RegistryIsComplete,
         PhasesAreOrdered, Starting, Running, Variants
    <2>5. EvaluationIsSupervised' /\ RegistryIsComplete'
      BY <1>10 DEF Report, Unwind, AfterPoll, Sibling, Goto, childVars,
         EvaluationIsSupervised, RegistryIsComplete, Idle
    <2> QED BY <2>1, <2>2, <2>3, <2>4, <2>5
  <1>11. CASE NothingToReport
    <2>1. TypeOK'
      BY <1>11 DEF NothingToReport, AfterPoll, Goto, childVars, TypeOK,
         WorkerSteps, SupervisorSteps, Variants
    <2>2. PatienceOutlastsGrace'
      BY <1>11 DEF NothingToReport, AfterPoll, Goto, childVars, TypeOK,
         PatienceOutlastsGrace
    <2>3. PhasesAreOrdered'
      BY <1>11, NoneIsNoName DEF NothingToReport, AfterPoll, Goto, childVars,
         TypeOK, PhasesAreOrdered, Starting, Running
    <2>4. UnwindingStops'
      BY <1>11 DEF NothingToReport, AfterPoll, Goto, childVars, TypeOK,
         UnwindingStops, Idle
    <2>5. EvaluationIsSupervised' /\ RegistryIsComplete'
      BY <1>11 DEF NothingToReport, AfterPoll, Goto, childVars,
         EvaluationIsSupervised, RegistryIsComplete, Idle
    <2> QED BY <2>1, <2>2, <2>3, <2>4, <2>5
  <1>12. CASE StopChild
    <2>1. TypeOK'
      <3>1. step' \in WorkerSteps /\ side' \in Variants
        BY <1>12 DEF StopChild, AfterStop, Goto, TypeOK, WorkerSteps, Variants
      <3>2. patience' \in 0 .. WorkerGrace
        BY <1>12, Graces DEF StopChild, TypeOK
      <3>3. /\ supervisor' \in [Variants -> SupervisorSteps]
            /\ told' \in [Variants -> BOOLEAN]
            /\ verdict' \in [Variants -> {"completed", "stopped", "dead", None}]
        BY <1>12 DEF StopChild, TypeOK, SupervisorSteps
      <3> QED BY <1>12, <3>1, <3>2, <3>3 DEF StopChild, TypeOK
    <2>2. EvaluationIsSupervised'
      BY <1>12 DEF StopChild, AfterStop, Goto, TypeOK, EvaluationIsSupervised
    <2>3. RegistryIsComplete'
      BY <1>12 DEF StopChild, AfterStop, Goto, TypeOK, RegistryIsComplete, Idle
    <2>4. PatienceOutlastsGrace'
      <3>1. CASE side \in registered
        <4>1. side \in Variants /\ supervisor[side] \in SupervisorSteps \ {"unborn"}
          BY <3>1 DEF TypeOK, RegistryIsComplete
        <4>2. grace[side] < WorkerGrace
          BY <4>1, Graces DEF TypeOK
        <4>3. side' = side /\ patience' = WorkerGrace /\ grace' = grace
          BY <1>12, <3>1 DEF StopChild, Goto
        <4>4. CASE supervisor[side] = "booting"
          <5>1. supervisor'[side] = "gone"
            BY <1>12, <3>1, <4>1, <4>4 DEF StopChild, TypeOK
          <5> QED BY <4>3, <5>1 DEF PatienceOutlastsGrace
        <4>5. CASE supervisor[side] # "booting"
          <5>1. told'[side] /\ supervisor' = supervisor
            BY <1>12, <3>1, <4>1, <4>5 DEF StopChild, TypeOK
          <5> QED BY <4>1, <4>2, <4>3, <4>5, <5>1 DEF PatienceOutlastsGrace, SupervisorSteps
        <4> QED BY <4>4, <4>5
      <3>2. CASE side \notin registered
        <4>1. step' # "wait"
          BY <1>12, <3>2 DEF StopChild, AfterStop, Goto, TypeOK
        <4> QED BY <4>1 DEF PatienceOutlastsGrace
      <3> QED BY <3>1, <3>2
    <2>5. PhasesAreOrdered'
      BY <1>12 DEF StopChild, AfterStop, Goto, TypeOK, PhasesAreOrdered,
         Starting, Running, UnwindingStops, Idle
    <2>6. UnwindingStops'
      BY <1>12 DEF StopChild, AfterStop, Goto, TypeOK, UnwindingStops, Idle,
         RegistryIsComplete, Variants
    <2> QED BY <2>1, <2>2, <2>3, <2>4, <2>5, <2>6
  <1>13. CASE ChildStopped
    <2>1. TypeOK'
      <3>1. step' \in WorkerSteps /\ side' \in Variants
        BY <1>13 DEF ChildStopped, AfterStop, Goto, TypeOK, WorkerSteps, Variants
      <3>2. /\ outcomes' \in [Variants -> {"clean", "broken", None}]
            /\ pipe' \in [Variants -> BOOLEAN]
            /\ registered' \subseteq Variants
            /\ patience' \in 0 .. WorkerGrace
        BY <1>13, Graces DEF ChildStopped, ExitOf, TypeOK
      <3> QED BY <1>13, <3>1, <3>2 DEF ChildStopped, childVars, TypeOK
    <2>2. RegistryIsComplete'
      BY <1>13 DEF ChildStopped, AfterStop, Goto, childVars, TypeOK,
         RegistryIsComplete, Idle
    <2>3. PatienceOutlastsGrace'
      BY <1>13 DEF ChildStopped, AfterStop, Goto, childVars, TypeOK,
         PatienceOutlastsGrace
    <2>4. PhasesAreOrdered'
      BY <1>13 DEF ChildStopped, AfterStop, Goto, childVars, TypeOK,
         PhasesAreOrdered, Starting, Running, UnwindingStops, Idle
    <2>5. UnwindingStops'
      BY <1>13 DEF ChildStopped, AfterStop, Goto, childVars, TypeOK,
         UnwindingStops, Idle, Variants
    <2>6. EvaluationIsSupervised'
      BY <1>13 DEF ChildStopped, AfterStop, Goto, childVars,
         EvaluationIsSupervised
    <2> QED BY <2>1, <2>2, <2>3, <2>4, <2>5, <2>6
  <1>14. CASE Escalate
    <2>1. TypeOK'
      BY <1>14 DEF Escalate, TypeOK, WorkerSteps, SupervisorSteps, Variants
    <2>2. EvaluationIsSupervised'
      BY <1>14, Graces DEF Escalate, TypeOK, EvaluationIsSupervised,
         PatienceOutlastsGrace
    <2>3. RegistryIsComplete'
      BY <1>14 DEF Escalate, TypeOK, RegistryIsComplete, Idle
    <2>4. PatienceOutlastsGrace'
      BY <1>14 DEF Escalate, TypeOK, PatienceOutlastsGrace
    <2>5. PhasesAreOrdered'
      BY <1>14 DEF Escalate, TypeOK, PhasesAreOrdered, Starting, Running
    <2>6. UnwindingStops'
      BY <1>14 DEF Escalate, TypeOK, UnwindingStops, Idle
    <2> QED BY <2>1, <2>2, <2>3, <2>4, <2>5, <2>6
  <1>15. CASE RecordFailure
    <2>1. TypeOK'
      BY <1>15 DEF RecordFailure, EndRun, Goto, childVars, TypeOK, WorkerSteps,
         SupervisorSteps, Variants
    <2>2. PatienceOutlastsGrace'
      BY <1>15 DEF RecordFailure, EndRun, Goto, childVars, TypeOK,
         PatienceOutlastsGrace
    <2>3. PhasesAreOrdered'
      BY <1>15 DEF RecordFailure, EndRun, Goto, childVars, TypeOK,
         PhasesAreOrdered, Starting, Running
    <2>4. UnwindingStops'
      BY <1>15 DEF RecordFailure, EndRun, Goto, childVars, TypeOK,
         UnwindingStops, Idle
    <2>5. EvaluationIsSupervised' /\ RegistryIsComplete'
      BY <1>15 DEF RecordFailure, EndRun, Goto, childVars,
         EvaluationIsSupervised, RegistryIsComplete, Idle
    <2> QED BY <2>1, <2>2, <2>3, <2>4, <2>5
  <1>16. CASE RecordCancelled
    <2>1. TypeOK'
      BY <1>16 DEF RecordCancelled, EndRun, Goto, childVars, TypeOK,
         WorkerSteps, SupervisorSteps, Variants
    <2>2. PatienceOutlastsGrace'
      BY <1>16 DEF RecordCancelled, EndRun, Goto, childVars, TypeOK,
         PatienceOutlastsGrace
    <2>3. PhasesAreOrdered'
      BY <1>16 DEF RecordCancelled, EndRun, Goto, childVars, TypeOK,
         PhasesAreOrdered, Starting, Running
    <2>4. UnwindingStops'
      BY <1>16 DEF RecordCancelled, EndRun, Goto, childVars, TypeOK,
         UnwindingStops, Idle
    <2>5. EvaluationIsSupervised' /\ RegistryIsComplete'
      BY <1>16 DEF RecordCancelled, EndRun, Goto, childVars,
         EvaluationIsSupervised, RegistryIsComplete, Idle
    <2> QED BY <2>1, <2>2, <2>3, <2>4, <2>5
  <1>17. CASE WorkFails
    <2>1. TypeOK'
      BY <1>17, Graces DEF WorkFails, Fault, Goto, childVars, TypeOK,
         WorkerSteps, SupervisorSteps, Variants
    <2>2. PatienceOutlastsGrace'
      BY <1>17 DEF WorkFails, Fault, Goto, childVars, TypeOK,
         PatienceOutlastsGrace
    <2>3. PhasesAreOrdered'
      BY <1>17 DEF WorkFails, Fault, Goto, childVars, TypeOK, PhasesAreOrdered,
         Starting, Running
    <2>4. UnwindingStops'
      BY <1>17 DEF WorkFails, Fault, Goto, childVars, TypeOK, UnwindingStops,
         Idle
    <2>5. EvaluationIsSupervised' /\ RegistryIsComplete'
      BY <1>17 DEF WorkFails, Fault, Goto, childVars, EvaluationIsSupervised,
         RegistryIsComplete, Idle
    <2> QED BY <2>1, <2>2, <2>3, <2>4, <2>5
  <1>18. CASE WorkerKilled
    <2>1. TypeOK'
      BY <1>18, Graces DEF WorkerKilled, Fault, Goto, childVars, TypeOK,
         WorkerSteps, SupervisorSteps, Variants
    <2>2. PatienceOutlastsGrace'
      BY <1>18 DEF WorkerKilled, Fault, Goto, childVars, TypeOK,
         PatienceOutlastsGrace
    <2>3. PhasesAreOrdered'
      BY <1>18 DEF WorkerKilled, Fault, Goto, childVars, TypeOK,
         PhasesAreOrdered, Starting, Running
    <2>4. UnwindingStops'
      BY <1>18 DEF WorkerKilled, Fault, Goto, childVars, TypeOK,
         UnwindingStops, Idle
    <2>5. EvaluationIsSupervised' /\ RegistryIsComplete'
      BY <1>18 DEF WorkerKilled, Fault, Goto, childVars,
         EvaluationIsSupervised, RegistryIsComplete, Idle
    <2> QED BY <2>1, <2>2, <2>3, <2>4, <2>5
  <1>19. CASE AskToStop
    <2>1. TypeOK'
      BY <1>19 DEF AskToStop, childVars, TypeOK, WorkerSteps, SupervisorSteps,
         Variants
    <2>2. UnwindingStops'
      BY <1>19 DEF AskToStop, childVars, TypeOK, UnwindingStops, Idle
    <2>3. EvaluationIsSupervised' /\ RegistryIsComplete' /\ PatienceOutlastsGrace' /\ PhasesAreOrdered'
      BY <1>19 DEF AskToStop, childVars, EvaluationIsSupervised,
         RegistryIsComplete, Idle, PatienceOutlastsGrace, PhasesAreOrdered,
         Starting, Running
    <2> QED BY <2>1, <2>2, <2>3
  <1>20. ASSUME NEW v \in Variants, InstallHandlers(v) PROVE Inv'
    <2>1. TypeOK'
      BY <1>20 DEF InstallHandlers, Supervise, workerVars, TypeOK, WorkerSteps,
         SupervisorSteps, Variants
    <2>2. EvaluationIsSupervised'
      BY <1>20 DEF InstallHandlers, Supervise, workerVars, TypeOK,
         EvaluationIsSupervised
    <2>3. RegistryIsComplete'
      BY <1>20 DEF InstallHandlers, Supervise, workerVars, TypeOK,
         RegistryIsComplete, Idle
    <2>4. PatienceOutlastsGrace'
      BY <1>20 DEF InstallHandlers, Supervise, workerVars, TypeOK,
         PatienceOutlastsGrace
    <2>5. PhasesAreOrdered'
      BY <1>20 DEF InstallHandlers, Supervise, workerVars, TypeOK,
         PhasesAreOrdered, Starting, Running
    <2>6. UnwindingStops'
      BY <1>20 DEF InstallHandlers, Supervise, workerVars, TypeOK,
         UnwindingStops, Idle
    <2> QED BY <2>1, <2>2, <2>3, <2>4, <2>5, <2>6
  <1>21. ASSUME NEW v \in Variants, LaunchEvaluation(v) PROVE Inv'
    <2>1. TypeOK'
      BY <1>21 DEF LaunchEvaluation, Supervise, workerVars, TypeOK,
         WorkerSteps, SupervisorSteps, Variants
    <2>2. EvaluationIsSupervised'
      BY <1>21 DEF LaunchEvaluation, Supervise, workerVars, TypeOK,
         EvaluationIsSupervised
    <2>3. RegistryIsComplete'
      BY <1>21 DEF LaunchEvaluation, Supervise, workerVars, TypeOK,
         RegistryIsComplete, Idle
    <2>4. PatienceOutlastsGrace'
      BY <1>21 DEF LaunchEvaluation, Supervise, workerVars, TypeOK,
         PatienceOutlastsGrace
    <2>5. PhasesAreOrdered'
      BY <1>21 DEF LaunchEvaluation, Supervise, workerVars, TypeOK,
         PhasesAreOrdered, Starting, Running
    <2>6. UnwindingStops'
      BY <1>21 DEF LaunchEvaluation, Supervise, workerVars, TypeOK,
         UnwindingStops, Idle
    <2> QED BY <2>1, <2>2, <2>3, <2>4, <2>5, <2>6
  <1>22. ASSUME NEW v \in Variants, LaunchFails(v) PROVE Inv'
    <2>1. TypeOK'
      BY <1>22 DEF LaunchFails, Supervise, workerVars, TypeOK, WorkerSteps,
         SupervisorSteps, Variants
    <2>2. EvaluationIsSupervised'
      BY <1>22 DEF LaunchFails, Supervise, workerVars, TypeOK,
         EvaluationIsSupervised
    <2>3. RegistryIsComplete'
      BY <1>22 DEF LaunchFails, Supervise, workerVars, TypeOK,
         RegistryIsComplete, Idle
    <2>4. PatienceOutlastsGrace'
      BY <1>22 DEF LaunchFails, Supervise, workerVars, TypeOK,
         PatienceOutlastsGrace
    <2>5. PhasesAreOrdered'
      BY <1>22 DEF LaunchFails, Supervise, workerVars, TypeOK,
         PhasesAreOrdered, Starting, Running
    <2>6. UnwindingStops'
      BY <1>22 DEF LaunchFails, Supervise, workerVars, TypeOK, UnwindingStops,
         Idle
    <2> QED BY <2>1, <2>2, <2>3, <2>4, <2>5, <2>6
  <1>23. ASSUME NEW v \in Variants, SeeExit(v) PROVE Inv'
    <2>1. TypeOK'
      BY <1>23 DEF SeeExit, Supervise, workerVars, TypeOK, WorkerSteps,
         SupervisorSteps, Variants
    <2>2. EvaluationIsSupervised'
      BY <1>23 DEF SeeExit, Supervise, workerVars, TypeOK,
         EvaluationIsSupervised
    <2>3. RegistryIsComplete'
      BY <1>23 DEF SeeExit, Supervise, workerVars, TypeOK, RegistryIsComplete,
         Idle
    <2>4. PatienceOutlastsGrace'
      BY <1>23 DEF SeeExit, Supervise, workerVars, TypeOK,
         PatienceOutlastsGrace
    <2>5. PhasesAreOrdered'
      BY <1>23 DEF SeeExit, Supervise, workerVars, TypeOK, PhasesAreOrdered,
         Starting, Running
    <2>6. UnwindingStops'
      BY <1>23 DEF SeeExit, Supervise, workerVars, TypeOK, UnwindingStops, Idle
    <2> QED BY <2>1, <2>2, <2>3, <2>4, <2>5, <2>6
  <1>24. ASSUME NEW v \in Variants, BeginStopping(v) PROVE Inv'
    <2>1. TypeOK'
      BY <1>24, Graces DEF BeginStopping, Supervise, workerVars, TypeOK,
         WorkerSteps, SupervisorSteps, Variants
    <2>2. EvaluationIsSupervised'
      BY <1>24 DEF BeginStopping, Supervise, workerVars, TypeOK,
         EvaluationIsSupervised
    <2>3. RegistryIsComplete'
      BY <1>24 DEF BeginStopping, Supervise, workerVars, TypeOK,
         RegistryIsComplete, Idle
    <2>4. PatienceOutlastsGrace'
      BY <1>24, Graces DEF BeginStopping, Supervise, workerVars, TypeOK,
         PatienceOutlastsGrace
    <2>5. PhasesAreOrdered'
      BY <1>24 DEF BeginStopping, Supervise, workerVars, TypeOK,
         PhasesAreOrdered, Starting, Running
    <2>6. UnwindingStops'
      BY <1>24 DEF BeginStopping, Supervise, workerVars, TypeOK,
         UnwindingStops, Idle
    <2> QED BY <2>1, <2>2, <2>3, <2>4, <2>5, <2>6
  <1>25. ASSUME NEW v \in Variants, SeeStopped(v) PROVE Inv'
    <2>1. TypeOK'
      BY <1>25, Graces DEF SeeStopped, Supervise, workerVars, TypeOK,
         WorkerSteps, SupervisorSteps, Variants
    <2>2. EvaluationIsSupervised'
      BY <1>25 DEF SeeStopped, Supervise, workerVars, TypeOK,
         EvaluationIsSupervised
    <2>3. RegistryIsComplete'
      BY <1>25 DEF SeeStopped, Supervise, workerVars, TypeOK,
         RegistryIsComplete, Idle
    <2>4. PatienceOutlastsGrace'
      BY <1>25 DEF SeeStopped, Supervise, workerVars, TypeOK,
         PatienceOutlastsGrace
    <2>5. PhasesAreOrdered'
      BY <1>25 DEF SeeStopped, Supervise, workerVars, TypeOK, PhasesAreOrdered,
         Starting, Running
    <2>6. UnwindingStops'
      BY <1>25 DEF SeeStopped, Supervise, workerVars, TypeOK, UnwindingStops,
         Idle
    <2> QED BY <2>1, <2>2, <2>3, <2>4, <2>5, <2>6
  <1>26. ASSUME NEW v \in Variants, KillEvaluation(v) PROVE Inv'
    <2>1. TypeOK'
      BY <1>26 DEF KillEvaluation, Supervise, workerVars, TypeOK, WorkerSteps,
         SupervisorSteps, Variants
    <2>2. EvaluationIsSupervised'
      BY <1>26 DEF KillEvaluation, Supervise, workerVars, TypeOK,
         EvaluationIsSupervised
    <2>3. RegistryIsComplete'
      BY <1>26 DEF KillEvaluation, Supervise, workerVars, TypeOK,
         RegistryIsComplete, Idle
    <2>4. PatienceOutlastsGrace'
      BY <1>26 DEF KillEvaluation, Supervise, workerVars, TypeOK,
         PatienceOutlastsGrace
    <2>5. PhasesAreOrdered'
      BY <1>26 DEF KillEvaluation, Supervise, workerVars, TypeOK,
         PhasesAreOrdered, Starting, Running
    <2>6. UnwindingStops'
      BY <1>26 DEF KillEvaluation, Supervise, workerVars, TypeOK,
         UnwindingStops, Idle
    <2> QED BY <2>1, <2>2, <2>3, <2>4, <2>5, <2>6
  <1>27. ASSUME NEW v \in Variants, Reap(v) PROVE Inv'
    <2>1. TypeOK'
      BY <1>27 DEF Reap, Supervise, workerVars, TypeOK, WorkerSteps,
         SupervisorSteps, Variants
    <2>2. EvaluationIsSupervised'
      BY <1>27 DEF Reap, Supervise, workerVars, TypeOK, EvaluationIsSupervised
    <2>3. RegistryIsComplete'
      BY <1>27 DEF Reap, Supervise, workerVars, TypeOK, RegistryIsComplete,
         Idle
    <2>4. PatienceOutlastsGrace'
      BY <1>27 DEF Reap, Supervise, workerVars, TypeOK, PatienceOutlastsGrace
    <2>5. PhasesAreOrdered'
      BY <1>27 DEF Reap, Supervise, workerVars, TypeOK, PhasesAreOrdered,
         Starting, Running
    <2>6. UnwindingStops'
      BY <1>27 DEF Reap, Supervise, workerVars, TypeOK, UnwindingStops, Idle
    <2> QED BY <2>1, <2>2, <2>3, <2>4, <2>5, <2>6
  <1>28. ASSUME NEW v \in Variants, WriteRecord(v) PROVE Inv'
    <2>1. TypeOK'
      BY <1>28 DEF WriteRecord, Supervise, workerVars, TypeOK, WorkerSteps,
         SupervisorSteps, Variants
    <2>2. EvaluationIsSupervised'
      BY <1>28 DEF WriteRecord, Supervise, workerVars, TypeOK,
         EvaluationIsSupervised
    <2>3. RegistryIsComplete'
      BY <1>28 DEF WriteRecord, Supervise, workerVars, TypeOK,
         RegistryIsComplete, Idle
    <2>4. PatienceOutlastsGrace'
      BY <1>28 DEF WriteRecord, Supervise, workerVars, TypeOK,
         PatienceOutlastsGrace
    <2>5. PhasesAreOrdered'
      BY <1>28 DEF WriteRecord, Supervise, workerVars, TypeOK,
         PhasesAreOrdered, Starting, Running
    <2>6. UnwindingStops'
      BY <1>28 DEF WriteRecord, Supervise, workerVars, TypeOK, UnwindingStops,
         Idle
    <2> QED BY <2>1, <2>2, <2>3, <2>4, <2>5, <2>6
  <1>29. ASSUME NEW v \in Variants, EvaluationEnds(v) PROVE Inv'
    <2>1. TypeOK'
      BY <1>29 DEF EvaluationEnds, workerVars, TypeOK, WorkerSteps,
         SupervisorSteps, Variants
    <2>2. EvaluationIsSupervised'
      BY <1>29 DEF EvaluationEnds, workerVars, TypeOK, EvaluationIsSupervised
    <2>3. RegistryIsComplete' /\ PatienceOutlastsGrace' /\ PhasesAreOrdered' /\ UnwindingStops'
      BY <1>29 DEF EvaluationEnds, workerVars, RegistryIsComplete, Idle,
         PatienceOutlastsGrace, PhasesAreOrdered, Starting, Running,
         UnwindingStops
    <2> QED BY <2>1, <2>2, <2>3
  <1>30. ASSUME NEW v \in Variants, EvaluationDies(v) PROVE Inv'
    <2>1. TypeOK'
      BY <1>30 DEF EvaluationDies, workerVars, TypeOK, WorkerSteps,
         SupervisorSteps, Variants
    <2>2. EvaluationIsSupervised'
      BY <1>30 DEF EvaluationDies, workerVars, TypeOK, EvaluationIsSupervised
    <2>3. RegistryIsComplete' /\ PatienceOutlastsGrace' /\ PhasesAreOrdered' /\ UnwindingStops'
      BY <1>30 DEF EvaluationDies, workerVars, RegistryIsComplete, Idle,
         PatienceOutlastsGrace, PhasesAreOrdered, Starting, Running,
         UnwindingStops
    <2> QED BY <2>1, <2>2, <2>3
  <1>31. CASE Tick
    <2>1. TypeOK'
      BY <1>31, Graces DEF Tick, Prompt, TypeOK, WorkerSteps, SupervisorSteps,
         Variants
    <2>2. PatienceOutlastsGrace'
      BY <1>31 DEF Tick, Prompt, TypeOK, PatienceOutlastsGrace
    <2>3. EvaluationIsSupervised' /\ RegistryIsComplete' /\ PhasesAreOrdered' /\ UnwindingStops'
      BY <1>31 DEF Tick, Prompt, EvaluationIsSupervised, RegistryIsComplete,
         Idle, PhasesAreOrdered, Starting, Running, UnwindingStops
    <2> QED BY <2>1, <2>2, <2>3
  <1> QED BY <1>1, <1>2, <1>3, <1>4, <1>5, <1>6, <1>7, <1>8, <1>9, <1>10,
     <1>11, <1>12, <1>13, <1>14, <1>15, <1>16, <1>17, <1>18, <1>19, <1>20,
     <1>21, <1>22, <1>23, <1>24, <1>25, <1>26, <1>27, <1>28, <1>29, <1>30,
     <1>31 DEF Next, WorkerStep, SupervisorStep, SeeSignal, SeeEndOfFile,
     SeeDeadline

-----------------------------------------------------------------------------
\* Every variable of the worker, its supervisors and their evaluations keeps to
\* its domain, the patience and the graces with them.
THEOREM EvaluationPairTypes == Spec => []TypeOK
  <1>1. Inv => TypeOK
    BY DEF Inv
  <1> QED BY <1>1, InitInv, StepInv, PTL DEF Spec

\* Whatever the graces, as long as the worker's is the longer, an evaluation never
\* runs on after the supervisor that bounds it, also not when the worker kills
\* that supervisor for not having stopped in time.
THEOREM NoOrphanEvaluation == Spec => []NoEvaluationOutlivesItsSupervisor
  <1>1. Inv => NoEvaluationOutlivesItsSupervisor
    BY DEF Inv, EvaluationIsSupervised, NoEvaluationOutlivesItsSupervisor
  <1> QED BY <1>1, InitInv, StepInv, PTL DEF Spec

\* A pair is recorded as failed only when neither of its evaluations runs, unless
\* an error nothing handles broke the worker's loop.
THEOREM FailureFollowsTheStop == Spec => []FailedPairIsStopped
  <1>1. Inv => FailedPairIsStopped
    BY DEF Inv, UnwindingStops, Idle, EvaluationIsSupervised, FailedPairIsStopped
  <1> QED BY <1>1, InitInv, StepInv, PTL DEF Spec

=============================================================================
