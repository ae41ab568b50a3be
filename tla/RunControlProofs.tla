-------------------------- MODULE RunControlProofs --------------------------
(***************************************************************************)
(* Theorems about RunControl, for any number of starts, workers and        *)
(* cancellations of one draft, any executor and any number of faults: its  *)
(* types, that a completed run names the report on disk, that the draft's  *)
(* start record tells the truth, and that a worker which is gone left its  *)
(* run ended, but for the three ways out the code has beside that.         *)
(***************************************************************************)
EXTENDS RunControl, FiniteSetTheorems, TLAPS

\* A run past its creation has a worker's name, was asked to stop or has ended.
NamedOrStopping == run.worker_pid # None \/ run.cancel_requested_at # None \/ Ended

RunIsAccountedFor == run # None => run.phase = "created" \/ NamedOrStopping

BeforeLaunch == {"claim", "find", "create", "approve", "stage", "rename", "look", "launch"}

WithRun == {"approve", "stage", "rename", "look", "launch", "look_again", "write_pid",
            "mark_launched", "mark_unnamed", "fail_look", "fail_append", "mark_failed"}

\* What a start relies on at each of its steps.
StartersKnow ==
  \A s \in Starters :
    /\ starter[s] \in WithRun => run # None
    /\ starter[s] \in BeforeLaunch => launched[s] = None
    /\ starter[s] \in {"look_again", "write_pid"} => launched[s] \in Pids
    /\ starter[s] = "mark_launched" => NamedOrStopping
    /\ starter[s] = "mark_failed" => Ended

\* Only the start that created the run may approve it, and only once.
OneApproval ==
  /\ run = None => approvals = 0
  /\ \A s \in Starters : starter[s] = "approve" =>
       approvals = 0 /\ \A t \in Starters \ {s} : starter[t] # "approve"

\* Every worker was launched by a start, each start launching one at most.
WorkersWereLaunched ==
  \A w \in Pids : worker[w] # "unborn" => run # None /\ \E s \in Starters : launched[s] = w

\* What a worker relies on at each of its steps.
WorkersKnow ==
  \A w \in Pids :
    /\ worker[w] \in Handling \union {"install"} => run.worker_pid # None
    /\ worker[w] = "complete" => report = w
    /\ worker[w] \in {"verify", "exited"} => Ended
    /\ worker[w] = "stop" => run.phase = "cancel_requested" \/ Ended

\* A worker enters phases of its plan only, and the last one last.
WorkersFollowThePlan ==
  \A w \in Pids :
    /\ \E n \in 1 .. Len(Plan[executor]) : at[w] = Plan[executor][n]
    /\ worker[w] \in {"unborn", "announce", "write_pid", "install", "check", "advance"}
         => at[w] # "building_report"

CancellersKnow == \A c \in Cancellers : canceller[c] \in {"ask", "signal"} => run # None

Inv ==
  /\ TypeOK
  /\ RunIsAccountedFor
  /\ StartersKnow
  /\ OneApproval
  /\ WorkersWereLaunched
  /\ WorkersKnow
  /\ WorkersFollowThePlan
  /\ CancellersKnow
  /\ CompletedNamesItsReport
  /\ StartRecordHolds

-----------------------------------------------------------------------------
(* What the store accepts, and what recording an event does to the run *)

\* The machine ends a run in three phases.
LEMMA TerminalOnes ==
  ASSUME NEW phase \in Phases
  PROVE  IsTerminal(phase) <=> phase \in TerminalPhases
  BY DEF IsTerminal, AllowedTransitions, Phases, WorkingPhases, TerminalPhases, NextOnPath

\* What an accepted event leaves of the run it is recorded against.
RunGoesOn ==
  /\ run \in RunStates /\ run # None
  /\ run' \in RunStates /\ run' # None
  /\ run.worker_pid # None => run'.worker_pid # None
  /\ run.cancel_requested_at # None => run'.cancel_requested_at # None
  /\ run.phase = "cancel_requested" => run'.phase \in {"cancel_requested", "cancelled", "failed"}
  /\ run.phase \notin TerminalPhases /\ ~Ended

\* The state a run is created in.
LEMMA CreatedState ==
  /\ Project(OpeningState, CreatedEvent) \in RunStates
  /\ Project(OpeningState, CreatedEvent).phase = "created"
  /\ Project(OpeningState, CreatedEvent).worker_pid = None
  BY DEF Project, OpeningState, CreatedEvent, RunStates, VariantKinds, Phases, WorkingPhases

\* The state after an event, whatever allowed it to be recorded.
LEMMA Recording ==
  ASSUME run \in RunStates, NEW phase \in Phases \union {None}, NEW kind \in EventKinds,
         NEW detail \in DetailsOf(kind), RecordEvent(phase, kind, detail)
  PROVE  /\ run' \in RunStates
         /\ run'.phase = IF phase = None THEN run.phase ELSE phase
         /\ run'.worker_pid = IF kind = "worker.started" THEN detail ELSE run.worker_pid
         /\ run'.result_digest = IF kind \in {"result.written", "run.completed"}
                                 THEN detail ELSE run.result_digest
         /\ run'.cancel_requested_at = None
              <=> run.cancel_requested_at = None /\ kind # "cancel.requested"
  <1> DEFINE event == EventAfter(run, phase, kind, detail)
             state == Project(run, event)
  <1>1. /\ event.phase = IF phase = None THEN run.phase ELSE phase
        /\ event.phase \in Phases
        /\ event.kind = kind /\ event.detail = detail
        /\ event.sequence = 1
    BY DEF EventAfter, RunStates
  <1>2. /\ kind = "worker.started" => detail \in Pids
        /\ kind \in {"result.written", "run.completed"} => detail \in Digests
    BY DEF DetailsOf, VariantKinds
  <1> HIDE DEF event
  <1>3. /\ state.phase = event.phase
        /\ state.worker_pid = IF kind = "worker.started" THEN detail ELSE run.worker_pid
        /\ state.result_digest = IF kind \in {"result.written", "run.completed"}
                                 THEN detail ELSE run.result_digest
        /\ state.cancel_requested_at = IF kind = "cancel.requested" THEN 1
                                       ELSE run.cancel_requested_at
        /\ state = [phase |-> state.phase, sequence |-> state.sequence,
                    worker_pid |-> state.worker_pid,
                    worker_started_at |-> state.worker_started_at,
                    cancel_requested_at |-> state.cancel_requested_at,
                    error |-> state.error, progress |-> state.progress,
                    variant_progress |-> state.variant_progress,
                    result_digest |-> state.result_digest]
    BY <1>1 DEF Project
  <1> HIDE DEF state
  <1>4. run' = [phase |-> state.phase, sequence |-> 0,
                worker_pid |-> state.worker_pid,
                worker_started_at |-> None,
                cancel_requested_at |-> IF state.cancel_requested_at = None THEN None ELSE 0,
                error |-> IF state.error = None THEN None ELSE 0,
                progress |-> None,
                variant_progress |-> OpeningState.variant_progress,
                result_digest |-> state.result_digest]
    <2>1. run' = Forget(state)
      BY DEF RecordEvent, state, event
    <2> QED BY <1>3, <2>1 DEF Forget
  <1>5. 0 # None /\ 1 # None
    BY NoneIsNoValue
  <1> QED BY <1>1, <1>2, <1>3, <1>4, <1>5 DEF RunStates

\* The store records nothing against a run that has ended, and nothing but its end
\* against one that is stopping.
LEMMA AcceptedEvent ==
  ASSUME run \in RunStates, NEW phase \in Phases \union {None}, NEW kind \in EventKinds,
         NEW detail \in DetailsOf(kind), Accepts(phase, kind, detail),
         RecordEvent(phase, kind, detail)
  PROVE  RunGoesOn
  <1> DEFINE target == IF phase = None THEN run.phase ELSE phase
  <1>1. PhaseAllows(run.phase, EventAfter(run, phase, kind, detail))
    BY DEF Accepts, Applies
  <1>2. EventAfter(run, phase, kind, detail).phase = target
    BY DEF EventAfter
  <1>3. run.phase \in Phases
    BY DEF RunStates
  <1>4. ~IsTerminal(run.phase)
    BY <1>1, <1>2 DEF PhaseAllows, IsTerminal
  <1>5. run.phase = "cancel_requested" => target \in {"cancel_requested", "cancelled", "failed"}
    <2>1. AllowedTransitions["cancel_requested"] = {"cancelled", "failed"}
      BY DEF AllowedTransitions, Phases, WorkingPhases, TerminalPhases
    <2> QED BY <1>1, <1>2, <2>1 DEF PhaseAllows
  <1>6. /\ run' \in RunStates
        /\ run'.phase = target
        /\ run'.worker_pid = IF kind = "worker.started" THEN detail ELSE run.worker_pid
        /\ run'.cancel_requested_at = None
             <=> run.cancel_requested_at = None /\ kind # "cancel.requested"
    BY Recording
  <1>7. kind = "worker.started" => detail # None
    BY NoneIsNoValue DEF DetailsOf
  <1>8. run.phase \notin TerminalPhases
    BY <1>3, <1>4, TerminalOnes
  <1> QED BY <1>4, <1>5, <1>6, <1>7, <1>8, NoneIsNoRun DEF RunGoesOn, Ended

\* A run that has not ended can always be failed.
LEMMA FailureIsAccepted ==
  ASSUME run \in RunStates, ~Ended
  PROVE  Accepts("failed", "run.failed", None)
  <1>1. run.phase \in Phases \ TerminalPhases /\ run.phase # None
    BY TerminalOnes, NoneIsNoRun, NoneIsNoPhase DEF Ended, RunStates
  <1>2. "failed" \in AllowedTransitions[run.phase]
    BY <1>1 DEF AllowedTransitions, Phases, WorkingPhases, TerminalPhases, NextOnPath
  <1> DEFINE event == EventAfter(run, "failed", "run.failed", None)
  <1>3. /\ event.sequence = run.sequence + 1 /\ event.previous_phase = run.phase
        /\ event.phase = "failed" /\ event.kind = "run.failed" /\ event.detail = None
    BY NoneIsNoPhase DEF EventAfter, Phases, TerminalPhases
  <1> HIDE DEF event
  <1>4. KindAgrees(event)
    BY <1>1, <1>3 DEF KindAgrees, EventKinds, ExclusiveKind, OnlyInPhase, RequiredPreviousPhase,
           SamePhaseKinds, VariantKinds, DetailsOf, TerminalPhases
  <1>5. PhaseAllows(run.phase, event)
    BY <1>1, <1>2, <1>3 DEF PhaseAllows, TerminalPhases
  <1> QED BY <1>3, <1>4, <1>5 DEF Accepts, Applies, event

\* A run that is stopping can always be cancelled.
LEMMA CancellationIsAccepted ==
  ASSUME run \in RunStates, run.phase = "cancel_requested"
  PROVE  Accepts("cancelled", "run.cancelled", None)
  <1>1. "cancelled" \in AllowedTransitions[run.phase]
    BY DEF AllowedTransitions, Phases, WorkingPhases, TerminalPhases
  <1> DEFINE event == EventAfter(run, "cancelled", "run.cancelled", None)
  <1>2. /\ event.sequence = run.sequence + 1 /\ event.previous_phase = run.phase
        /\ event.phase = "cancelled" /\ event.kind = "run.cancelled" /\ event.detail = None
    BY NoneIsNoPhase DEF EventAfter, Phases, TerminalPhases
  <1>3. run.phase # None
    BY NoneIsNoPhase DEF Phases
  <1> HIDE DEF event
  <1>4. KindAgrees(event)
    BY <1>2, <1>3 DEF KindAgrees, EventKinds, ExclusiveKind, OnlyInPhase, RequiredPreviousPhase,
           SamePhaseKinds, VariantKinds, DetailsOf, TerminalPhases
  <1>5. PhaseAllows(run.phase, event)
    BY <1>1, <1>2 DEF PhaseAllows
  <1> QED BY <1>2, <1>4, <1>5 DEF Accepts, Applies, event

\* A worker can be named as long as the run is in the phase it was created in.
LEMMA NameIsAccepted ==
  ASSUME run \in RunStates, run.phase = "created", NEW pid \in Pids
  PROVE  Accepts(None, "worker.started", pid)
  <1>1. ~IsTerminal("created")
    BY TerminalOnes DEF Phases, WorkingPhases, TerminalPhases
  <1> DEFINE event == EventAfter(run, None, "worker.started", pid)
  <1>2. /\ event.sequence = run.sequence + 1 /\ event.previous_phase = run.phase
        /\ event.phase = "created" /\ event.kind = "worker.started" /\ event.detail = pid
    BY DEF EventAfter
  <1>3. "created" # None
    BY NoneIsNoPhase DEF Phases, WorkingPhases
  <1> HIDE DEF event
  <1>4. KindAgrees(event)
    BY <1>2, <1>3 DEF KindAgrees, EventKinds, ExclusiveKind, OnlyInPhase, RequiredPreviousPhase,
           SamePhaseKinds, VariantKinds, DetailsOf, TerminalPhases
  <1>5. PhaseAllows(run.phase, event)
    BY <1>1, <1>2 DEF PhaseAllows, SamePhaseKinds
  <1> QED BY <1>2, <1>4, <1>5 DEF Accepts, Applies, event

\* A worker is named unless the run has left the phase it was created in.
LEMMA Naming ==
  ASSUME run \in RunStates, NEW pid \in Pids,
         Accepts(None, "worker.started", pid) => RecordEvent(None, "worker.started", pid),
         ~Accepts(None, "worker.started", pid) => run' = run
  PROVE  IF Accepts(None, "worker.started", pid)
         THEN RunGoesOn /\ run'.phase = run.phase /\ run'.worker_pid # None
         ELSE run' = run /\ run.phase # "created"
  <1>1. CASE Accepts(None, "worker.started", pid)
    <2>1. "worker.started" \in EventKinds /\ pid \in DetailsOf("worker.started") /\ pid # None
      BY NoneIsNoValue DEF EventKinds, DetailsOf, VariantKinds
    <2>2. RecordEvent(None, "worker.started", pid)
      BY <1>1
    <2>3. RunGoesOn
      BY <1>1, <2>1, <2>2, AcceptedEvent
    <2>4. run'.phase = run.phase /\ run'.worker_pid = pid
      BY <2>1, <2>2, Recording
    <2> QED BY <1>1, <2>1, <2>3, <2>4
  <1>2. CASE ~Accepts(None, "worker.started", pid)
    BY <1>2, NameIsAccepted
  <1> QED BY <1>1, <1>2

\* A failure ends a run that has not ended.
LEMMA Failing ==
  ASSUME run \in RunStates,
         Accepts("failed", "run.failed", None) => RecordEvent("failed", "run.failed", None),
         ~Accepts("failed", "run.failed", None) => run' = run
  PROVE  \/ RunGoesOn /\ run'.phase = "failed" /\ Ended'
         \/ run' = run /\ Ended
  <1>1. CASE Accepts("failed", "run.failed", None)
    <2>1. /\ "run.failed" \in EventKinds /\ None \in DetailsOf("run.failed")
          /\ "failed" \in Phases /\ "failed" # None /\ IsTerminal("failed")
      BY NoneIsNoPhase, TerminalOnes DEF EventKinds, DetailsOf, VariantKinds, Phases, TerminalPhases
    <2>2. RecordEvent("failed", "run.failed", None)
      BY <1>1
    <2>3. RunGoesOn
      BY <1>1, <2>1, <2>2, AcceptedEvent
    <2>4. run' \in RunStates /\ run'.phase = "failed"
      BY <2>1, <2>2, Recording
    <2> QED BY <2>1, <2>3, <2>4, NoneIsNoRun DEF Ended
  <1>2. CASE ~Accepts("failed", "run.failed", None)
    BY <1>2, FailureIsAccepted
  <1> QED BY <1>1, <1>2

\* A cancellation ends a run that is stopping.
LEMMA Cancelling ==
  ASSUME run \in RunStates, run.phase = "cancel_requested" \/ Ended,
         Accepts("cancelled", "run.cancelled", None) => RecordEvent("cancelled", "run.cancelled", None),
         ~Accepts("cancelled", "run.cancelled", None) => run' = run
  PROVE  \/ RunGoesOn /\ run'.phase = "cancelled" /\ Ended'
         \/ run' = run /\ Ended
  <1>1. CASE Accepts("cancelled", "run.cancelled", None)
    <2>1. /\ "run.cancelled" \in EventKinds /\ None \in DetailsOf("run.cancelled")
          /\ "cancelled" \in Phases /\ "cancelled" # None /\ IsTerminal("cancelled")
      BY NoneIsNoPhase, TerminalOnes DEF EventKinds, DetailsOf, VariantKinds, Phases, TerminalPhases
    <2>2. RecordEvent("cancelled", "run.cancelled", None)
      BY <1>1
    <2>3. RunGoesOn
      BY <1>1, <2>1, <2>2, AcceptedEvent
    <2>4. run' \in RunStates /\ run'.phase = "cancelled"
      BY <2>1, <2>2, Recording
    <2> QED BY <2>1, <2>3, <2>4, NoneIsNoRun DEF Ended
  <1>2. CASE ~Accepts("cancelled", "run.cancelled", None)
    BY <1>2, CancellationIsAccepted
  <1> QED BY <1>1, <1>2

\* A report, and the completion that names it, carry the digest of the report.
LEMMA Reporting ==
  ASSUME run \in RunStates, NEW w \in Pids,
         Accepts(None, "result.written", w), RecordEvent(None, "result.written", w)
  PROVE  RunGoesOn /\ run'.phase = run.phase
  <1>1. "result.written" \in EventKinds /\ w \in DetailsOf("result.written")
    BY ControlConstants DEF EventKinds, DetailsOf, VariantKinds
  <1> QED BY <1>1, AcceptedEvent, Recording

LEMMA Completing ==
  ASSUME run \in RunStates, NEW w \in Pids,
         Accepts("completed", "run.completed", w), RecordEvent("completed", "run.completed", w)
  PROVE  RunGoesOn /\ run'.phase = "completed" /\ Ended' /\ run'.result_digest = w
  <1>1. /\ "run.completed" \in EventKinds /\ w \in DetailsOf("run.completed")
        /\ "completed" \in Phases /\ "completed" # None /\ IsTerminal("completed")
    BY ControlConstants, NoneIsNoPhase, TerminalOnes
       DEF EventKinds, DetailsOf, VariantKinds, Phases, TerminalPhases
  <1>2. RunGoesOn
    BY <1>1, AcceptedEvent
  <1>3. /\ run' \in RunStates /\ run'.phase = "completed" /\ run'.result_digest = w
    BY <1>1, Recording
  <1> QED BY <1>1, <1>2, <1>3, NoneIsNoRun DEF Ended

\* A run that may still be asked to stop is.
LEMMA StopIsRecorded ==
  ASSUME run \in RunStates, RequestCancel
  PROVE  IF Ended THEN run' = run
         ELSE /\ run'.phase = "cancel_requested"
              /\ \/ run' = run
                 \/ /\ RunGoesOn
                    /\ run'.cancel_requested_at # None
                    /\ run'.worker_pid = run.worker_pid
  <1>1. CASE ~Ended /\ run.phase # "cancel_requested"
    <2>1. RecordEvent("cancel_requested", "cancel.requested", None)
      BY <1>1 DEF RequestCancel
    <2>2. /\ "cancel_requested" \in Phases /\ "cancel_requested" # None
          /\ "cancel.requested" \in EventKinds /\ None \in DetailsOf("cancel.requested")
      BY NoneIsNoPhase DEF Phases, EventKinds, DetailsOf, VariantKinds
    <2>3. /\ run' \in RunStates /\ run'.phase = "cancel_requested"
          /\ run'.worker_pid = run.worker_pid /\ run'.cancel_requested_at # None
      BY <2>1, <2>2, Recording
    <2>4. run.phase \notin TerminalPhases
      BY <1>1, TerminalOnes, NoneIsNoRun DEF Ended, RunStates
    <2> QED BY <1>1, <2>3, <2>4, NoneIsNoRun DEF RunGoesOn
  <1>2. CASE Ended \/ run.phase = "cancel_requested"
    <2>1. run' = run /\ (~Ended => run.phase = "cancel_requested")
      BY <1>2 DEF RequestCancel
    <2> QED BY <2>1
  <1> QED BY <1>1, <1>2

-----------------------------------------------------------------------------
(* Plans and pids *)

\* A plan consists of phases a worker moves a run through and ends in the report's.
LEMMA PlanShape ==
  ASSUME TypeOK
  PROVE  /\ Plan[executor] \in Seq(WorkingPhases)
         /\ Len(Plan[executor]) \in Nat \ {0}
         /\ Plan[executor][1] = "created"
         /\ Plan[executor][Len(Plan[executor])] = "building_report"
  <1>1. CASE executor \in {"fake", "sequential"}
    <2>1. Plan[executor] = <<"created", "validating_taskset", "running_baseline",
                             "running_candidate", "building_receipts",
                             "verifying_comparison", "building_report">>
      BY <1>1 DEF Plan
    <2> QED BY <2>1 DEF WorkingPhases
  <1>2. CASE executor = "parallel"
    <2>1. Plan[executor] = <<"created", "validating_taskset", "running_variants",
                             "building_receipts", "verifying_comparison", "building_report">>
      BY <1>2 DEF Plan
    <2> QED BY <2>1 DEF WorkingPhases
  <1> QED BY <1>1, <1>2, ControlConstants DEF TypeOK

\* The phase that follows one of the plan, not its last, is one of the plan.
LEMMA PlanGoesOn ==
  ASSUME TypeOK, NEW n \in 1 .. Len(Plan[executor]), Plan[executor][n] # "building_report"
  PROVE  \E m \in 1 .. Len(Plan[executor]) : Following(Plan[executor][n]) = Plan[executor][m]
  <1> DEFINE plan == Plan[executor]
  <1>1. Len(plan) \in Nat \ {0} /\ plan[Len(plan)] = "building_report"
    BY PlanShape
  <1> HIDE DEF plan
  <1>2. n \in 1 .. Len(plan) - 1
    BY <1>1 DEF plan
  <1> DEFINE k == CHOOSE k \in 1 .. Len(plan) - 1 : plan[k] = plan[n]
  <1>3. k \in 1 .. Len(plan) - 1
    BY <1>2
  <1>4. Following(plan[n]) = plan[1 + k]
    BY DEF Following, plan
  <1> HIDE DEF k
  <1>5. 1 + k \in 1 .. Len(plan)
    BY <1>1, <1>3
  <1> QED BY <1>4, <1>5 DEF plan

\* A start that has launched nothing finds a pid that is free.
LEMMA FreshPid ==
  ASSUME WorkersWereLaunched, NEW s \in Starters, launched[s] = None
  PROVE  \E pid \in Pids : worker[pid] = "unborn"
  <1> SUFFICES ASSUME \A pid \in Pids : worker[pid] # "unborn" PROVE FALSE
    OBVIOUS
  <1> DEFINE Others == Starters \ {s}
             launcher == [pid \in Pids |-> CHOOSE t \in Others : launched[t] = pid]
  <1>1. \A pid \in Pids : launcher[pid] \in Others /\ launched[launcher[pid]] = pid
    BY NoneIsNoValue DEF WorkersWereLaunched
  <1>2. IsFiniteSet(Others) /\ Cardinality(Others) < Cardinality(Pids)
    <2>1. IsFiniteSet(Starters) /\ Cardinality(Pids) = Cardinality(Starters)
      BY ControlConstants
    <2>2. Cardinality(Starters) \in Nat
      BY <2>1, FS_CardinalityType
    <2>3. IsFiniteSet(Others) /\ Cardinality(Others) = Cardinality(Starters) - 1
      BY <2>1, FS_RemoveElement
    <2> QED BY <2>1, <2>2, <2>3
  <1>3. launcher \in [Pids -> Others]
    BY <1>1
  <1> HIDE DEF launcher, Others
  <1>4. \E x, y \in Pids : x # y /\ launcher[x] = launcher[y]
    <2>1. IsFiniteSet(Pids)
      BY ControlConstants
    <2> QED BY <2>1, <1>2, <1>3, FS_PigeonHole
  <1> QED BY <1>1, <1>4

\* Nothing has been claimed, created or launched at first.
LEMMA InitInv == Init => Inv
  <1> SUFFICES ASSUME Init PROVE Inv
    OBVIOUS
  <1>1. TypeOK
    <2>1. executor \in Executors /\ run \in RunStates \union {None}
      BY DEF Init
    <2>2. /\ record \in {"claimed", "launched", "launch_failed", None}
          /\ report \in Pids \union {None}
          /\ staged \in BOOLEAN
          /\ approvals \in Nat
      BY DEF Init
    <2>3. faults \in 0 .. MaxFaults
      BY ControlConstants DEF Init
    <2>4. /\ starter \in [Starters -> StarterSteps]
          /\ seen \in [Starters -> {"claimed", "launched", "launch_failed", None}]
          /\ launched \in [Starters -> Pids \union {None}]
      BY DEF Init, StarterSteps
    <2>5. worker \in [Pids -> WorkerSteps]
      BY DEF Init, WorkerSteps
    <2>6. at \in [Pids -> Phases]
      <3>1. "created" \in Phases
        BY DEF Phases, WorkingPhases
      <3> QED BY <3>1 DEF Init
    <2>7. signalled \in [Pids -> BOOLEAN]
      BY DEF Init
    <2>8. canceller \in [Cancellers -> {"look", "ask", "signal", "done", "refused"}]
      BY DEF Init
    <2> QED BY <2>1, <2>2, <2>3, <2>4, <2>5, <2>6, <2>7, <2>8 DEF TypeOK
  <1>2. RunIsAccountedFor /\ OneApproval /\ CompletedNamesItsReport
    BY DEF Init, RunIsAccountedFor, OneApproval, CompletedNamesItsReport
  <1>3. StartersKnow /\ WorkersWereLaunched /\ WorkersKnow /\ CancellersKnow
    BY DEF Init, StartersKnow, WithRun, WorkersWereLaunched, WorkersKnow, Handling, CancellersKnow
  <1>4. WorkersFollowThePlan
    <2>1. 1 \in 1 .. Len(Plan[executor]) /\ Plan[executor][1] = "created"
      BY <1>1, PlanShape
    <2> QED BY <2>1 DEF Init, WorkersFollowThePlan
  <1>5. StartRecordHolds
    BY NoneIsNoRun DEF Init, StartRecordHolds
  <1> QED BY <1>1, <1>2, <1>3, <1>4, <1>5 DEF Inv

\* A worker the store fails leaves the run, and all the others, as they are.
LEMMA WorkerLeaves ==
  ASSUME Inv, NEW w \in Pids, worker[w] # "unborn", NEW step \in {"turned_away", "unrecorded"},
         StoreFails, WorkerGoto(w, step), WorkerOnly
  PROVE  Inv'
  <1> USE DEF Inv
  <1>1. run' = run /\ worker' = [worker EXCEPT ![w] = step]
    BY DEF StoreFails, WorkerGoto
  <1>2. TypeOK'
    <2>1. faults' \in 0 .. MaxFaults
      BY ControlConstants DEF StoreFails, Fault, TypeOK
    <2>2. step \in WorkerSteps
      BY DEF WorkerSteps
    <2>3. worker' \in [Pids -> WorkerSteps]
      BY <1>1, <2>2 DEF TypeOK
    <2> QED BY <1>1, <2>1, <2>3 DEF WorkerOnly, startVars, TypeOK
  <1>3. WorkersWereLaunched'
    BY <1>1 DEF WorkerOnly, startVars, TypeOK, WorkersWereLaunched
  <1>4. WorkersKnow'
    BY <1>1 DEF WorkerOnly, TypeOK, WorkersKnow, Handling, Ended
  <1>5. WorkersFollowThePlan'
    BY <1>1 DEF WorkerOnly, TypeOK, WorkersFollowThePlan
  <1>6. /\ RunIsAccountedFor'
        /\ StartersKnow'
        /\ OneApproval'
        /\ CancellersKnow'
        /\ CompletedNamesItsReport'
        /\ StartRecordHolds'
    BY <1>1 DEF WorkerOnly, startVars, RunIsAccountedFor, NamedOrStopping, Ended,
       StartersKnow, WithRun, BeforeLaunch, OneApproval, CancellersKnow,
       CompletedNamesItsReport, StartRecordHolds
  <1> QED BY <1>2, <1>3, <1>4, <1>5, <1>6

\* Every step of a start, a worker or a cancellation keeps the invariant.
LEMMA StepInv == Inv /\ [Next]_vars => Inv'
  <1> SUFFICES ASSUME Inv, [Next]_vars PROVE Inv'
    OBVIOUS
  <1> USE DEF Inv
  <1>1. CASE UNCHANGED vars
    BY <1>1 DEF vars, startVars, workVars, TypeOK, StarterSteps, WorkerSteps,
       RunIsAccountedFor, NamedOrStopping, Ended, StartersKnow, WithRun,
       BeforeLaunch, OneApproval, WorkersWereLaunched, WorkersKnow, Handling,
       WorkersFollowThePlan, CancellersKnow, CompletedNamesItsReport,
       StartRecordHolds
  <1>2. ASSUME NEW s \in Starters, ClaimDraft(s) PROVE Inv'
    <2>1. TypeOK'
      BY <1>2 DEF ClaimDraft, StarterGoto, workVars, TypeOK, StarterSteps,
         WorkerSteps
    <2>2. StartersKnow'
      BY <1>2 DEF ClaimDraft, StarterGoto, workVars, TypeOK, StartersKnow,
         WithRun, BeforeLaunch, NamedOrStopping, Ended
    <2>3. OneApproval'
      BY <1>2 DEF ClaimDraft, StarterGoto, workVars, TypeOK, OneApproval
    <2>4. StartRecordHolds'
      BY <1>2 DEF ClaimDraft, StarterGoto, workVars, TypeOK, StartRecordHolds,
         Ended
    <2>5. /\ RunIsAccountedFor'
          /\ WorkersWereLaunched'
          /\ WorkersKnow'
          /\ WorkersFollowThePlan'
          /\ CancellersKnow'
          /\ CompletedNamesItsReport'
      BY <1>2 DEF ClaimDraft, StarterGoto, workVars, RunIsAccountedFor,
         NamedOrStopping, Ended, WorkersWereLaunched, WorkersKnow, Handling,
         WorkersFollowThePlan, CancellersKnow, CompletedNamesItsReport
    <2> QED BY <2>1, <2>2, <2>3, <2>4, <2>5
  <1>3. ASSUME NEW s \in Starters, FindRun(s) PROVE Inv'
    <2>1. TypeOK'
      BY <1>3 DEF FindRun, StarterGoto, workVars, TypeOK, StarterSteps,
         WorkerSteps
    <2>2. StartersKnow'
      BY <1>3 DEF FindRun, StarterGoto, workVars, TypeOK, StartersKnow,
         WithRun, BeforeLaunch, NamedOrStopping, Ended
    <2>3. OneApproval'
      BY <1>3 DEF FindRun, StarterGoto, workVars, TypeOK, OneApproval
    <2>4. /\ RunIsAccountedFor'
          /\ WorkersWereLaunched'
          /\ WorkersKnow'
          /\ WorkersFollowThePlan'
          /\ CancellersKnow'
          /\ CompletedNamesItsReport'
          /\ StartRecordHolds'
      BY <1>3 DEF FindRun, StarterGoto, workVars, RunIsAccountedFor,
         NamedOrStopping, Ended, WorkersWereLaunched, WorkersKnow, Handling,
         WorkersFollowThePlan, CancellersKnow, CompletedNamesItsReport,
         StartRecordHolds
    <2> QED BY <2>1, <2>2, <2>3, <2>4
  <1>4. ASSUME NEW s \in Starters, CreateRun(s) PROVE Inv'
    <2>1. run = None => /\ run' \in RunStates /\ run' # None
                         /\ run'.phase = "created" /\ run'.worker_pid = None
      BY <1>4, CreatedState, NoneIsNoRun DEF CreateRun
    <2>2. TypeOK'
      BY <1>4, <2>1 DEF CreateRun, StarterGoto, workVars, TypeOK, StarterSteps,
         WorkerSteps
    <2>3. RunIsAccountedFor'
      BY <1>4, <2>1 DEF CreateRun, StarterGoto, workVars, TypeOK,
         RunIsAccountedFor, NamedOrStopping, Ended
    <2>4. StartersKnow'
      BY <1>4, <2>1 DEF CreateRun, StarterGoto, workVars, TypeOK, StartersKnow,
         WithRun, BeforeLaunch, NamedOrStopping, Ended
    <2>5. OneApproval'
      BY <1>4, <2>1 DEF CreateRun, StarterGoto, workVars, TypeOK, OneApproval,
         StartersKnow, WithRun, BeforeLaunch, NamedOrStopping, Ended
    <2>6. WorkersWereLaunched'
      BY <1>4, <2>1 DEF CreateRun, StarterGoto, workVars, TypeOK,
         WorkersWereLaunched
    <2>7. WorkersKnow'
      BY <1>4, <2>1 DEF CreateRun, StarterGoto, workVars, TypeOK, WorkersKnow,
         Handling, Ended, WorkersWereLaunched
    <2>8. CancellersKnow'
      BY <1>4, <2>1 DEF CreateRun, StarterGoto, workVars, TypeOK,
         CancellersKnow
    <2>9. CompletedNamesItsReport'
      BY <1>4, <2>1 DEF CreateRun, StarterGoto, workVars, TypeOK,
         CompletedNamesItsReport
    <2>10. StartRecordHolds'
      BY <1>4, <2>1 DEF CreateRun, StarterGoto, workVars, TypeOK,
         StartRecordHolds, Ended
    <2>11. WorkersFollowThePlan'
      BY <1>4, <2>1 DEF CreateRun, StarterGoto, workVars, WorkersFollowThePlan
    <2> QED BY <2>2, <2>3, <2>4, <2>5, <2>6, <2>7, <2>8, <2>9, <2>10, <2>11
  <1>5. ASSUME NEW s \in Starters, ApproveRun(s) PROVE Inv'
    <2>1. run \in RunStates
      BY <1>5 DEF ApproveRun, TypeOK, StartersKnow, WithRun
    <2>2. \/ UNCHANGED <<run, approvals>> /\ starter'[s] = "refused"
          \/ /\ RunGoesOn /\ run'.phase = "created" /\ approvals' = approvals + 1
             /\ run'.worker_pid = run.worker_pid /\ run'.result_digest = run.result_digest
      BY <1>5, <2>1, AcceptedEvent, Recording, NoneIsNoPhase DEF ApproveRun, StarterGoto, TypeOK,
         Phases, WorkingPhases, EventKinds, DetailsOf, VariantKinds
    <2>3. TypeOK'
      BY <1>5, <2>1, <2>2 DEF ApproveRun, StarterGoto, workVars, RunGoesOn,
         TerminalPhases, TypeOK, StarterSteps, WorkerSteps
    <2>4. RunIsAccountedFor'
      BY <1>5, <2>1, <2>2 DEF ApproveRun, StarterGoto, workVars, RunGoesOn,
         TerminalPhases, TypeOK, RunIsAccountedFor, NamedOrStopping, Ended
    <2>5. StartersKnow'
      BY <1>5, <2>1, <2>2 DEF ApproveRun, StarterGoto, workVars, RunGoesOn,
         TerminalPhases, TypeOK, StartersKnow, WithRun, BeforeLaunch,
         NamedOrStopping, Ended
    <2>6. OneApproval'
      BY <1>5, <2>1, <2>2 DEF ApproveRun, StarterGoto, workVars, RunGoesOn,
         TerminalPhases, TypeOK, OneApproval
    <2>7. WorkersWereLaunched'
      BY <1>5, <2>1, <2>2 DEF ApproveRun, StarterGoto, workVars, RunGoesOn,
         TerminalPhases, TypeOK, WorkersWereLaunched
    <2>8. WorkersKnow'
      BY <1>5, <2>1, <2>2 DEF ApproveRun, StarterGoto, workVars, RunGoesOn,
         TerminalPhases, TypeOK, WorkersKnow, Handling, Ended
    <2>9. CancellersKnow'
      BY <1>5, <2>1, <2>2 DEF ApproveRun, StarterGoto, workVars, RunGoesOn,
         TerminalPhases, TypeOK, CancellersKnow
    <2>10. CompletedNamesItsReport'
      BY <1>5, <2>1, <2>2 DEF ApproveRun, StarterGoto, workVars, RunGoesOn,
         TerminalPhases, TypeOK, CompletedNamesItsReport
    <2>11. StartRecordHolds'
      BY <1>5, <2>1, <2>2 DEF ApproveRun, StarterGoto, workVars, RunGoesOn,
         TerminalPhases, TypeOK, StartRecordHolds, Ended, OneApproval
    <2>12. WorkersFollowThePlan'
      BY <1>5, <2>1, <2>2 DEF ApproveRun, StarterGoto, workVars, RunGoesOn,
         TerminalPhases, WorkersFollowThePlan
    <2> QED BY <2>3, <2>4, <2>5, <2>6, <2>7, <2>8, <2>9, <2>10, <2>11, <2>12
  <1>6. ASSUME NEW s \in Starters, StageInputs(s) PROVE Inv'
    <2>1. TypeOK'
      BY <1>6 DEF StageInputs, StarterGoto, workVars, TypeOK, StarterSteps,
         WorkerSteps
    <2>2. StartersKnow'
      BY <1>6 DEF StageInputs, StarterGoto, workVars, TypeOK, StartersKnow,
         WithRun, BeforeLaunch, NamedOrStopping, Ended
    <2>3. OneApproval'
      BY <1>6 DEF StageInputs, StarterGoto, workVars, TypeOK, OneApproval
    <2>4. /\ RunIsAccountedFor'
          /\ WorkersWereLaunched'
          /\ WorkersKnow'
          /\ WorkersFollowThePlan'
          /\ CancellersKnow'
          /\ CompletedNamesItsReport'
          /\ StartRecordHolds'
      BY <1>6 DEF StageInputs, StarterGoto, workVars, RunIsAccountedFor,
         NamedOrStopping, Ended, WorkersWereLaunched, WorkersKnow, Handling,
         WorkersFollowThePlan, CancellersKnow, CompletedNamesItsReport,
         StartRecordHolds
    <2> QED BY <2>1, <2>2, <2>3, <2>4
  <1>7. ASSUME NEW s \in Starters, RenameInputs(s) PROVE Inv'
    <2>1. TypeOK'
      BY <1>7 DEF RenameInputs, StarterGoto, workVars, TypeOK, StarterSteps,
         WorkerSteps
    <2>2. StartersKnow'
      BY <1>7 DEF RenameInputs, StarterGoto, workVars, TypeOK, StartersKnow,
         WithRun, BeforeLaunch, NamedOrStopping, Ended
    <2>3. OneApproval'
      BY <1>7 DEF RenameInputs, StarterGoto, workVars, TypeOK, OneApproval
    <2>4. /\ RunIsAccountedFor'
          /\ WorkersWereLaunched'
          /\ WorkersKnow'
          /\ WorkersFollowThePlan'
          /\ CancellersKnow'
          /\ CompletedNamesItsReport'
          /\ StartRecordHolds'
      BY <1>7 DEF RenameInputs, StarterGoto, workVars, RunIsAccountedFor,
         NamedOrStopping, Ended, WorkersWereLaunched, WorkersKnow, Handling,
         WorkersFollowThePlan, CancellersKnow, CompletedNamesItsReport,
         StartRecordHolds
    <2> QED BY <2>1, <2>2, <2>3, <2>4
  <1>8. ASSUME NEW s \in Starters, LookForWorker(s) PROVE Inv'
    <2>1. TypeOK'
      BY <1>8 DEF LookForWorker, StarterGoto, workVars, TypeOK, StarterSteps,
         WorkerSteps
    <2>2. StartersKnow'
      BY <1>8 DEF LookForWorker, StarterGoto, workVars, TypeOK, StartersKnow,
         WithRun, BeforeLaunch, NamedOrStopping, Ended
    <2>3. OneApproval'
      BY <1>8 DEF LookForWorker, StarterGoto, workVars, TypeOK, OneApproval
    <2>4. /\ RunIsAccountedFor'
          /\ WorkersWereLaunched'
          /\ WorkersKnow'
          /\ WorkersFollowThePlan'
          /\ CancellersKnow'
          /\ CompletedNamesItsReport'
          /\ StartRecordHolds'
      BY <1>8 DEF LookForWorker, StarterGoto, workVars, RunIsAccountedFor,
         NamedOrStopping, Ended, WorkersWereLaunched, WorkersKnow, Handling,
         WorkersFollowThePlan, CancellersKnow, CompletedNamesItsReport,
         StartRecordHolds
    <2> QED BY <2>1, <2>2, <2>3, <2>4
  <1>9. ASSUME NEW s \in Starters, Launch(s) PROVE Inv'
    <2>1. launched[s] = None /\ run # None
      BY <1>9 DEF Launch, StartersKnow, BeforeLaunch, WithRun
    <2>2. PICK w \in Pids : /\ worker[w] = "unborn"
                            /\ worker' = [worker EXCEPT ![w] = "announce"]
                            /\ launched' = [launched EXCEPT ![s] = w]
      BY <1>9, <2>1, FreshPid DEF Launch, WorkerGoto
    <2>3. TypeOK'
      BY <1>9, <2>1, <2>2 DEF Launch, StarterGoto, workVars, TypeOK,
         StarterSteps, WorkerSteps
    <2>4. StartersKnow'
      BY <1>9, <2>1, <2>2 DEF Launch, StarterGoto, workVars, TypeOK,
         StartersKnow, WithRun, BeforeLaunch, NamedOrStopping, Ended
    <2>5. OneApproval'
      BY <1>9, <2>1, <2>2 DEF Launch, StarterGoto, workVars, TypeOK,
         OneApproval
    <2>6. WorkersWereLaunched'
      BY <1>9, <2>1, <2>2, NoneIsNoValue DEF Launch, StarterGoto, workVars,
         TypeOK, WorkersWereLaunched
    <2>7. WorkersKnow'
      BY <1>9, <2>1, <2>2 DEF Launch, StarterGoto, workVars, TypeOK,
         WorkersKnow, Handling, Ended
    <2>8. WorkersFollowThePlan'
      BY <1>9, <2>1, <2>2 DEF Launch, StarterGoto, workVars, TypeOK,
         WorkersFollowThePlan
    <2>9. /\ RunIsAccountedFor'
          /\ CancellersKnow'
          /\ CompletedNamesItsReport'
          /\ StartRecordHolds'
      BY <1>9, <2>1, <2>2 DEF Launch, StarterGoto, workVars, RunIsAccountedFor,
         NamedOrStopping, Ended, CancellersKnow, CompletedNamesItsReport,
         StartRecordHolds
    <2> QED BY <2>3, <2>4, <2>5, <2>6, <2>7, <2>8, <2>9
  <1>10. ASSUME NEW s \in Starters, LaunchFails(s) PROVE Inv'
    <2>1. TypeOK'
      BY <1>10, ControlConstants DEF LaunchFails, StarterGoto, workVars, Fault,
         TypeOK, StarterSteps, WorkerSteps
    <2>2. StartersKnow'
      BY <1>10 DEF LaunchFails, StarterGoto, workVars, Fault, TypeOK,
         StartersKnow, WithRun, BeforeLaunch, NamedOrStopping, Ended
    <2>3. OneApproval'
      BY <1>10 DEF LaunchFails, StarterGoto, workVars, Fault, TypeOK,
         OneApproval
    <2>4. /\ RunIsAccountedFor'
          /\ WorkersWereLaunched'
          /\ WorkersKnow'
          /\ WorkersFollowThePlan'
          /\ CancellersKnow'
          /\ CompletedNamesItsReport'
          /\ StartRecordHolds'
      BY <1>10 DEF LaunchFails, StarterGoto, workVars, Fault,
         RunIsAccountedFor, NamedOrStopping, Ended, WorkersWereLaunched,
         WorkersKnow, Handling, WorkersFollowThePlan, CancellersKnow,
         CompletedNamesItsReport, StartRecordHolds
    <2> QED BY <2>1, <2>2, <2>3, <2>4
  <1>11. ASSUME NEW s \in Starters, LookAgain(s) PROVE Inv'
    <2>1. TypeOK'
      BY <1>11 DEF LookAgain, StarterGoto, workVars, TypeOK, StarterSteps,
         WorkerSteps
    <2>2. StartersKnow'
      BY <1>11 DEF LookAgain, StarterGoto, workVars, TypeOK, StartersKnow,
         WithRun, BeforeLaunch, NamedOrStopping, Ended
    <2>3. OneApproval'
      BY <1>11 DEF LookAgain, StarterGoto, workVars, TypeOK, OneApproval
    <2>4. /\ RunIsAccountedFor'
          /\ WorkersWereLaunched'
          /\ WorkersKnow'
          /\ WorkersFollowThePlan'
          /\ CancellersKnow'
          /\ CompletedNamesItsReport'
          /\ StartRecordHolds'
      BY <1>11 DEF LookAgain, StarterGoto, workVars, RunIsAccountedFor,
         NamedOrStopping, Ended, WorkersWereLaunched, WorkersKnow, Handling,
         WorkersFollowThePlan, CancellersKnow, CompletedNamesItsReport,
         StartRecordHolds
    <2> QED BY <2>1, <2>2, <2>3, <2>4
  <1>12. ASSUME NEW s \in Starters, RecordPid(s) PROVE Inv'
    <2> DEFINE StarterOnly == UNCHANGED <<executor, record, report, staged, seen, launched,
                                          workVars, canceller, approvals>>
    <2>0. CASE StoreFails /\ StarterGoto(s, "mark_unnamed")
      <3>1. starter[s] = "write_pid" /\ StarterOnly
        BY <1>12 DEF RecordPid
      <3>2. run' = run /\ starter' = [starter EXCEPT ![s] = "mark_unnamed"]
        BY <2>0 DEF StoreFails, StarterGoto
      <3>3. TypeOK'
        <4>1. faults' \in 0 .. MaxFaults
          BY <2>0, ControlConstants DEF StoreFails, Fault, TypeOK
        <4>2. starter' \in [Starters -> StarterSteps]
          BY <3>2 DEF TypeOK, StarterSteps
        <4> QED BY <3>1, <3>2, <4>1, <4>2 DEF workVars, TypeOK
      <3>4. StartersKnow'
        BY <3>1, <3>2 DEF workVars, TypeOK, StartersKnow, WithRun, BeforeLaunch,
           NamedOrStopping, Ended
      <3>5. OneApproval' /\ StartRecordHolds'
        BY <3>1, <3>2 DEF TypeOK, OneApproval, StartRecordHolds, Ended
      <3>6. /\ RunIsAccountedFor'
            /\ WorkersWereLaunched'
            /\ WorkersKnow'
            /\ WorkersFollowThePlan'
            /\ CancellersKnow'
            /\ CompletedNamesItsReport'
        BY <3>1, <3>2 DEF workVars, RunIsAccountedFor, NamedOrStopping, Ended,
           WorkersWereLaunched, WorkersKnow, Handling, WorkersFollowThePlan,
           CancellersKnow, CompletedNamesItsReport
      <3> QED BY <3>3, <3>4, <3>5, <3>6
    <2> SUFFICES ASSUME ~(StoreFails /\ StarterGoto(s, "mark_unnamed")) PROVE Inv'
      BY <2>0
    <2>a. /\ starter[s] = "write_pid"
          /\ IF Accepts(None, "worker.started", launched[s])
             THEN RecordEvent(None, "worker.started", launched[s])
             ELSE UNCHANGED run
          /\ StarterGoto(s, "mark_launched")
          /\ UNCHANGED faults
          /\ StarterOnly
      BY <1>12 DEF RecordPid
    <2>1. run \in RunStates /\ launched[s] \in Pids
      BY <2>a DEF StarterOnly, TypeOK, StartersKnow, WithRun
    <2>2. IF Accepts(None, "worker.started", launched[s])
          THEN RunGoesOn /\ run'.phase = run.phase /\ run'.worker_pid # None
          ELSE run' = run /\ run.phase # "created"
      BY <2>a, <2>1, Naming DEF StarterOnly
    <2>3. TypeOK'
      BY <2>a, <2>1, <2>2 DEF StarterOnly, StarterGoto, workVars, RunGoesOn,
         TerminalPhases, TypeOK, StarterSteps, WorkerSteps
    <2>4. RunIsAccountedFor'
      BY <2>a, <2>1, <2>2 DEF StarterOnly, StarterGoto, workVars, RunGoesOn,
         TerminalPhases, TypeOK, RunIsAccountedFor, NamedOrStopping, Ended
    <2>5. StartersKnow'
      BY <2>a, <2>1, <2>2 DEF StarterOnly, StarterGoto, workVars, RunGoesOn,
         TerminalPhases, TypeOK, StartersKnow, WithRun, BeforeLaunch,
         NamedOrStopping, Ended, RunIsAccountedFor
    <2>6. OneApproval'
      BY <2>a, <2>1, <2>2 DEF StarterOnly, StarterGoto, workVars, RunGoesOn,
         TerminalPhases, TypeOK, OneApproval
    <2>7. WorkersWereLaunched'
      BY <2>a, <2>1, <2>2 DEF StarterOnly, StarterGoto, workVars, RunGoesOn,
         TerminalPhases, TypeOK, WorkersWereLaunched
    <2>8. WorkersKnow'
      BY <2>a, <2>1, <2>2 DEF StarterOnly, StarterGoto, workVars, RunGoesOn,
         TerminalPhases, TypeOK, WorkersKnow, Handling, Ended
    <2>9. CancellersKnow'
      BY <2>a, <2>1, <2>2 DEF StarterOnly, StarterGoto, workVars, RunGoesOn,
         TerminalPhases, TypeOK, CancellersKnow
    <2>10. CompletedNamesItsReport'
      BY <2>a, <2>1, <2>2 DEF StarterOnly, StarterGoto, workVars, RunGoesOn,
         TerminalPhases, TypeOK, CompletedNamesItsReport
    <2>11. StartRecordHolds'
      BY <2>a, <2>1, <2>2 DEF StarterOnly, StarterGoto, workVars, RunGoesOn,
         TerminalPhases, TypeOK, StartRecordHolds, Ended
    <2>12. WorkersFollowThePlan'
      BY <2>a, <2>1, <2>2 DEF StarterOnly, StarterGoto, workVars, RunGoesOn,
         TerminalPhases, WorkersFollowThePlan
    <2> QED BY <2>3, <2>4, <2>5, <2>6, <2>7, <2>8, <2>9, <2>10, <2>11, <2>12
  <1>13. ASSUME NEW s \in Starters, MarkLaunched(s) PROVE Inv'
    <2>1. TypeOK'
      BY <1>13 DEF MarkLaunched, StarterGoto, workVars, TypeOK, StarterSteps,
         WorkerSteps
    <2>2. StartersKnow'
      BY <1>13 DEF MarkLaunched, StarterGoto, workVars, TypeOK, StartersKnow,
         WithRun, BeforeLaunch, NamedOrStopping, Ended
    <2>3. OneApproval'
      BY <1>13 DEF MarkLaunched, StarterGoto, workVars, TypeOK, OneApproval
    <2>4. StartRecordHolds'
      <3>1. run' = run /\ run # None /\ approvals' = approvals /\ record' = "launched"
        BY <1>13 DEF MarkLaunched, StartersKnow, WithRun
      <3>2. CASE starter[s] = "mark_launched"
        BY <3>1, <3>2 DEF StartRecordHolds, Ended, StartersKnow, NamedOrStopping
      <3>3. CASE starter[s] = "mark_unnamed"
        <4>1. starter'[s] = "done_unnamed"
          BY <1>13, <3>3 DEF MarkLaunched, StarterGoto, TypeOK
        <4> QED BY <3>1, <4>1 DEF StartRecordHolds
      <3> QED BY <1>13, <3>2, <3>3 DEF MarkLaunched
    <2>5. /\ RunIsAccountedFor'
          /\ WorkersWereLaunched'
          /\ WorkersKnow'
          /\ WorkersFollowThePlan'
          /\ CancellersKnow'
          /\ CompletedNamesItsReport'
      BY <1>13 DEF MarkLaunched, StarterGoto, workVars, RunIsAccountedFor,
         NamedOrStopping, Ended, WorkersWereLaunched, WorkersKnow, Handling,
         WorkersFollowThePlan, CancellersKnow, CompletedNamesItsReport
    <2> QED BY <2>1, <2>2, <2>3, <2>4, <2>5
  <1>14. ASSUME NEW s \in Starters, FailLook(s) PROVE Inv'
    <2>1. TypeOK'
      BY <1>14 DEF FailLook, StarterGoto, workVars, TypeOK, StarterSteps,
         WorkerSteps
    <2>2. StartersKnow'
      BY <1>14 DEF FailLook, StarterGoto, workVars, TypeOK, StartersKnow,
         WithRun, BeforeLaunch, NamedOrStopping, Ended
    <2>3. OneApproval'
      BY <1>14 DEF FailLook, StarterGoto, workVars, TypeOK, OneApproval
    <2>4. /\ RunIsAccountedFor'
          /\ WorkersWereLaunched'
          /\ WorkersKnow'
          /\ WorkersFollowThePlan'
          /\ CancellersKnow'
          /\ CompletedNamesItsReport'
          /\ StartRecordHolds'
      BY <1>14 DEF FailLook, StarterGoto, workVars, RunIsAccountedFor,
         NamedOrStopping, Ended, WorkersWereLaunched, WorkersKnow, Handling,
         WorkersFollowThePlan, CancellersKnow, CompletedNamesItsReport,
         StartRecordHolds
    <2> QED BY <2>1, <2>2, <2>3, <2>4
  <1>15. ASSUME NEW s \in Starters, FailRun(s) PROVE Inv'
    <2>1. run \in RunStates
      BY <1>15 DEF FailRun, TypeOK, StartersKnow, WithRun
    <2>2. \/ RunGoesOn /\ run'.phase = "failed" /\ Ended'
          \/ run' = run /\ Ended
      BY <1>15, <2>1, Failing DEF FailRun
    <2>3. TypeOK'
      BY <1>15, <2>1, <2>2 DEF FailRun, StarterGoto, workVars, RunGoesOn,
         TerminalPhases, TypeOK, StarterSteps, WorkerSteps
    <2>4. RunIsAccountedFor'
      BY <1>15, <2>1, <2>2 DEF FailRun, StarterGoto, workVars, RunGoesOn,
         TerminalPhases, TypeOK, RunIsAccountedFor, NamedOrStopping, Ended
    <2>5. StartersKnow'
      BY <1>15, <2>1, <2>2 DEF FailRun, StarterGoto, workVars, RunGoesOn,
         TerminalPhases, TypeOK, StartersKnow, WithRun, BeforeLaunch,
         NamedOrStopping, Ended
    <2>6. OneApproval'
      BY <1>15, <2>1, <2>2 DEF FailRun, StarterGoto, workVars, RunGoesOn,
         TerminalPhases, TypeOK, OneApproval
    <2>7. WorkersWereLaunched'
      BY <1>15, <2>1, <2>2 DEF FailRun, StarterGoto, workVars, RunGoesOn,
         TerminalPhases, TypeOK, WorkersWereLaunched
    <2>8. WorkersKnow'
      BY <1>15, <2>1, <2>2 DEF FailRun, StarterGoto, workVars, RunGoesOn,
         TerminalPhases, TypeOK, WorkersKnow, Handling, Ended
    <2>9. CancellersKnow'
      BY <1>15, <2>1, <2>2 DEF FailRun, StarterGoto, workVars, RunGoesOn,
         TerminalPhases, TypeOK, CancellersKnow
    <2>10. CompletedNamesItsReport'
      BY <1>15, <2>1, <2>2 DEF FailRun, StarterGoto, workVars, RunGoesOn,
         TerminalPhases, TypeOK, CompletedNamesItsReport
    <2>11. StartRecordHolds'
      BY <1>15, <2>1, <2>2 DEF FailRun, StarterGoto, workVars, RunGoesOn,
         TerminalPhases, TypeOK, StartRecordHolds, Ended
    <2>12. WorkersFollowThePlan'
      BY <1>15, <2>1, <2>2 DEF FailRun, StarterGoto, workVars, RunGoesOn,
         TerminalPhases, WorkersFollowThePlan
    <2> QED BY <2>3, <2>4, <2>5, <2>6, <2>7, <2>8, <2>9, <2>10, <2>11, <2>12
  <1>16. ASSUME NEW s \in Starters, MarkLaunchFailed(s) PROVE Inv'
    <2>1. TypeOK'
      BY <1>16 DEF MarkLaunchFailed, StarterGoto, workVars, TypeOK,
         StarterSteps, WorkerSteps
    <2>2. StartersKnow'
      BY <1>16 DEF MarkLaunchFailed, StarterGoto, workVars, TypeOK,
         StartersKnow, WithRun, BeforeLaunch, NamedOrStopping, Ended
    <2>3. OneApproval'
      BY <1>16 DEF MarkLaunchFailed, StarterGoto, workVars, TypeOK, OneApproval
    <2>4. StartRecordHolds'
      BY <1>16 DEF MarkLaunchFailed, StarterGoto, workVars, TypeOK,
         StartRecordHolds, Ended, StartersKnow, WithRun, BeforeLaunch,
         NamedOrStopping
    <2>5. /\ RunIsAccountedFor'
          /\ WorkersWereLaunched'
          /\ WorkersKnow'
          /\ WorkersFollowThePlan'
          /\ CancellersKnow'
          /\ CompletedNamesItsReport'
      BY <1>16 DEF MarkLaunchFailed, StarterGoto, workVars, RunIsAccountedFor,
         NamedOrStopping, Ended, WorkersWereLaunched, WorkersKnow, Handling,
         WorkersFollowThePlan, CancellersKnow, CompletedNamesItsReport
    <2> QED BY <2>1, <2>2, <2>3, <2>4, <2>5
  <1>17. ASSUME NEW s \in Starters, StarterDies(s) PROVE Inv'
    <2>1. TypeOK'
      BY <1>17, ControlConstants DEF StarterDies, StarterGoto, workVars, Fault,
         StarterStopped, TypeOK, StarterSteps, WorkerSteps
    <2>2. StartersKnow'
      BY <1>17 DEF StarterDies, StarterGoto, workVars, Fault, StarterStopped,
         TypeOK, StartersKnow, WithRun, BeforeLaunch, NamedOrStopping, Ended
    <2>3. OneApproval'
      BY <1>17 DEF StarterDies, StarterGoto, workVars, Fault, StarterStopped,
         TypeOK, OneApproval
    <2>4. /\ RunIsAccountedFor'
          /\ WorkersWereLaunched'
          /\ WorkersKnow'
          /\ WorkersFollowThePlan'
          /\ CancellersKnow'
          /\ CompletedNamesItsReport'
          /\ StartRecordHolds'
      BY <1>17 DEF StarterDies, StarterGoto, workVars, Fault, StarterStopped,
         RunIsAccountedFor, NamedOrStopping, Ended, WorkersWereLaunched,
         WorkersKnow, Handling, WorkersFollowThePlan, CancellersKnow,
         CompletedNamesItsReport, StartRecordHolds
    <2> QED BY <2>1, <2>2, <2>3, <2>4
  <1>18. ASSUME NEW w \in Pids, Announce(w) PROVE Inv'
    <2>0. CASE StoreFails /\ WorkerGoto(w, "turned_away")
      BY <1>18, <2>0, WorkerLeaves DEF Announce
    <2> SUFFICES ASSUME ~(StoreFails /\ WorkerGoto(w, "turned_away")) PROVE Inv'
      BY <2>0
    <2>a. /\ worker[w] = "announce"
          /\ Reading
          /\ WorkerGoto(w, IF run.worker_pid = None THEN "write_pid" ELSE "install")
          /\ WorkerOnly
      BY <1>18 DEF Announce
    <2>1. TypeOK'
      BY <2>a DEF WorkerOnly, Reading, WorkerGoto, startVars, TypeOK, StarterSteps,
         WorkerSteps
    <2>2. WorkersWereLaunched'
      BY <2>a DEF WorkerOnly, Reading, WorkerGoto, startVars, TypeOK, WorkersWereLaunched
    <2>3. WorkersKnow'
      BY <2>a DEF WorkerOnly, Reading, WorkerGoto, startVars, TypeOK, WorkersKnow,
         Handling, Ended
    <2>4. WorkersFollowThePlan'
      BY <2>a DEF WorkerOnly, Reading, WorkerGoto, startVars, TypeOK,
         WorkersFollowThePlan
    <2>5. /\ RunIsAccountedFor'
          /\ StartersKnow'
          /\ OneApproval'
          /\ CancellersKnow'
          /\ CompletedNamesItsReport'
          /\ StartRecordHolds'
      BY <2>a DEF WorkerOnly, Reading, WorkerGoto, startVars, RunIsAccountedFor,
         NamedOrStopping, Ended, StartersKnow, WithRun, BeforeLaunch,
         OneApproval, CancellersKnow, CompletedNamesItsReport, StartRecordHolds
    <2> QED BY <2>1, <2>2, <2>3, <2>4, <2>5
  <1>19. ASSUME NEW w \in Pids, AnnouncePid(w) PROVE Inv'
    <2>0. CASE StoreFails /\ WorkerGoto(w, "turned_away")
      BY <1>19, <2>0, WorkerLeaves DEF AnnouncePid
    <2> SUFFICES ASSUME ~(StoreFails /\ WorkerGoto(w, "turned_away")) PROVE Inv'
      BY <2>0
    <2>a. /\ worker[w] = "write_pid"
          /\ IF Accepts(None, "worker.started", w)
              THEN RecordEvent(None, "worker.started", w) /\ WorkerGoto(w, "install")
              ELSE UNCHANGED run /\ WorkerGoto(w, "turned_away")
          /\ UNCHANGED faults
          /\ WorkerOnly
      BY <1>19 DEF AnnouncePid
    <2>1. run \in RunStates
      BY <2>a DEF WorkerOnly, TypeOK, WorkersWereLaunched
    <2>2. IF Accepts(None, "worker.started", w)
          THEN RunGoesOn /\ run'.phase = run.phase /\ run'.worker_pid # None
          ELSE run' = run /\ run.phase # "created"
      BY <2>a, <2>1, Naming DEF WorkerOnly
    <2>3. worker' = [worker EXCEPT ![w] = IF Accepts(None, "worker.started", w)
                                            THEN "install" ELSE "turned_away"]
      BY <2>a DEF WorkerOnly, WorkerGoto
    <2>4. TypeOK'
      BY <2>a, <2>1, <2>2, <2>3 DEF WorkerOnly, WorkerGoto, startVars,
         RunGoesOn, TerminalPhases, TypeOK, StarterSteps, WorkerSteps
    <2>5. RunIsAccountedFor'
      BY <2>a, <2>1, <2>2, <2>3 DEF WorkerOnly, WorkerGoto, startVars,
         RunGoesOn, TerminalPhases, TypeOK, RunIsAccountedFor, NamedOrStopping,
         Ended
    <2>6. StartersKnow'
      BY <2>a, <2>1, <2>2, <2>3 DEF WorkerOnly, WorkerGoto, startVars,
         RunGoesOn, TerminalPhases, TypeOK, StartersKnow, WithRun,
         BeforeLaunch, NamedOrStopping, Ended
    <2>7. OneApproval'
      BY <2>a, <2>1, <2>2, <2>3 DEF WorkerOnly, WorkerGoto, startVars,
         RunGoesOn, TerminalPhases, TypeOK, OneApproval
    <2>8. WorkersWereLaunched'
      BY <2>a, <2>1, <2>2, <2>3 DEF WorkerOnly, WorkerGoto, startVars,
         RunGoesOn, TerminalPhases, TypeOK, WorkersWereLaunched
    <2>9. WorkersKnow'
      BY <2>a, <2>1, <2>2, <2>3 DEF WorkerOnly, WorkerGoto, startVars,
         RunGoesOn, TerminalPhases, TypeOK, WorkersKnow, Handling, Ended
    <2>10. WorkersFollowThePlan'
      BY <2>a, <2>1, <2>2, <2>3 DEF WorkerOnly, WorkerGoto, startVars,
         RunGoesOn, TerminalPhases, TypeOK, WorkersFollowThePlan
    <2>11. CancellersKnow'
      BY <2>a, <2>1, <2>2, <2>3 DEF WorkerOnly, WorkerGoto, startVars,
         RunGoesOn, TerminalPhases, TypeOK, CancellersKnow
    <2>12. CompletedNamesItsReport'
      BY <2>a, <2>1, <2>2, <2>3 DEF WorkerOnly, WorkerGoto, startVars,
         RunGoesOn, TerminalPhases, TypeOK, CompletedNamesItsReport
    <2>13. StartRecordHolds'
      BY <2>a, <2>1, <2>2, <2>3 DEF WorkerOnly, WorkerGoto, startVars,
         RunGoesOn, TerminalPhases, TypeOK, StartRecordHolds, Ended
    <2> QED BY <2>4, <2>5, <2>6, <2>7, <2>8, <2>9, <2>10, <2>11, <2>12, <2>13
  <1>20. ASSUME NEW w \in Pids, InstallHandlers(w) PROVE Inv'
    <2>1. worker' = [worker EXCEPT ![w] = StepAfter("created")]
      BY <1>20 DEF InstallHandlers, WorkerGoto
    <2>2. TypeOK'
      BY <1>20, <2>1 DEF InstallHandlers, WorkerGoto, startVars, StepAfter,
         TypeOK, StarterSteps, WorkerSteps
    <2>3. WorkersWereLaunched'
      BY <1>20, <2>1 DEF InstallHandlers, WorkerGoto, startVars, StepAfter,
         TypeOK, WorkersWereLaunched
    <2>4. WorkersKnow'
      BY <1>20, <2>1 DEF InstallHandlers, WorkerGoto, startVars, StepAfter,
         TypeOK, WorkersKnow, Handling, Ended
    <2>5. WorkersFollowThePlan'
      BY <1>20, <2>1 DEF InstallHandlers, WorkerGoto, startVars, StepAfter,
         TypeOK, WorkersFollowThePlan
    <2>6. /\ RunIsAccountedFor'
          /\ StartersKnow'
          /\ OneApproval'
          /\ CancellersKnow'
          /\ CompletedNamesItsReport'
          /\ StartRecordHolds'
      BY <1>20, <2>1 DEF InstallHandlers, WorkerGoto, startVars, StepAfter,
         RunIsAccountedFor, NamedOrStopping, Ended, StartersKnow, WithRun,
         BeforeLaunch, OneApproval, CancellersKnow, CompletedNamesItsReport,
         StartRecordHolds
    <2> QED BY <2>2, <2>3, <2>4, <2>5, <2>6
  <1>21. ASSUME NEW w \in Pids, CheckCancel(w) PROVE Inv'
    <2>1. TypeOK'
      BY <1>21 DEF CheckCancel, WorkerGoto, startVars, TypeOK, StarterSteps,
         WorkerSteps
    <2>2. WorkersWereLaunched'
      BY <1>21 DEF CheckCancel, WorkerGoto, startVars, TypeOK,
         WorkersWereLaunched
    <2>3. WorkersKnow'
      BY <1>21 DEF CheckCancel, WorkerGoto, startVars, TypeOK, WorkersKnow,
         Handling, Ended
    <2>4. WorkersFollowThePlan'
      BY <1>21 DEF CheckCancel, WorkerGoto, startVars, TypeOK,
         WorkersFollowThePlan
    <2>5. /\ RunIsAccountedFor'
          /\ StartersKnow'
          /\ OneApproval'
          /\ CancellersKnow'
          /\ CompletedNamesItsReport'
          /\ StartRecordHolds'
      BY <1>21 DEF CheckCancel, WorkerGoto, startVars, RunIsAccountedFor,
         NamedOrStopping, Ended, StartersKnow, WithRun, BeforeLaunch,
         OneApproval, CancellersKnow, CompletedNamesItsReport, StartRecordHolds
    <2> QED BY <2>1, <2>2, <2>3, <2>4, <2>5
  <1>22. ASSUME NEW w \in Pids, EnterPhase(w) PROVE Inv'
    <2>1. run \in RunStates
      BY <1>22 DEF EnterPhase, TypeOK, WorkersWereLaunched
    <2>2. \E m \in 1 .. Len(Plan[executor]) : Following(at[w]) = Plan[executor][m]
      BY <1>22, PlanGoesOn DEF EnterPhase, WorkersFollowThePlan
    <2>3. Following(at[w]) \in WorkingPhases
      BY <2>2, PlanShape
    <2>4. \/ run' = run /\ at' = at /\ worker' = [worker EXCEPT ![w] = "failing"]
          \/ /\ RunGoesOn /\ run'.phase = Following(at[w])
             /\ at' = [at EXCEPT ![w] = Following(at[w])]
             /\ worker' = [worker EXCEPT ![w] = StepAfter(Following(at[w]))]
      BY <1>22, <2>1, <2>3, AcceptedEvent, Recording, NoneIsNoPhase DEF EnterPhase, WorkerGoto,
         Phases, EventKinds, DetailsOf, VariantKinds
    <2>5. TypeOK'
      <3>1. run' \in RunStates \union {None}
        BY <2>1, <2>4 DEF RunGoesOn
      <3>2. at' \in [Pids -> Phases]
        BY <2>3, <2>4 DEF TypeOK, Phases
      <3>3. worker' \in [Pids -> WorkerSteps]
        BY <2>4 DEF StepAfter, TypeOK, WorkerSteps
      <3> QED BY <1>22, <3>1, <3>2, <3>3 DEF EnterPhase, startVars, TypeOK
    <2>6. RunIsAccountedFor'
      BY <1>22, <2>1, <2>2, <2>3, <2>4 DEF EnterPhase, WorkerGoto, startVars,
         StepAfter, RunGoesOn, TerminalPhases, TypeOK, RunIsAccountedFor,
         NamedOrStopping, Ended, WorkersKnow, Handling
    <2>7. StartersKnow'
      BY <1>22, <2>1, <2>2, <2>3, <2>4 DEF EnterPhase, WorkerGoto, startVars,
         StepAfter, RunGoesOn, TerminalPhases, TypeOK, StartersKnow, WithRun,
         BeforeLaunch, NamedOrStopping, Ended
    <2>8. OneApproval'
      BY <1>22, <2>1, <2>2, <2>3, <2>4 DEF EnterPhase, WorkerGoto, startVars,
         StepAfter, RunGoesOn, TerminalPhases, TypeOK, OneApproval
    <2>9. WorkersWereLaunched'
      BY <1>22, <2>1, <2>2, <2>3, <2>4 DEF EnterPhase, WorkerGoto, startVars,
         StepAfter, RunGoesOn, TerminalPhases, TypeOK, WorkersWereLaunched
    <2>10. WorkersKnow'
      BY <1>22, <2>1, <2>2, <2>3, <2>4, TerminalOnes DEF EnterPhase,
         WorkerGoto, startVars, StepAfter, RunGoesOn, TerminalPhases, TypeOK,
         WorkersKnow, Handling, Ended, Phases
    <2>11. WorkersFollowThePlan'
      <3>1. PICK m \in 1 .. Len(Plan[executor]) : Following(at[w]) = Plan[executor][m]
        BY <2>2
      <3>2. executor' = executor
        BY <1>22 DEF EnterPhase
      <3>3. ASSUME NEW v \in Pids
            PROVE  \E n \in 1 .. Len(Plan[executor]) : at'[v] = Plan[executor][n]
        BY <2>4, <3>1 DEF WorkersFollowThePlan, TypeOK
      <3>4. ASSUME NEW v \in Pids, at'[v] = "building_report"
            PROVE  worker'[v] \notin {"unborn", "announce", "write_pid", "install",
                                      "check", "advance"}
        <4>1. CASE v = w
          BY <1>22, <2>4, <3>4, <4>1 DEF EnterPhase, StepAfter, WorkersFollowThePlan, TypeOK
        <4>2. CASE v # w
          BY <2>4, <3>4, <4>2 DEF WorkersFollowThePlan, TypeOK
        <4> QED BY <4>1, <4>2
      <3> QED BY <3>2, <3>3, <3>4 DEF WorkersFollowThePlan
    <2>12. CancellersKnow'
      BY <1>22, <2>1, <2>2, <2>3, <2>4 DEF EnterPhase, WorkerGoto, startVars,
         StepAfter, RunGoesOn, TerminalPhases, TypeOK, CancellersKnow
    <2>13. CompletedNamesItsReport'
      BY <1>22, <2>1, <2>2, <2>3, <2>4 DEF EnterPhase, WorkerGoto, startVars,
         StepAfter, RunGoesOn, TerminalPhases, TypeOK, CompletedNamesItsReport,
         WorkingPhases
    <2>14. StartRecordHolds'
      BY <1>22, <2>1, <2>2, <2>3, <2>4 DEF EnterPhase, WorkerGoto, startVars,
         StepAfter, RunGoesOn, TerminalPhases, TypeOK, StartRecordHolds, Ended
    <2> QED BY <2>5, <2>6, <2>7, <2>8, <2>9, <2>10, <2>11, <2>12, <2>13, <2>14
  <1>23. ASSUME NEW w \in Pids, ReportEpisodes(w) PROVE Inv'
    <2>1. run \in RunStates
      BY <1>23 DEF ReportEpisodes, TypeOK, WorkersWereLaunched
    <2>2. PICK kind \in {"variant.progress", "progress.updated"} :
            \E detail \in DetailsOf(kind) :
            IF Accepts(None, kind, detail)
              THEN RecordEvent(None, kind, detail) /\ worker' = worker
              ELSE /\ run' = run
                   /\ worker' \in {[worker EXCEPT ![w] = "cancelling"], [worker EXCEPT ![w] = "failing"]}
      BY <1>23 DEF ReportEpisodes, WorkerGoto
    <2>3. PICK detail \in DetailsOf(kind) :
            IF Accepts(None, kind, detail)
            THEN RecordEvent(None, kind, detail) /\ worker' = worker
            ELSE /\ run' = run
                 /\ worker' \in {[worker EXCEPT ![w] = "cancelling"], [worker EXCEPT ![w] = "failing"]}
      BY <2>2
    <2>4. \/ RunGoesOn /\ run'.phase = run.phase /\ worker' = worker
          \/ /\ run' = run
             /\ worker' \in {[worker EXCEPT ![w] = "cancelling"], [worker EXCEPT ![w] = "failing"]}
      BY <2>1, <2>3, AcceptedEvent, Recording DEF EventKinds, VariantKinds
    <2>5. TypeOK'
      BY <1>23, <2>1, <2>2, <2>3, <2>4 DEF ReportEpisodes, WorkerGoto,
         startVars, RunGoesOn, TerminalPhases, TypeOK, StarterSteps,
         WorkerSteps
    <2>6. RunIsAccountedFor'
      BY <1>23, <2>1, <2>2, <2>3, <2>4 DEF ReportEpisodes, WorkerGoto,
         startVars, RunGoesOn, TerminalPhases, TypeOK, RunIsAccountedFor,
         NamedOrStopping, Ended
    <2>7. StartersKnow'
      BY <1>23, <2>1, <2>2, <2>3, <2>4 DEF ReportEpisodes, WorkerGoto,
         startVars, RunGoesOn, TerminalPhases, TypeOK, StartersKnow, WithRun,
         BeforeLaunch, NamedOrStopping, Ended
    <2>8. OneApproval'
      BY <1>23, <2>1, <2>2, <2>3, <2>4 DEF ReportEpisodes, WorkerGoto,
         startVars, RunGoesOn, TerminalPhases, TypeOK, OneApproval
    <2>9. WorkersWereLaunched'
      BY <1>23, <2>1, <2>2, <2>3, <2>4 DEF ReportEpisodes, WorkerGoto,
         startVars, RunGoesOn, TerminalPhases, TypeOK, WorkersWereLaunched
    <2>10. WorkersKnow'
      BY <1>23, <2>1, <2>2, <2>3, <2>4 DEF ReportEpisodes, WorkerGoto,
         startVars, RunGoesOn, TerminalPhases, TypeOK, WorkersKnow, Handling,
         Ended
    <2>11. WorkersFollowThePlan'
      BY <1>23, <2>1, <2>2, <2>3, <2>4 DEF ReportEpisodes, WorkerGoto,
         startVars, RunGoesOn, TerminalPhases, TypeOK, WorkersFollowThePlan
    <2>12. CancellersKnow'
      BY <1>23, <2>1, <2>2, <2>3, <2>4 DEF ReportEpisodes, WorkerGoto,
         startVars, RunGoesOn, TerminalPhases, TypeOK, CancellersKnow
    <2>13. CompletedNamesItsReport'
      BY <1>23, <2>1, <2>2, <2>3, <2>4 DEF ReportEpisodes, WorkerGoto,
         startVars, RunGoesOn, TerminalPhases, TypeOK, CompletedNamesItsReport
    <2>14. StartRecordHolds'
      BY <1>23, <2>1, <2>2, <2>3, <2>4 DEF ReportEpisodes, WorkerGoto,
         startVars, RunGoesOn, TerminalPhases, TypeOK, StartRecordHolds, Ended
    <2> QED BY <2>5, <2>6, <2>7, <2>8, <2>9, <2>10, <2>11, <2>12, <2>13, <2>14
  <1>24. ASSUME NEW w \in Pids, WriteResult(w) PROVE Inv'
    <2>1. run \in RunStates
      BY <1>24 DEF WriteResult, TypeOK, WorkersWereLaunched
    <2>2. \/ /\ RunGoesOn /\ run'.phase = run.phase /\ report = None /\ report' = w
             /\ worker' = [worker EXCEPT ![w] = "complete"]
          \/ run' = run /\ report' = report /\ worker' = [worker EXCEPT ![w] = "failing"]
      BY <1>24, <2>1, Reporting DEF WriteResult, WorkerGoto
    <2>3. TypeOK'
      BY <1>24, <2>1, <2>2 DEF WriteResult, WorkerGoto, startVars, RunGoesOn,
         TerminalPhases, TypeOK, StarterSteps, WorkerSteps
    <2>4. RunIsAccountedFor'
      BY <1>24, <2>1, <2>2 DEF WriteResult, WorkerGoto, startVars, RunGoesOn,
         TerminalPhases, TypeOK, RunIsAccountedFor, NamedOrStopping, Ended
    <2>5. StartersKnow'
      BY <1>24, <2>1, <2>2 DEF WriteResult, WorkerGoto, startVars, RunGoesOn,
         TerminalPhases, TypeOK, StartersKnow, WithRun, BeforeLaunch,
         NamedOrStopping, Ended
    <2>6. OneApproval'
      BY <1>24, <2>1, <2>2 DEF WriteResult, WorkerGoto, startVars, RunGoesOn,
         TerminalPhases, TypeOK, OneApproval
    <2>7. WorkersWereLaunched'
      BY <1>24, <2>1, <2>2 DEF WriteResult, WorkerGoto, startVars, RunGoesOn,
         TerminalPhases, TypeOK, WorkersWereLaunched
    <2>8. WorkersKnow'
      BY <1>24, <2>1, <2>2, NoneIsNoValue DEF WriteResult, WorkerGoto,
         startVars, RunGoesOn, TerminalPhases, TypeOK, WorkersKnow, Handling,
         Ended
    <2>9. WorkersFollowThePlan'
      BY <1>24, <2>1, <2>2 DEF WriteResult, WorkerGoto, startVars, RunGoesOn,
         TerminalPhases, TypeOK, WorkersFollowThePlan
    <2>10. CancellersKnow'
      BY <1>24, <2>1, <2>2 DEF WriteResult, WorkerGoto, startVars, RunGoesOn,
         TerminalPhases, TypeOK, CancellersKnow
    <2>11. CompletedNamesItsReport'
      BY <1>24, <2>1, <2>2 DEF WriteResult, WorkerGoto, startVars, RunGoesOn,
         TerminalPhases, TypeOK, CompletedNamesItsReport
    <2>12. StartRecordHolds'
      BY <1>24, <2>1, <2>2 DEF WriteResult, WorkerGoto, startVars, RunGoesOn,
         TerminalPhases, TypeOK, StartRecordHolds, Ended
    <2> QED BY <2>3, <2>4, <2>5, <2>6, <2>7, <2>8, <2>9, <2>10, <2>11, <2>12
  <1>25. ASSUME NEW w \in Pids, CompleteRun(w) PROVE Inv'
    <2>1. run \in RunStates
      BY <1>25 DEF CompleteRun, TypeOK, WorkersWereLaunched
    <2>2. \/ /\ RunGoesOn /\ run'.phase = "completed" /\ Ended' /\ run'.result_digest = w
             /\ worker' = [worker EXCEPT ![w] = "verify"]
          \/ run' = run /\ worker' = [worker EXCEPT ![w] = "failing"]
      BY <1>25, <2>1, Completing DEF CompleteRun, WorkerGoto
    <2>3. TypeOK'
      BY <1>25, <2>1, <2>2 DEF CompleteRun, WorkerGoto, startVars, RunGoesOn,
         TerminalPhases, TypeOK, StarterSteps, WorkerSteps
    <2>4. RunIsAccountedFor'
      BY <1>25, <2>1, <2>2 DEF CompleteRun, WorkerGoto, startVars, RunGoesOn,
         TerminalPhases, TypeOK, RunIsAccountedFor, NamedOrStopping, Ended
    <2>5. StartersKnow'
      BY <1>25, <2>1, <2>2 DEF CompleteRun, WorkerGoto, startVars, RunGoesOn,
         TerminalPhases, TypeOK, StartersKnow, WithRun, BeforeLaunch,
         NamedOrStopping, Ended
    <2>6. OneApproval'
      BY <1>25, <2>1, <2>2 DEF CompleteRun, WorkerGoto, startVars, RunGoesOn,
         TerminalPhases, TypeOK, OneApproval
    <2>7. WorkersWereLaunched'
      BY <1>25, <2>1, <2>2 DEF CompleteRun, WorkerGoto, startVars, RunGoesOn,
         TerminalPhases, TypeOK, WorkersWereLaunched
    <2>8. WorkersKnow'
      BY <1>25, <2>1, <2>2 DEF CompleteRun, WorkerGoto, startVars, RunGoesOn,
         TerminalPhases, TypeOK, WorkersKnow, Handling, Ended
    <2>9. WorkersFollowThePlan'
      BY <1>25, <2>1, <2>2 DEF CompleteRun, WorkerGoto, startVars, RunGoesOn,
         TerminalPhases, TypeOK, WorkersFollowThePlan
    <2>10. CancellersKnow'
      BY <1>25, <2>1, <2>2 DEF CompleteRun, WorkerGoto, startVars, RunGoesOn,
         TerminalPhases, TypeOK, CancellersKnow
    <2>11. CompletedNamesItsReport'
      BY <1>25, <2>1, <2>2, NoneIsNoValue DEF CompleteRun, WorkerGoto,
         startVars, RunGoesOn, TerminalPhases, TypeOK, CompletedNamesItsReport,
         WorkersKnow, Handling, Ended
    <2>12. StartRecordHolds'
      BY <1>25, <2>1, <2>2 DEF CompleteRun, WorkerGoto, startVars, RunGoesOn,
         TerminalPhases, TypeOK, StartRecordHolds, Ended
    <2> QED BY <2>3, <2>4, <2>5, <2>6, <2>7, <2>8, <2>9, <2>10, <2>11, <2>12
  <1>26. ASSUME NEW w \in Pids, VerifyRecorded(w) PROVE Inv'
    <2>1. TypeOK'
      BY <1>26 DEF VerifyRecorded, WorkerGoto, startVars, TypeOK, StarterSteps,
         WorkerSteps
    <2>2. WorkersWereLaunched'
      BY <1>26 DEF VerifyRecorded, WorkerGoto, startVars, TypeOK,
         WorkersWereLaunched
    <2>3. WorkersKnow'
      BY <1>26 DEF VerifyRecorded, WorkerGoto, startVars, TypeOK, WorkersKnow,
         Handling, Ended
    <2>4. WorkersFollowThePlan'
      BY <1>26 DEF VerifyRecorded, WorkerGoto, startVars, TypeOK,
         WorkersFollowThePlan
    <2>5. /\ RunIsAccountedFor'
          /\ StartersKnow'
          /\ OneApproval'
          /\ CancellersKnow'
          /\ CompletedNamesItsReport'
          /\ StartRecordHolds'
      BY <1>26 DEF VerifyRecorded, WorkerGoto, startVars, RunIsAccountedFor,
         NamedOrStopping, Ended, StartersKnow, WithRun, BeforeLaunch,
         OneApproval, CancellersKnow, CompletedNamesItsReport, StartRecordHolds
    <2> QED BY <2>1, <2>2, <2>3, <2>4, <2>5
  <1>27. ASSUME NEW w \in Pids, WorkFails(w) PROVE Inv'
    <2>1. TypeOK'
      BY <1>27, ControlConstants DEF WorkFails, WorkerGoto, startVars, Fault,
         TypeOK, StarterSteps, WorkerSteps
    <2>2. WorkersWereLaunched'
      BY <1>27 DEF WorkFails, WorkerGoto, startVars, Fault, TypeOK,
         WorkersWereLaunched
    <2>3. WorkersKnow'
      BY <1>27 DEF WorkFails, WorkerGoto, startVars, Fault, TypeOK,
         WorkersKnow, Handling, Ended
    <2>4. WorkersFollowThePlan'
      BY <1>27 DEF WorkFails, WorkerGoto, startVars, Fault, TypeOK,
         WorkersFollowThePlan
    <2>5. /\ RunIsAccountedFor'
          /\ StartersKnow'
          /\ OneApproval'
          /\ CancellersKnow'
          /\ CompletedNamesItsReport'
          /\ StartRecordHolds'
      BY <1>27 DEF WorkFails, WorkerGoto, startVars, Fault, RunIsAccountedFor,
         NamedOrStopping, Ended, StartersKnow, WithRun, BeforeLaunch,
         OneApproval, CancellersKnow, CompletedNamesItsReport, StartRecordHolds
    <2> QED BY <2>1, <2>2, <2>3, <2>4, <2>5
  <1>28. ASSUME NEW w \in Pids, HandleFailure(w) PROVE Inv'
    <2>0. CASE LeavesUnrecorded(w)
      BY <1>28, <2>0, WorkerLeaves DEF HandleFailure, LeavesUnrecorded
    <2> SUFFICES ASSUME ~(LeavesUnrecorded(w)) PROVE Inv'
      BY <2>0
    <2>a. /\ worker[w] = "failing"
          /\ Reading
          /\ WorkerGoto(w, IF Ended THEN "exited" ELSE "append_failed")
          /\ WorkerOnly
      BY <1>28 DEF HandleFailure
    <2>1. TypeOK'
      BY <2>a DEF WorkerOnly, Reading, WorkerGoto, startVars, TypeOK, StarterSteps,
         WorkerSteps
    <2>2. WorkersWereLaunched'
      BY <2>a DEF WorkerOnly, Reading, WorkerGoto, startVars, TypeOK,
         WorkersWereLaunched
    <2>3. WorkersKnow'
      BY <2>a DEF WorkerOnly, Reading, WorkerGoto, startVars, TypeOK, WorkersKnow,
         Handling, Ended
    <2>4. WorkersFollowThePlan'
      BY <2>a DEF WorkerOnly, Reading, WorkerGoto, startVars, TypeOK,
         WorkersFollowThePlan
    <2>5. /\ RunIsAccountedFor'
          /\ StartersKnow'
          /\ OneApproval'
          /\ CancellersKnow'
          /\ CompletedNamesItsReport'
          /\ StartRecordHolds'
      BY <2>a DEF WorkerOnly, Reading, WorkerGoto, startVars, RunIsAccountedFor,
         NamedOrStopping, Ended, StartersKnow, WithRun, BeforeLaunch,
         OneApproval, CancellersKnow, CompletedNamesItsReport, StartRecordHolds
    <2> QED BY <2>1, <2>2, <2>3, <2>4, <2>5
  <1>29. ASSUME NEW w \in Pids, AppendFailed(w) PROVE Inv'
    <2>0. CASE LeavesUnrecorded(w)
      BY <1>29, <2>0, WorkerLeaves DEF AppendFailed, LeavesUnrecorded
    <2> SUFFICES ASSUME ~(LeavesUnrecorded(w)) PROVE Inv'
      BY <2>0
    <2>a. /\ worker[w] = "append_failed"
          /\ IF Accepts("failed", "run.failed", None)
              THEN RecordEvent("failed", "run.failed", None)
              ELSE UNCHANGED run
          /\ WorkerGoto(w, "exited")
          /\ UNCHANGED faults
          /\ WorkerOnly
      BY <1>29 DEF AppendFailed
    <2>1. run \in RunStates
      BY <2>a DEF WorkerOnly, TypeOK, WorkersWereLaunched
    <2>2. \/ RunGoesOn /\ run'.phase = "failed" /\ Ended'
          \/ run' = run /\ Ended
      BY <2>a, <2>1, Failing DEF WorkerOnly
    <2>3. TypeOK'
      BY <2>a, <2>1, <2>2 DEF WorkerOnly, WorkerGoto, startVars, RunGoesOn,
         TerminalPhases, TypeOK, StarterSteps, WorkerSteps
    <2>4. RunIsAccountedFor'
      BY <2>a, <2>1, <2>2 DEF WorkerOnly, WorkerGoto, startVars, RunGoesOn,
         TerminalPhases, TypeOK, RunIsAccountedFor, NamedOrStopping, Ended
    <2>5. StartersKnow'
      BY <2>a, <2>1, <2>2 DEF WorkerOnly, WorkerGoto, startVars, RunGoesOn,
         TerminalPhases, TypeOK, StartersKnow, WithRun, BeforeLaunch,
         NamedOrStopping, Ended
    <2>6. OneApproval'
      BY <2>a, <2>1, <2>2 DEF WorkerOnly, WorkerGoto, startVars, RunGoesOn,
         TerminalPhases, TypeOK, OneApproval
    <2>7. WorkersWereLaunched'
      BY <2>a, <2>1, <2>2 DEF WorkerOnly, WorkerGoto, startVars, RunGoesOn,
         TerminalPhases, TypeOK, WorkersWereLaunched
    <2>8. WorkersKnow'
      BY <2>a, <2>1, <2>2 DEF WorkerOnly, WorkerGoto, startVars, RunGoesOn,
         TerminalPhases, TypeOK, WorkersKnow, Handling, Ended
    <2>9. WorkersFollowThePlan'
      BY <2>a, <2>1, <2>2 DEF WorkerOnly, WorkerGoto, startVars, RunGoesOn,
         TerminalPhases, TypeOK, WorkersFollowThePlan
    <2>10. CancellersKnow'
      BY <2>a, <2>1, <2>2 DEF WorkerOnly, WorkerGoto, startVars, RunGoesOn,
         TerminalPhases, TypeOK, CancellersKnow
    <2>11. CompletedNamesItsReport'
      BY <2>a, <2>1, <2>2 DEF WorkerOnly, WorkerGoto, startVars, RunGoesOn,
         TerminalPhases, TypeOK, CompletedNamesItsReport
    <2>12. StartRecordHolds'
      BY <2>a, <2>1, <2>2 DEF WorkerOnly, WorkerGoto, startVars, RunGoesOn,
         TerminalPhases, TypeOK, StartRecordHolds, Ended
    <2> QED BY <2>3, <2>4, <2>5, <2>6, <2>7, <2>8, <2>9, <2>10, <2>11, <2>12
  <1>30. ASSUME NEW w \in Pids, HandleCancelled(w) PROVE Inv'
    <2>0. CASE LeavesUnrecorded(w)
      BY <1>30, <2>0, WorkerLeaves DEF HandleCancelled, LeavesUnrecorded
    <2> SUFFICES ASSUME ~(LeavesUnrecorded(w)) PROVE Inv'
      BY <2>0
    <2>a. /\ worker[w] = "cancelling"
          /\ Reading
          /\ WorkerGoto(w, CASE Ended -> "exited"
                               [] ~Ended /\ run.phase = "cancel_requested" -> "stop"
                               [] OTHER -> "ask")
          /\ WorkerOnly
      BY <1>30 DEF HandleCancelled
    <2>1. TypeOK'
      BY <2>a DEF WorkerOnly, Reading, WorkerGoto, startVars, TypeOK,
         StarterSteps, WorkerSteps
    <2>2. WorkersWereLaunched'
      BY <2>a DEF WorkerOnly, Reading, WorkerGoto, startVars, TypeOK,
         WorkersWereLaunched
    <2>3. WorkersKnow'
      BY <2>a DEF WorkerOnly, Reading, WorkerGoto, startVars, TypeOK, WorkersKnow,
         Handling, Ended
    <2>4. WorkersFollowThePlan'
      BY <2>a DEF WorkerOnly, Reading, WorkerGoto, startVars, TypeOK,
         WorkersFollowThePlan
    <2>5. /\ RunIsAccountedFor'
          /\ StartersKnow'
          /\ OneApproval'
          /\ CancellersKnow'
          /\ CompletedNamesItsReport'
          /\ StartRecordHolds'
      BY <2>a DEF WorkerOnly, Reading, WorkerGoto, startVars, RunIsAccountedFor,
         NamedOrStopping, Ended, StartersKnow, WithRun, BeforeLaunch,
         OneApproval, CancellersKnow, CompletedNamesItsReport, StartRecordHolds
    <2> QED BY <2>1, <2>2, <2>3, <2>4, <2>5
  <1>31. ASSUME NEW w \in Pids, AskForCancel(w) PROVE Inv'
    <2>0. CASE LeavesUnrecorded(w)
      BY <1>31, <2>0, WorkerLeaves DEF AskForCancel, LeavesUnrecorded
    <2> SUFFICES ASSUME ~(LeavesUnrecorded(w)) PROVE Inv'
      BY <2>0
    <2>a. /\ worker[w] = "ask"
          /\ RequestCancel
          /\ WorkerGoto(w, IF Ended THEN "exited" ELSE "stop")
          /\ UNCHANGED faults
          /\ WorkerOnly
      BY <1>31 DEF AskForCancel
    <2>1. run \in RunStates
      BY <2>a DEF WorkerOnly, TypeOK, WorkersWereLaunched
    <2>2. IF Ended THEN run' = run
          ELSE /\ run'.phase = "cancel_requested"
               /\ \/ run' = run
                  \/ RunGoesOn /\ run'.cancel_requested_at # None
      BY <2>a, <2>1, StopIsRecorded DEF WorkerOnly
    <2>3. TypeOK'
      BY <2>a, <2>1, <2>2 DEF WorkerOnly, WorkerGoto, startVars, RunGoesOn,
         TerminalPhases, TypeOK, StarterSteps, WorkerSteps
    <2>4. RunIsAccountedFor'
      BY <2>a, <2>1, <2>2 DEF WorkerOnly, WorkerGoto, startVars, RunGoesOn,
         TerminalPhases, TypeOK, RunIsAccountedFor, NamedOrStopping, Ended
    <2>5. StartersKnow'
      BY <2>a, <2>1, <2>2 DEF WorkerOnly, WorkerGoto, startVars, RunGoesOn,
         TerminalPhases, TypeOK, StartersKnow, WithRun, BeforeLaunch,
         NamedOrStopping, Ended
    <2>6. OneApproval'
      BY <2>a, <2>1, <2>2 DEF WorkerOnly, WorkerGoto, startVars, RunGoesOn,
         TerminalPhases, TypeOK, OneApproval
    <2>7. WorkersWereLaunched'
      BY <2>a, <2>1, <2>2 DEF WorkerOnly, WorkerGoto, startVars, RunGoesOn,
         TerminalPhases, TypeOK, WorkersWereLaunched
    <2>8. WorkersKnow'
      BY <2>a, <2>1, <2>2 DEF WorkerOnly, WorkerGoto, startVars, RunGoesOn,
         TerminalPhases, TypeOK, WorkersKnow, Handling, Ended
    <2>9. WorkersFollowThePlan'
      BY <2>a, <2>1, <2>2 DEF WorkerOnly, WorkerGoto, startVars, RunGoesOn,
         TerminalPhases, TypeOK, WorkersFollowThePlan
    <2>10. CancellersKnow'
      BY <2>a, <2>1, <2>2 DEF WorkerOnly, WorkerGoto, startVars, RunGoesOn,
         TerminalPhases, TypeOK, CancellersKnow
    <2>11. CompletedNamesItsReport'
      BY <2>a, <2>1, <2>2 DEF WorkerOnly, WorkerGoto, startVars, RunGoesOn,
         TerminalPhases, TypeOK, CompletedNamesItsReport
    <2>12. StartRecordHolds'
      BY <2>a, <2>1, <2>2 DEF WorkerOnly, WorkerGoto, startVars, RunGoesOn,
         TerminalPhases, TypeOK, StartRecordHolds, Ended
    <2> QED BY <2>3, <2>4, <2>5, <2>6, <2>7, <2>8, <2>9, <2>10, <2>11, <2>12
  <1>32. ASSUME NEW w \in Pids, AppendCancelled(w) PROVE Inv'
    <2>0. CASE LeavesUnrecorded(w)
      BY <1>32, <2>0, WorkerLeaves DEF AppendCancelled, LeavesUnrecorded
    <2> SUFFICES ASSUME ~(LeavesUnrecorded(w)) PROVE Inv'
      BY <2>0
    <2>a. /\ worker[w] = "stop"
          /\ IF Accepts("cancelled", "run.cancelled", None)
              THEN RecordEvent("cancelled", "run.cancelled", None)
              ELSE UNCHANGED run
          /\ WorkerGoto(w, "exited")
          /\ UNCHANGED faults
          /\ WorkerOnly
      BY <1>32 DEF AppendCancelled
    <2>1. run \in RunStates
      BY <2>a DEF WorkerOnly, TypeOK, WorkersWereLaunched
    <2>2. run.phase = "cancel_requested" \/ Ended
      BY <2>a DEF WorkerOnly, WorkersKnow
    <2>3. \/ RunGoesOn /\ run'.phase = "cancelled" /\ Ended'
          \/ run' = run /\ Ended
      BY <2>a, <2>1, <2>2, Cancelling DEF WorkerOnly
    <2>4. TypeOK'
      BY <2>a, <2>1, <2>2, <2>3 DEF WorkerOnly, WorkerGoto, startVars,
         RunGoesOn, TerminalPhases, TypeOK, StarterSteps, WorkerSteps
    <2>5. RunIsAccountedFor'
      BY <2>a, <2>1, <2>2, <2>3 DEF WorkerOnly, WorkerGoto, startVars,
         RunGoesOn, TerminalPhases, TypeOK, RunIsAccountedFor, NamedOrStopping,
         Ended
    <2>6. StartersKnow'
      BY <2>a, <2>1, <2>2, <2>3 DEF WorkerOnly, WorkerGoto, startVars,
         RunGoesOn, TerminalPhases, TypeOK, StartersKnow, WithRun,
         BeforeLaunch, NamedOrStopping, Ended
    <2>7. OneApproval'
      BY <2>a, <2>1, <2>2, <2>3 DEF WorkerOnly, WorkerGoto, startVars,
         RunGoesOn, TerminalPhases, TypeOK, OneApproval
    <2>8. WorkersWereLaunched'
      BY <2>a, <2>1, <2>2, <2>3 DEF WorkerOnly, WorkerGoto, startVars,
         RunGoesOn, TerminalPhases, TypeOK, WorkersWereLaunched
    <2>9. WorkersKnow'
      BY <2>a, <2>1, <2>2, <2>3 DEF WorkerOnly, WorkerGoto, startVars,
         RunGoesOn, TerminalPhases, TypeOK, WorkersKnow, Handling, Ended
    <2>10. WorkersFollowThePlan'
      BY <2>a, <2>1, <2>2, <2>3 DEF WorkerOnly, WorkerGoto, startVars,
         RunGoesOn, TerminalPhases, TypeOK, WorkersFollowThePlan
    <2>11. CancellersKnow'
      BY <2>a, <2>1, <2>2, <2>3 DEF WorkerOnly, WorkerGoto, startVars,
         RunGoesOn, TerminalPhases, TypeOK, CancellersKnow
    <2>12. CompletedNamesItsReport'
      BY <2>a, <2>1, <2>2, <2>3 DEF WorkerOnly, WorkerGoto, startVars,
         RunGoesOn, TerminalPhases, TypeOK, CompletedNamesItsReport
    <2>13. StartRecordHolds'
      BY <2>a, <2>1, <2>2, <2>3 DEF WorkerOnly, WorkerGoto, startVars,
         RunGoesOn, TerminalPhases, TypeOK, StartRecordHolds, Ended
    <2> QED BY <2>4, <2>5, <2>6, <2>7, <2>8, <2>9, <2>10, <2>11, <2>12, <2>13
  <1>33. ASSUME NEW w \in Pids, WorkerDies(w) PROVE Inv'
    <2>1. TypeOK'
      BY <1>33, ControlConstants DEF WorkerDies, WorkerGoto, startVars, Fault,
         Alive, TypeOK, StarterSteps, WorkerSteps
    <2>2. WorkersWereLaunched'
      BY <1>33 DEF WorkerDies, WorkerGoto, startVars, Fault, Alive, TypeOK,
         WorkersWereLaunched, WorkersKnow, Handling, Ended
    <2>3. WorkersKnow'
      BY <1>33 DEF WorkerDies, WorkerGoto, startVars, Fault, Alive, TypeOK,
         WorkersKnow, Handling, Ended
    <2>4. WorkersFollowThePlan'
      BY <1>33 DEF WorkerDies, WorkerGoto, startVars, Fault, Alive, TypeOK,
         WorkersFollowThePlan
    <2>5. /\ RunIsAccountedFor'
          /\ StartersKnow'
          /\ OneApproval'
          /\ CancellersKnow'
          /\ CompletedNamesItsReport'
          /\ StartRecordHolds'
      BY <1>33 DEF WorkerDies, WorkerGoto, startVars, Fault, Alive,
         RunIsAccountedFor, NamedOrStopping, Ended, StartersKnow, WithRun,
         BeforeLaunch, OneApproval, CancellersKnow, CompletedNamesItsReport,
         StartRecordHolds
    <2> QED BY <2>1, <2>2, <2>3, <2>4, <2>5
  <1>34. ASSUME NEW w \in Pids, TerminatedFromOutside(w) PROVE Inv'
    <2>1. TypeOK'
      <3>1. worker' \in [Pids -> WorkerSteps] /\ signalled' \in [Pids -> BOOLEAN]
        BY <1>34 DEF TerminatedFromOutside, Terminated, WorkerGoto, TypeOK, WorkerSteps
      <3>2. faults' \in 0 .. MaxFaults
        BY <1>34, ControlConstants DEF TerminatedFromOutside, Fault, TypeOK
      <3> QED BY <1>34, <3>1, <3>2 DEF TerminatedFromOutside, startVars, TypeOK
    <2>2. WorkersWereLaunched'
      BY <1>34 DEF TerminatedFromOutside, WorkerGoto, startVars, Fault, Alive,
         Terminated, Handling, TypeOK, WorkersWereLaunched
    <2>3. WorkersKnow'
      BY <1>34 DEF TerminatedFromOutside, WorkerGoto, startVars, Fault, Alive,
         Terminated, Handling, TypeOK, WorkersKnow, Ended
    <2>4. WorkersFollowThePlan'
      BY <1>34 DEF TerminatedFromOutside, WorkerGoto, startVars, Fault, Alive,
         Terminated, Handling, TypeOK, WorkersFollowThePlan
    <2>5. /\ RunIsAccountedFor'
          /\ StartersKnow'
          /\ OneApproval'
          /\ CancellersKnow'
          /\ CompletedNamesItsReport'
          /\ StartRecordHolds'
      BY <1>34 DEF TerminatedFromOutside, WorkerGoto, startVars, Fault, Alive,
         Terminated, Handling, RunIsAccountedFor, NamedOrStopping, Ended,
         StartersKnow, WithRun, BeforeLaunch, OneApproval, CancellersKnow,
         CompletedNamesItsReport, StartRecordHolds
    <2> QED BY <2>1, <2>2, <2>3, <2>4, <2>5
  <1>35. ASSUME NEW c \in Cancellers, CancelLook(c) PROVE Inv'
    <2>1. TypeOK'
      BY <1>35 DEF CancelLook, CancellerGoto, startVars, workVars, TypeOK,
         StarterSteps, WorkerSteps
    <2>2. CancellersKnow'
      BY <1>35 DEF CancelLook, CancellerGoto, startVars, workVars, TypeOK,
         CancellersKnow
    <2>3. /\ RunIsAccountedFor'
          /\ StartersKnow'
          /\ OneApproval'
          /\ WorkersWereLaunched'
          /\ WorkersKnow'
          /\ WorkersFollowThePlan'
          /\ CompletedNamesItsReport'
          /\ StartRecordHolds'
      BY <1>35 DEF CancelLook, CancellerGoto, startVars, workVars,
         RunIsAccountedFor, NamedOrStopping, Ended, StartersKnow, WithRun,
         BeforeLaunch, OneApproval, WorkersWereLaunched, WorkersKnow, Handling,
         WorkersFollowThePlan, CompletedNamesItsReport, StartRecordHolds
    <2> QED BY <2>1, <2>2, <2>3
  <1>36. ASSUME NEW c \in Cancellers, CancelAsk(c) PROVE Inv'
    <2>1. run \in RunStates
      BY <1>36 DEF CancelAsk, CancellersKnow, TypeOK
    <2>2. IF Ended THEN run' = run
          ELSE /\ run'.phase = "cancel_requested"
               /\ \/ run' = run
                  \/ RunGoesOn /\ run'.cancel_requested_at # None
      BY <1>36, <2>1, StopIsRecorded DEF CancelAsk
    <2>3. TypeOK'
      BY <1>36, <2>1, <2>2 DEF CancelAsk, CancellerGoto, startVars, workVars,
         RunGoesOn, TerminalPhases, TypeOK, StarterSteps, WorkerSteps
    <2>4. RunIsAccountedFor'
      BY <1>36, <2>1, <2>2 DEF CancelAsk, CancellerGoto, startVars, workVars,
         RunGoesOn, TerminalPhases, TypeOK, RunIsAccountedFor, NamedOrStopping,
         Ended
    <2>5. StartersKnow'
      BY <1>36, <2>1, <2>2 DEF CancelAsk, CancellerGoto, startVars, workVars,
         RunGoesOn, TerminalPhases, TypeOK, StartersKnow, WithRun,
         BeforeLaunch, NamedOrStopping, Ended
    <2>6. OneApproval'
      BY <1>36, <2>1, <2>2 DEF CancelAsk, CancellerGoto, startVars, workVars,
         RunGoesOn, TerminalPhases, TypeOK, OneApproval
    <2>7. WorkersWereLaunched'
      BY <1>36, <2>1, <2>2 DEF CancelAsk, CancellerGoto, startVars, workVars,
         RunGoesOn, TerminalPhases, TypeOK, WorkersWereLaunched
    <2>8. WorkersKnow'
      BY <1>36, <2>1, <2>2 DEF CancelAsk, CancellerGoto, startVars, workVars,
         RunGoesOn, TerminalPhases, TypeOK, WorkersKnow, Handling, Ended
    <2>9. CancellersKnow'
      BY <1>36, <2>1, <2>2 DEF CancelAsk, CancellerGoto, startVars, workVars,
         RunGoesOn, TerminalPhases, TypeOK, CancellersKnow
    <2>10. CompletedNamesItsReport'
      BY <1>36, <2>1, <2>2 DEF CancelAsk, CancellerGoto, startVars, workVars,
         RunGoesOn, TerminalPhases, TypeOK, CompletedNamesItsReport
    <2>11. StartRecordHolds'
      BY <1>36, <2>1, <2>2 DEF CancelAsk, CancellerGoto, startVars, workVars,
         RunGoesOn, TerminalPhases, TypeOK, StartRecordHolds, Ended
    <2>12. WorkersFollowThePlan'
      BY <1>36, <2>1, <2>2 DEF CancelAsk, CancellerGoto, startVars, workVars,
         RunGoesOn, TerminalPhases, WorkersFollowThePlan
    <2> QED BY <2>3, <2>4, <2>5, <2>6, <2>7, <2>8, <2>9, <2>10, <2>11, <2>12
  <1>37. ASSUME NEW c \in Cancellers, CancelSignal(c) PROVE Inv'
    <2>1. TypeOK'
      BY <1>37 DEF CancelSignal, CancellerGoto, startVars, workVars, Alive,
         Terminated, Handling, WorkerGoto, TypeOK, StarterSteps, WorkerSteps
    <2>2. WorkersWereLaunched'
      BY <1>37 DEF CancelSignal, CancellerGoto, startVars, workVars, Alive,
         Terminated, Handling, WorkerGoto, TypeOK, WorkersWereLaunched
    <2>3. WorkersKnow'
      BY <1>37 DEF CancelSignal, CancellerGoto, startVars, workVars, Alive,
         Terminated, Handling, WorkerGoto, TypeOK, WorkersKnow, Ended
    <2>4. WorkersFollowThePlan'
      BY <1>37 DEF CancelSignal, CancellerGoto, startVars, workVars, Alive,
         Terminated, Handling, WorkerGoto, TypeOK, WorkersFollowThePlan
    <2>5. CancellersKnow'
      BY <1>37 DEF CancelSignal, CancellerGoto, startVars, workVars, Alive,
         Terminated, Handling, WorkerGoto, TypeOK, CancellersKnow
    <2>6. /\ RunIsAccountedFor'
          /\ StartersKnow'
          /\ OneApproval'
          /\ CompletedNamesItsReport'
          /\ StartRecordHolds'
      BY <1>37 DEF CancelSignal, CancellerGoto, startVars, workVars, Alive,
         Terminated, Handling, WorkerGoto, RunIsAccountedFor, NamedOrStopping,
         Ended, StartersKnow, WithRun, BeforeLaunch, OneApproval,
         CompletedNamesItsReport, StartRecordHolds
    <2> QED BY <2>1, <2>2, <2>3, <2>4, <2>5, <2>6
  <1> QED BY <1>1, <1>2, <1>3, <1>4, <1>5, <1>6, <1>7, <1>8, <1>9, <1>10,
     <1>11, <1>12, <1>13, <1>14, <1>15, <1>16, <1>17, <1>18, <1>19, <1>20,
     <1>21, <1>22, <1>23, <1>24, <1>25, <1>26, <1>27, <1>28, <1>29, <1>30,
     <1>31, <1>32, <1>33, <1>34, <1>35, <1>36, <1>37 DEF StarterStep,
     WorkerStep, CancellerStep, Next

-----------------------------------------------------------------------------
\* Every variable stays in its domain: the state of the run is one of the machine's,
\* whichever process recorded what.
THEOREM RunControlTypes == Spec => []TypeOK
  <1>1. Inv => TypeOK
    BY DEF Inv
  <1> QED BY <1>1, InitInv, StepInv, PTL DEF Spec

\* A completed run names the report on disk, for any number of workers on it and
\* wherever one of them died.
THEOREM CompletedRunsNameTheirReport == Spec => []CompletedNamesItsReport
  <1>1. Inv => CompletedNamesItsReport
    BY DEF Inv
  <1> QED BY <1>1, InitInv, StepInv, PTL DEF Spec

\* The record a draft keeps of its start is true of the run, for any number of
\* starts of the draft, concurrent, repeated or dead.
THEOREM StartRecordsHold == Spec => []StartRecordHolds
  <1>1. Inv => StartRecordHolds
    BY DEF Inv
  <1> QED BY <1>1, InitInv, StepInv, PTL DEF Spec

\* A worker that is gone left its run ended, unless it was turned away, killed, or
\* failed by the store while it recorded the ending, for any number of starts,
\* workers and cancellations: the run's rules accept the failure of every run that
\* has not ended and the cancellation of every run that is stopping, so the last
\* thing a worker can record ends the run.
THEOREM WorkersEndTheirRuns == Spec => []WorkerExitEndsTheRun
  <1>1. Inv => WorkerExitEndsTheRun
    BY DEF Inv, TypeOK, WorkerSteps, WorkersKnow, WorkerExitEndsTheRun, Alive, Handling
  <1> QED BY <1>1, InitInv, StepInv, PTL DEF Spec

=============================================================================
