----------------------------- MODULE RunControl -----------------------------
(***************************************************************************)
(* One draft, and every process that acts on the run it is spent on: the   *)
(* `run start` commands (first attempts and retries, concurrent or not),   *)
(* the detached workers they launch, the `run cancel` commands and the     *)
(* signals they send.  The processes share the draft's start record, the   *)
(* run directory and nothing else.                                         *)
(*                                                                         *)
(* Source: src/techtree/runs/service.py, launcher.py, executor.py, fake.py,*)
(* variants.py, src/techtree/worker/execute.py, uplift/service.py and the  *)
(* start claim of drafts/store.py.                                         *)
(*                                                                         *)
(* A store operation is one step: RunStore shows that operations holding   *)
(* the run's lock are serialised and that state() answers with a state the *)
(* run was in while it ran.  Two steps of one process are never merged, so *)
(* whatever a process read may be stale when it acts on it.                *)
(***************************************************************************)
EXTENDS RunMachine, FiniteSets

CONSTANTS
  Starters,      \* `run start` commands on the draft
  Cancellers,    \* `run cancel` commands on the run
  Executors,     \* the executors and schedules a run may be created for
  MaxFaults      \* bound: errors inside workers, launches that fail, and
                 \* processes killed between two steps

\* A worker is named by its pid, and so is the report it builds: two workers
\* never build the same bytes, because a report records when it was created.
ASSUME ControlConstants == /\ Pids \subseteq Digests
                           /\ IsFiniteSet(Pids) /\ IsFiniteSet(Starters)
                           /\ Cardinality(Pids) = Cardinality(Starters)
                           /\ Executors \subseteq {"fake", "sequential", "parallel"}
                           /\ MaxFaults \in Nat

\* What is kept of the state a journal reduces to (see Forget).
RunStates ==
  [phase : Phases, sequence : {0}, worker_pid : Pids \union {None},
   worker_started_at : {None}, cancel_requested_at : {None, 0}, error : {None, 0},
   progress : {None}, variant_progress : {OpeningState.variant_progress},
   result_digest : Digests \union {None}]

ASSUME NoneIsNoRun == /\ None \notin RunStates
                      /\ None \notin {"claimed", "launched", "launch_failed"}

VARIABLES
  executor,    \* the request's executor and schedule, fixed when it is written
  record,      \* the status in the draft's start.json, None while unclaimed
  run,         \* the state the run's journal reduces to, None before create
  report,      \* the digest of the report on disk
  staged,      \* whether the run owns its inputs directory
  starter,     \* per starter: its next step
  seen,        \* per starter: the status of the start record it was given
  launched,    \* per starter: the worker it launched
  worker,      \* per worker: its next step
  at,          \* per worker: the phase its executor last entered
  signalled,   \* per worker: whether its SIGTERM handler has run
  canceller,   \* per canceller: its next step
  approvals,   \* run.approved events recorded (history)
  faults       \* faults so far

startVars == <<record, staged, starter, seen, launched>>
workVars == <<worker, at, signalled>>
vars == <<executor, record, run, report, staged, starter, seen, launched,
          worker, at, signalled, canceller, approvals, faults>>

StarterSteps == {"claim", "find", "create", "approve", "stage", "rename", "look",
                 "launch", "look_again", "write_pid", "mark_launched",
                 "mark_unnamed", "fail_look", "fail_append", "mark_failed",
                 "done", "done_unnamed", "refused", "crashed"}

StarterStopped == {"done", "done_unnamed", "refused", "crashed"}

WorkerSteps == {"unborn", "announce", "write_pid", "install", "check", "advance",
                "write_result", "complete", "verify", "failing", "append_failed",
                "cancelling", "ask", "stop", "exited", "turned_away", "unrecorded",
                "killed"}

\* The steps of a worker whose signal handlers are in place.
Handling == {"check", "advance", "write_result", "complete", "verify", "failing",
             "append_failed", "cancelling", "ask", "stop"}

Alive(w) == worker[w] \in Handling \union {"announce", "write_pid", "install"}

Init ==
  /\ executor \in Executors
  /\ record = None
  /\ run = None
  /\ report = None
  /\ staged = FALSE
  /\ starter = [s \in Starters |-> "claim"]
  /\ seen = [s \in Starters |-> None]
  /\ launched = [s \in Starters |-> None]
  /\ worker = [w \in Pids |-> "unborn"]
  /\ at = [w \in Pids |-> "created"]
  /\ signalled = [w \in Pids |-> FALSE]
  /\ canceller = [c \in Cancellers |-> "look"]
  /\ approvals = 0
  /\ faults = 0

-----------------------------------------------------------------------------
(* The store, one operation per step *)

Accepts(phase, kind, detail) == Applies(run, EventAfter(run, phase, kind, detail))

\* What no process here looks at is forgotten: sequence numbers, the moments
\* events were recorded at, and the position inside a phase.
Forget(state) ==
  LET recorded(stamp) == IF stamp = None THEN None ELSE 0
  IN [state EXCEPT !.sequence = 0, !.worker_started_at = None,
                   !.cancel_requested_at = recorded(@), !.error = recorded(@),
                   !.progress = None, !.variant_progress = OpeningState.variant_progress]

RecordEvent(phase, kind, detail) ==
  run' = Forget(Project(run, EventAfter(run, phase, kind, detail)))

Fault == faults < MaxFaults /\ faults' = faults + 1

\* An operation that only reads the run.
Reading == UNCHANGED <<run, faults>>

\* The store raises: the run's lock was held for too long, or its journal or
\* directory cannot be read or written.  The run stays as it is.
StoreFails == Fault /\ UNCHANGED run

Ended == run # None /\ IsTerminal(run.phase)

StarterGoto(s, step) == starter' = [starter EXCEPT ![s] = step]
WorkerGoto(w, step) == worker' = [worker EXCEPT ![w] = step]
CancellerGoto(c, step) == canceller' = [canceller EXCEPT ![c] = step]

-----------------------------------------------------------------------------
(* run start *)

\* claim_start: the first claim spends the draft, a later one is told of it.
ClaimDraft(s) ==
  /\ starter[s] = "claim"
  /\ record' = IF record = None THEN "claimed" ELSE record
  /\ seen' = [seen EXCEPT ![s] = record']
  /\ StarterGoto(s, "find")
  /\ UNCHANGED <<executor, run, report, staged, launched, workVars, canceller,
                 approvals, faults>>

FindRun(s) ==
  /\ starter[s] = "find"
  /\ StarterGoto(s, IF run = None THEN "create" ELSE "stage")
  /\ UNCHANGED <<executor, record, run, report, staged, seen, launched, workVars,
                 canceller, approvals, faults>>

\* A starter that lost the race to create is refused with run_already_exists.
CreateRun(s) ==
  /\ starter[s] = "create"
  /\ IF run = None
     THEN run' = Project(OpeningState, CreatedEvent) /\ StarterGoto(s, "approve")
     ELSE UNCHANGED run /\ StarterGoto(s, "refused")
  /\ UNCHANGED <<executor, record, report, staged, seen, launched, workVars,
                 canceller, approvals, faults>>

\* The approval is a second operation: the run may have moved on before it.
ApproveRun(s) ==
  /\ starter[s] = "approve"
  /\ IF Accepts("created", "run.approved", None)
     THEN /\ RecordEvent("created", "run.approved", None)
          /\ approvals' = approvals + 1
          /\ StarterGoto(s, "stage")
     ELSE /\ StarterGoto(s, "refused")
          /\ UNCHANGED <<run, approvals>>
  /\ UNCHANGED <<executor, record, report, staged, seen, launched, workVars,
                 canceller, faults>>

StageInputs(s) ==
  /\ starter[s] = "stage"
  /\ StarterGoto(s, IF staged THEN "look" ELSE "rename")
  /\ UNCHANGED <<executor, record, run, report, staged, seen, launched, workVars,
                 canceller, approvals, faults>>

\* os.rename onto a directory another starter put in place raises.
RenameInputs(s) ==
  /\ starter[s] = "rename"
  /\ staged' = TRUE
  /\ StarterGoto(s, IF staged THEN "refused" ELSE "look")
  /\ UNCHANGED <<executor, record, run, report, seen, launched, workVars,
                 canceller, approvals, faults>>

\* _ensure_launched trusts the start record it was handed and one look at the run.
LookForWorker(s) ==
  /\ starter[s] = "look"
  /\ StarterGoto(s, CASE seen[s] = "launch_failed" -> "refused"
                      [] seen[s] # "launch_failed" /\ (run.worker_pid # None \/ Ended) -> "done"
                      [] OTHER -> "launch")
  /\ UNCHANGED <<executor, record, run, report, staged, seen, launched, workVars,
                 canceller, approvals, faults>>

Launch(s) ==
  /\ starter[s] = "launch"
  /\ LET w == CHOOSE pid \in Pids : worker[pid] = "unborn"   \* a fresh pid
     IN /\ WorkerGoto(w, "announce")
        /\ launched' = [launched EXCEPT ![s] = w]
  /\ StarterGoto(s, "look_again")
  /\ UNCHANGED <<executor, record, run, report, staged, seen, at, signalled,
                 canceller, approvals, faults>>

LaunchFails(s) ==
  /\ starter[s] = "launch"
  /\ Fault
  /\ StarterGoto(s, "fail_look")
  /\ UNCHANGED <<executor, record, run, report, staged, seen, launched, workVars,
                 canceller, approvals>>

LookAgain(s) ==
  /\ starter[s] = "look_again"
  /\ StarterGoto(s, IF run.worker_pid = None THEN "write_pid" ELSE "mark_launched")
  /\ UNCHANGED <<executor, record, run, report, staged, seen, launched, workVars,
                 canceller, approvals, faults>>

\* A refusal to record the pid is suppressed, and so is a lock held too long:
\* the draft is marked launched all the same.
RecordPid(s) ==
  /\ starter[s] = "write_pid"
  /\ \/ /\ IF Accepts(None, "worker.started", launched[s])
           THEN RecordEvent(None, "worker.started", launched[s])
           ELSE UNCHANGED run
        /\ StarterGoto(s, "mark_launched")
        /\ UNCHANGED faults
     \/ StoreFails /\ StarterGoto(s, "mark_unnamed")
  /\ UNCHANGED <<executor, record, report, staged, seen, launched, workVars,
                 canceller, approvals>>

MarkLaunched(s) ==
  /\ starter[s] \in {"mark_launched", "mark_unnamed"}
  /\ record' = "launched"
  /\ StarterGoto(s, IF starter[s] = "mark_launched" THEN "done" ELSE "done_unnamed")
  /\ UNCHANGED <<executor, run, report, staged, seen, launched, workVars,
                 canceller, approvals, faults>>

\* Mutant of FailLook: a run that names a worker is left alone.
FailLookForWorker(s) ==
  /\ starter[s] = "fail_look"
  /\ StarterGoto(s, IF Ended \/ run.worker_pid # None THEN "mark_failed" ELSE "fail_append")
  /\ UNCHANGED <<executor, record, run, report, staged, seen, launched, workVars,
                 canceller, approvals, faults>>

\* _record_launch_failure: look, fail the run unless it has ended, mark the draft.
FailLook(s) ==
  /\ starter[s] = "fail_look"
  /\ StarterGoto(s, IF Ended THEN "mark_failed" ELSE "fail_append")
  /\ UNCHANGED <<executor, record, run, report, staged, seen, launched, workVars,
                 canceller, approvals, faults>>

FailRun(s) ==
  /\ starter[s] = "fail_append"
  /\ IF Accepts("failed", "run.failed", None)
     THEN RecordEvent("failed", "run.failed", None) /\ StarterGoto(s, "mark_failed")
     ELSE UNCHANGED run /\ StarterGoto(s, "refused")
  /\ UNCHANGED <<executor, record, report, staged, seen, launched, workVars,
                 canceller, approvals, faults>>

MarkLaunchFailed(s) ==
  /\ starter[s] = "mark_failed"
  /\ record' = "launch_failed"
  /\ StarterGoto(s, "refused")
  /\ UNCHANGED <<executor, run, report, staged, seen, launched, workVars,
                 canceller, approvals, faults>>

StarterDies(s) ==
  /\ starter[s] \notin StarterStopped \union {"claim"}
  /\ Fault
  /\ StarterGoto(s, "crashed")
  /\ UNCHANGED <<executor, record, run, report, staged, seen, launched, workVars,
                 canceller, approvals>>

-----------------------------------------------------------------------------
(* The worker: taking the run on *)

\* A step of one worker in which no other process takes part.
WorkerOnly == UNCHANGED <<executor, startVars, report, at, signalled, canceller, approvals>>

\* A run that already names a worker is not asked whether it is this one.
Announce(w) ==
  /\ worker[w] = "announce"
  /\ \/ Reading /\ WorkerGoto(w, IF run.worker_pid = None THEN "write_pid" ELSE "install")
     \/ StoreFails /\ WorkerGoto(w, "turned_away")
  /\ WorkerOnly

\* A refusal ends the process: nothing is recorded against the run.
AnnouncePid(w) ==
  /\ worker[w] = "write_pid"
  /\ \/ /\ IF Accepts(None, "worker.started", w)
           THEN RecordEvent(None, "worker.started", w) /\ WorkerGoto(w, "install")
           ELSE UNCHANGED run /\ WorkerGoto(w, "turned_away")
        /\ UNCHANGED faults
     \/ StoreFails /\ WorkerGoto(w, "turned_away")
  /\ WorkerOnly

-----------------------------------------------------------------------------
(* The worker: executing *)

\* The phase each executor enters after each one it has entered.
Plan ==
  [fake |-> <<"created", "validating_taskset", "running_baseline",
              "running_candidate", "building_receipts",
              "verifying_comparison", "building_report">>,
   sequential |-> <<"created", "validating_taskset", "running_baseline",
                    "running_candidate", "building_receipts",
                    "verifying_comparison", "building_report">>,
   parallel |-> <<"created", "validating_taskset", "running_variants",
                  "building_receipts", "verifying_comparison", "building_report">>]

Following(phase) ==
  LET plan == Plan[executor]
  IN plan[1 + CHOOSE n \in 1 .. Len(plan) - 1 : plan[n] = phase]

\* The phases an executor looks for a cancellation before entering.  The two
\* real schedules share a report service that looks once, before its first.
LooksBefore ==
  [fake |-> {"running_baseline", "running_candidate", "building_receipts",
             "verifying_comparison", "building_report"},
   sequential |-> {"running_baseline", "running_candidate", "building_receipts"},
   parallel |-> {"running_variants", "building_receipts"}]

\* Mutant of StepAfter: the run is completed before its report is written.
StepAfterCompletesFirst(phase) ==
  IF phase = "building_report" THEN "complete"
  ELSE IF Following(phase) \in LooksBefore[executor] THEN "check" ELSE "advance"

StepAfter(phase) ==
  IF phase = "building_report" THEN "write_result"
  ELSE IF Following(phase) \in LooksBefore[executor] THEN "check" ELSE "advance"

InstallHandlers(w) ==
  /\ worker[w] = "install"
  /\ WorkerGoto(w, StepAfter("created"))
  /\ UNCHANGED <<executor, startVars, run, report, at, signalled, canceller,
                 approvals, faults>>

CancelSeen(w) == signalled[w] \/ run.phase = "cancel_requested"

CheckCancel(w) ==
  /\ worker[w] = "check"
  /\ WorkerGoto(w, IF CancelSeen(w) THEN "cancelling" ELSE "advance")
  /\ UNCHANGED <<executor, startVars, run, report, at, signalled, canceller,
                 approvals, faults>>

\* Mutant of EnterPhase: a refused phase is tried again.
EnterPhaseRetrying(w) ==
  /\ worker[w] = "advance"
  /\ LET target == Following(at[w])
     IN IF Accepts(target, "phase.entered", None)
        THEN /\ RecordEvent(target, "phase.entered", None)
             /\ at' = [at EXCEPT ![w] = target]
             /\ WorkerGoto(w, StepAfter(target))
        ELSE UNCHANGED <<run, at, worker>>
  /\ UNCHANGED <<executor, startVars, report, signalled, canceller,
                 approvals, faults>>

EnterPhase(w) ==
  /\ worker[w] = "advance"
  /\ LET target == Following(at[w])
     IN IF Accepts(target, "phase.entered", None)
        THEN /\ RecordEvent(target, "phase.entered", None)
             /\ at' = [at EXCEPT ![w] = target]
             /\ WorkerGoto(w, StepAfter(target))
        ELSE /\ WorkerGoto(w, "failing")
             /\ UNCHANGED <<run, at>>
  /\ UNCHANGED <<executor, startVars, report, signalled, canceller,
                 approvals, faults>>

Scoring == {"running_baseline", "running_candidate", "running_variants"}

\* Reports of episodes name no phase; a sequential report is progress, a parallel
\* one speaks for a variant.  Only the variant scheduler turns a refusal that a
\* cancellation caused into one.
ReportEpisodes(w) ==
  LET kind == IF executor = "parallel" THEN "variant.progress" ELSE "progress.updated"
  IN \E detail \in DetailsOf(kind) :
       /\ worker[w] = "check"
       /\ at[w] \in Scoring
       /\ IF Accepts(None, kind, detail)
          THEN RecordEvent(None, kind, detail) /\ UNCHANGED worker
          ELSE /\ WorkerGoto(w, IF executor # "fake" /\ CancelSeen(w)
                                THEN "cancelling" ELSE "failing")
               /\ UNCHANGED run
       /\ UNCHANGED <<executor, startVars, report, at, signalled, canceller,
                      approvals, faults>>

WriteResult(w) ==
  /\ worker[w] = "write_result"
  /\ IF Accepts(None, "result.written", w) /\ report = None
     THEN /\ report' = w
          /\ RecordEvent(None, "result.written", w)
          /\ WorkerGoto(w, "complete")
     ELSE /\ WorkerGoto(w, "failing")
          /\ UNCHANGED <<run, report>>
  /\ UNCHANGED <<executor, startVars, at, signalled, canceller,
                 approvals, faults>>

CompleteRun(w) ==
  /\ worker[w] = "complete"
  /\ IF Accepts("completed", "run.completed", w)
     THEN RecordEvent("completed", "run.completed", w) /\ WorkerGoto(w, "verify")
     ELSE UNCHANGED run /\ WorkerGoto(w, "failing")
  /\ UNCHANGED <<executor, startVars, report, at, signalled, canceller,
                 approvals, faults>>

VerifyRecorded(w) ==
  /\ worker[w] = "verify"
  /\ WorkerGoto(w, IF run.result_digest = w THEN "exited" ELSE "failing")
  /\ UNCHANGED <<executor, startVars, run, report, at, signalled, canceller,
                 approvals, faults>>

\* Anything the executor raises that is not a cancellation.
WorkFails(w) ==
  /\ worker[w] \in {"check", "advance", "write_result", "complete", "verify"}
  /\ Fault
  /\ WorkerGoto(w, "failing")
  /\ UNCHANGED <<executor, startVars, run, report, at, signalled, canceller,
                 approvals>>

-----------------------------------------------------------------------------
(* The worker: ending *)

\* Either handler lets go of whatever the store raises: the worker leaves, and
\* the ending is not recorded.
LeavesUnrecorded(w) == StoreFails /\ WorkerGoto(w, "unrecorded")

\* Mutant of HandleFailure: a run that is stopping is left to whoever stops it.
HandleFailureUnlessStopping(w) ==
  /\ worker[w] = "failing"
  /\ \/ /\ WorkerGoto(w, IF Ended \/ run.phase = "cancel_requested"
                         THEN "exited" ELSE "append_failed")
        /\ Reading
     \/ LeavesUnrecorded(w)
  /\ WorkerOnly

HandleFailure(w) ==
  /\ worker[w] = "failing"
  /\ \/ Reading /\ WorkerGoto(w, IF Ended THEN "exited" ELSE "append_failed")
     \/ LeavesUnrecorded(w)
  /\ WorkerOnly

\* A run that ended in between refuses the event, and that is let go of too.
AppendFailed(w) ==
  /\ worker[w] = "append_failed"
  /\ \/ /\ IF Accepts("failed", "run.failed", None)
           THEN RecordEvent("failed", "run.failed", None)
           ELSE UNCHANGED run
        /\ WorkerGoto(w, "exited")
        /\ UNCHANGED faults
     \/ LeavesUnrecorded(w)
  /\ WorkerOnly

HandleCancelled(w) ==
  /\ worker[w] = "cancelling"
  /\ \/ /\ WorkerGoto(w, CASE Ended -> "exited"
                           [] ~Ended /\ run.phase = "cancel_requested" -> "stop"
                           [] OTHER -> "ask")
        /\ Reading
     \/ LeavesUnrecorded(w)
  /\ WorkerOnly

\* request_cancel: free the second time, refused once the run has ended.
RequestCancel ==
  IF ~Ended /\ run.phase # "cancel_requested"
  THEN RecordEvent("cancel_requested", "cancel.requested", None)
  ELSE UNCHANGED run

AskForCancel(w) ==
  /\ worker[w] = "ask"
  /\ \/ RequestCancel /\ WorkerGoto(w, IF Ended THEN "exited" ELSE "stop") /\ UNCHANGED faults
     \/ LeavesUnrecorded(w)
  /\ WorkerOnly

AppendCancelled(w) ==
  /\ worker[w] = "stop"
  /\ \/ /\ IF Accepts("cancelled", "run.cancelled", None)
           THEN RecordEvent("cancelled", "run.cancelled", None)
           ELSE UNCHANGED run
        /\ WorkerGoto(w, "exited")
        /\ UNCHANGED faults
     \/ LeavesUnrecorded(w)
  /\ WorkerOnly

WorkerDies(w) ==
  /\ Alive(w)
  /\ Fault
  /\ WorkerGoto(w, "killed")
  /\ UNCHANGED <<executor, startVars, run, report, at, signalled, canceller,
                 approvals>>

\* SIGTERM: a worker whose handler is in place notes it, one that has not
\* installed its handlers yet dies of it.
Terminated(w) ==
  IF worker[w] \in Handling
  THEN signalled' = [signalled EXCEPT ![w] = TRUE] /\ UNCHANGED worker
  ELSE WorkerGoto(w, "killed") /\ UNCHANGED signalled

\* The machine shutting down, or a person: nothing asked the run to stop.
TerminatedFromOutside(w) ==
  /\ Alive(w)
  /\ Fault
  /\ Terminated(w)
  /\ UNCHANGED <<executor, startVars, run, report, at, canceller, approvals>>

-----------------------------------------------------------------------------
(* run cancel *)

CancelLook(c) ==
  /\ canceller[c] = "look"
  /\ run # None
  /\ CancellerGoto(c, IF Ended THEN "done" ELSE "ask")
  /\ UNCHANGED <<executor, startVars, run, report, workVars, approvals, faults>>

CancelAsk(c) ==
  /\ canceller[c] = "ask"
  /\ RequestCancel
  /\ CancellerGoto(c, IF Ended THEN "refused" ELSE "signal")
  /\ UNCHANGED <<executor, startVars, report, workVars, approvals, faults>>

\* The recorded pid is signalled if it still names a process.
CancelSignal(c) ==
  /\ canceller[c] = "signal"
  /\ CancellerGoto(c, "done")
  /\ IF run.worker_pid \in Pids /\ Alive(run.worker_pid)
     THEN Terminated(run.worker_pid)
     ELSE UNCHANGED <<worker, signalled>>
  /\ UNCHANGED <<executor, startVars, run, report, at, approvals, faults>>

-----------------------------------------------------------------------------

StarterStep(s) ==
  \/ ClaimDraft(s) \/ FindRun(s) \/ CreateRun(s) \/ ApproveRun(s)
  \/ StageInputs(s) \/ RenameInputs(s) \/ LookForWorker(s)
  \/ Launch(s) \/ LaunchFails(s) \/ LookAgain(s) \/ RecordPid(s)
  \/ MarkLaunched(s) \/ FailLook(s) \/ FailRun(s) \/ MarkLaunchFailed(s)

WorkerStep(w) ==
  \/ Announce(w) \/ AnnouncePid(w) \/ InstallHandlers(w)
  \/ CheckCancel(w) \/ EnterPhase(w) \/ ReportEpisodes(w)
  \/ WriteResult(w) \/ CompleteRun(w) \/ VerifyRecorded(w) \/ WorkFails(w)
  \/ HandleFailure(w) \/ AppendFailed(w)
  \/ HandleCancelled(w) \/ AskForCancel(w) \/ AppendCancelled(w)

CancellerStep(c) == CancelLook(c) \/ CancelAsk(c) \/ CancelSignal(c)

Next ==
  \/ \E s \in Starters : StarterStep(s) \/ StarterDies(s)
  \/ \E w \in Pids : WorkerStep(w) \/ WorkerDies(w) \/ TerminatedFromOutside(w)
  \/ \E c \in Cancellers : CancellerStep(c)

\* The operating system schedules a process that has not been killed; nobody
\* is obliged to start, retry or cancel anything.
Fairness == \A w \in Pids : WF_vars(WorkerStep(w))

Spec == Init /\ [][Next]_vars /\ Fairness

-----------------------------------------------------------------------------
(* Properties *)

\* Every variable stays in its domain.
TypeOK ==
  /\ executor \in Executors
  /\ record \in {"claimed", "launched", "launch_failed", None}
  /\ run \in RunStates \union {None}
  /\ report \in Pids \union {None}
  /\ staged \in BOOLEAN
  /\ starter \in [Starters -> StarterSteps]
  /\ seen \in [Starters -> {"claimed", "launched", "launch_failed", None}]
  /\ launched \in [Starters -> Pids \union {None}]
  /\ worker \in [Pids -> WorkerSteps]
  /\ at \in [Pids -> Phases]
  /\ signalled \in [Pids -> BOOLEAN]
  /\ canceller \in [Cancellers -> {"look", "ask", "signal", "done", "refused"}]
  /\ approvals \in Nat
  /\ faults \in 0 .. MaxFaults

\* A completed run names the report that is on disk, however many workers were
\* on it and wherever between report and completion one of them died.
CompletedNamesItsReport ==
  run # None /\ run.phase = "completed" => report # None /\ run.result_digest = report

\* What a draft's record says of its run is so, however many commands start it
\* and whichever dies on the way: one approval at most is recorded; launched
\* leads to a run that names its worker, has ended, or was asked to stop before
\* the worker could be named, unless the run's lock kept the start that marked
\* it from naming the worker; launch_failed to a run that has ended, even when
\* another start launched a worker for it in the meantime.
StartRecordHolds ==
  /\ approvals <= 1
  /\ record = "launched" =>
       /\ run # None
       /\ \/ run.worker_pid # None \/ run.cancel_requested_at # None \/ Ended
          \/ \E s \in Starters : starter[s] = "done_unnamed"
  /\ record = "launch_failed" => Ended

\* No event the run's rules refuse a worker, no race with another worker, a
\* start or a cancellation, and no error of its own makes a worker leave its run
\* looking alive with nobody on it: a worker that is gone leaves its run ended,
\* unless it was turned away at the door, was killed, or could not read or write
\* the store while it was recording the ending (handle_worker_failure and
\* handle_worker_cancelled).
WorkerExitEndsTheRun ==
  \A w \in Pids :
    worker[w] # "unborn" /\ ~Alive(w) =>
      Ended \/ worker[w] \in {"turned_away", "killed", "unrecorded"}

\* A worker that has its signal handlers in place ends the run it executes,
\* whatever the run's rules refuse it on the way, unless it is killed or the
\* store fails it.
WorkerEndsTheRun ==
  \A w \in Pids :
    worker[w] \in Handling ~> (Ended \/ worker[w] \in {"killed", "unrecorded"})

-----------------------------------------------------------------------------
(* A claim of the repository that the code does not keep *)

\* "Every exit is terminal for the run" (worker/execute.py).
EveryExitIsTerminal ==
  \A w \in Pids : worker[w] \in {"exited", "turned_away", "unrecorded"} => Ended
=============================================================================
