--------------------------- MODULE EvaluationPair ---------------------------
(***************************************************************************)
(* One paid comparison: the worker that schedules its two evaluations, the *)
(* supervisor process each evaluation is started under, and the evaluations*)
(* themselves.  The worker polls, stops and judges the pair; a supervisor  *)
(* stops its evaluation when it is signalled, when its deadline passes, or *)
(* when the pipe the worker holds open is closed, which the worker's death *)
(* does.                                                                   *)
(*                                                                         *)
(* Source: src/techtree/runs/variants.py, runs/child_registry.py,          *)
(* verifiers/child.py, verifiers/supervisor.py.  The evaluation is the     *)
(* pinned engine's, which is not in the repository.                        *)
(*                                                                         *)
(* Time passes in ticks (ten seconds for the released grace periods of 20  *)
(* and 30 seconds).  A supervisor polls every tenth of a second, so it     *)
(* reacts before the next tick; the worker and the evaluations need not.   *)
(***************************************************************************)
EXTENDS Integers, FiniteSets

CONSTANTS
  Schedules,         \* the schedules a Campaign may ask for
  WorkerGrace,       \* ticks the worker gives a supervisor to stop
  SupervisorGrace,   \* ticks a supervisor gives its evaluation to stop
  MaxFaults,         \* bound: errors nothing handles, and the worker's sudden death
  None

\* The supervisor's grace is the shorter one, as a test of the repository holds.
ASSUME Graces == /\ Schedules \subseteq {"parallel", "sequential"}
                 /\ SupervisorGrace \in Nat /\ WorkerGrace \in Nat
                 /\ SupervisorGrace < WorkerGrace
                 /\ MaxFaults \in Nat

Variants == {"baseline", "candidate"}

ASSUME NoneIsNoName ==
  None \notin Variants \union {"completed", "stopped", "dead", "clean", "broken"}

VARIABLES
  schedule,
  run,          \* "running", "cancel_requested", "cancelled" or "failed"
  step, side,   \* the worker's next step and the variant it is about
  resume,       \* what the worker does once it has stopped its children
  registered,   \* the child registry
  outcomes,     \* per variant: the exit the worker has collected
  pipe,         \* per variant: whether the worker's end of the pipe is open
  patience,     \* ticks before the worker escalates
  supervisor,   \* per variant: the supervisor's next step
  told,         \* per variant: whether its SIGTERM handler has run
  grace,        \* per variant: ticks before the supervisor escalates
  verdict,      \* per variant: why the supervisor ended
  evaluation,   \* per variant: "unborn", "running", "killed" (SIGKILL is pending),
                \* "clean" or "broken"
  faults

childVars == <<supervisor, told, grace, verdict, evaluation>>
vars == <<schedule, run, step, side, resume, registered, outcomes, pipe, patience,
          supervisor, told, grace, verdict, evaluation, faults>>

WorkerSteps == {"check", "enter", "start", "record", "announce", "watch", "poll",
                "report", "stop", "wait", "failing", "cancelling", "judged", "exited"}

SupervisorSteps == {"unborn", "booting", "armed", "watching", "stopping",
                    "reaping", "recording", "gone"}

Init ==
  /\ schedule \in Schedules
  /\ run = "running"
  /\ step = "check"
  /\ side = "baseline"
  /\ resume = "failing"
  /\ registered = {}
  /\ outcomes = [v \in Variants |-> None]
  /\ pipe = [v \in Variants |-> FALSE]
  /\ patience = 0
  /\ supervisor = [v \in Variants |-> "unborn"]
  /\ told = [v \in Variants |-> FALSE]
  /\ grace = [v \in Variants |-> 0]
  /\ verdict = [v \in Variants |-> None]
  /\ evaluation = [v \in Variants |-> "unborn"]
  /\ faults = 0

Sibling(v) == CHOOSE w \in Variants : w # v

Goto(next, variant) == step' = next /\ side' = variant

Fault == faults < MaxFaults /\ faults' = faults + 1

\* The exit code a supervisor reports is zero only for an evaluation that ended
\* by itself with zero.
ExitOf(v) == IF verdict[v] = "completed" /\ evaluation[v] = "clean"
             THEN "clean" ELSE "broken"

-----------------------------------------------------------------------------
(* The scheduler: starting *)

\* raise_if_cancel_requested before a phase, when nothing is running.
CheckBefore ==
  /\ step = "check"
  /\ Goto(IF run = "cancel_requested" THEN "cancelling" ELSE "enter", side)
  /\ UNCHANGED <<schedule, run, resume, registered, outcomes, pipe, patience,
                 childVars, faults>>

EnterPhase ==
  /\ step = "enter"
  /\ Goto(IF run = "cancel_requested" THEN "failing" ELSE "start", side)
  /\ UNCHANGED <<schedule, run, resume, registered, outcomes, pipe, patience,
                 childVars, faults>>

\* Both children of a parallel pair are started before anything is written.
StartOne ==
  /\ step = "start"
  /\ supervisor' = [supervisor EXCEPT ![side] = "booting"]
  /\ pipe' = [pipe EXCEPT ![side] = TRUE]
  /\ registered' = registered \union {side}
  /\ IF schedule = "parallel" /\ side = "baseline"
     THEN Goto("start", "candidate") ELSE Goto("record", side)
  /\ UNCHANGED <<schedule, run, resume, outcomes, patience, told, grace, verdict,
                 evaluation, faults>>

\* A second child that cannot be started stops the first.
StartFails ==
  /\ step = "start"
  /\ IF schedule = "parallel" /\ side = "candidate"
     THEN Goto("stop", "baseline") ELSE Goto("failing", side)
  /\ resume' = "failing"
  /\ UNCHANGED <<schedule, run, registered, outcomes, pipe, patience, childVars, faults>>

RecordChildren ==
  /\ step = "record"
  /\ IF schedule = "parallel" THEN Goto("announce", "baseline") ELSE Goto("watch", side)
  /\ UNCHANGED <<schedule, run, resume, registered, outcomes, pipe, patience,
                 childVars, faults>>

\* The variants are announced before the loop that knows how to stop them: a
\* refusal is reported as the cancellation it is, and nothing is stopped.
AnnounceVariant ==
  /\ step = "announce"
  /\ IF run = "cancel_requested" THEN Goto("cancelling", side)
     ELSE IF side = "baseline" THEN Goto("announce", "candidate")
     ELSE Goto("watch", "baseline")
  /\ UNCHANGED <<schedule, run, resume, registered, outcomes, pipe, patience,
                 childVars, faults>>

-----------------------------------------------------------------------------
(* The scheduler: watching *)

Unwind(next) == Goto("stop", "baseline") /\ resume' = next

\* Mutant of Watch: a cancellation is left to the reports to notice.
WatchBlindly ==
  /\ step = "watch"
  /\ Goto("poll", side)
  /\ UNCHANGED <<schedule, run, resume, registered, outcomes, pipe, patience,
                 childVars, faults>>

Watch ==
  /\ step = "watch"
  /\ IF run = "cancel_requested" THEN Unwind("cancelling")
     ELSE Goto("poll", side) /\ UNCHANGED resume
  /\ UNCHANGED <<schedule, run, registered, outcomes, pipe, patience,
                 childVars, faults>>

\* The poller moves on to the other variant of a parallel pair, back to the top
\* of its loop, or, with everything collected, to the verdict on the pair.
AfterPoll(known) ==
  IF \A v \in Variants : known[v] # None
  THEN Goto(IF \A v \in Variants : known[v] = "clean" THEN "judged" ELSE "failing", side)
  ELSE IF schedule = "sequential"
  THEN CASE known[side] = None -> Goto("watch", side)
         [] known[side] = "clean" -> Goto("check", "candidate")
         [] OTHER -> Goto("failing", side)
  ELSE IF side = "baseline" THEN Goto("poll", "candidate") ELSE Goto("watch", "baseline")

\* A child that has exited is described and forgotten, and lets go of its pipe.
Poll ==
  /\ step = "poll"
  /\ IF outcomes[side] # None
     THEN AfterPoll(outcomes) /\ UNCHANGED <<registered, outcomes, pipe>>
     ELSE /\ Goto("report", side)
          /\ IF supervisor[side] = "gone"
             THEN /\ outcomes' = [outcomes EXCEPT ![side] = ExitOf(side)]
                  /\ registered' = registered \ {side}
                  /\ pipe' = [pipe EXCEPT ![side] = FALSE]
             ELSE UNCHANGED <<registered, outcomes, pipe>>
  /\ UNCHANGED <<schedule, run, resume, patience, childVars, faults>>

\* Mutant of Report: a failed side fails the pair and leaves its sibling.
ReportLeavingSibling ==
  /\ step = "report"
  /\ IF schedule = "parallel" /\ run = "cancel_requested"
     THEN Unwind("cancelling")
     ELSE IF outcomes[side] = "broken" THEN Goto("failing", side) /\ UNCHANGED resume
     ELSE AfterPoll(outcomes) /\ UNCHANGED resume
  /\ UNCHANGED <<schedule, run, registered, outcomes, pipe, patience,
                 childVars, faults>>

\* A parallel report is refused once the run was asked to stop; a sequential one
\* is not.  A failed side stops its sibling before anything else is looked at.
Report ==
  /\ step = "report"
  /\ IF schedule = "parallel" /\ run = "cancel_requested"
     THEN Unwind("cancelling")
     ELSE IF schedule = "parallel" /\ outcomes[side] = "broken"
             /\ outcomes[Sibling(side)] = None
     THEN Goto("stop", Sibling(side)) /\ resume' = "poll"
     ELSE AfterPoll(outcomes) /\ UNCHANGED resume
  /\ UNCHANGED <<schedule, run, registered, outcomes, pipe, patience,
                 childVars, faults>>

\* A report with nothing new in it is not written, so it cannot be refused.
NothingToReport ==
  /\ step = "report"
  /\ outcomes[side] = None
  /\ AfterPoll(outcomes)
  /\ UNCHANGED <<schedule, run, resume, registered, outcomes, pipe, patience,
                 childVars, faults>>

\* Any error that is not a cancellation leaves the loop as it is.
WorkFails ==
  /\ step \in {"record", "announce", "poll", "report"}
  /\ Fault
  /\ Goto("failing", side)
  /\ UNCHANGED <<schedule, run, resume, registered, outcomes, pipe, patience, childVars>>

-----------------------------------------------------------------------------
(* Stopping children *)

\* terminate_all goes through the registry in order; _stop_sibling has one child.
AfterStop(v) ==
  CASE resume = "poll" -> Goto("poll", v)
    [] resume # "poll" /\ v = "baseline" -> Goto("stop", "candidate")
    [] OTHER -> Goto(resume, v)

\* Mutant of StopChild: the worker is no more patient than the supervisor.
StopChildImpatiently ==
  /\ step = "stop"
  /\ IF side \notin registered
     THEN AfterStop(side) /\ UNCHANGED <<patience, told>>
     ELSE /\ Goto("wait", side)
          /\ patience' = SupervisorGrace
          /\ told' = [told EXCEPT ![side] = TRUE]
  /\ UNCHANGED <<schedule, run, resume, registered, outcomes, pipe, supervisor,
                 verdict, grace, evaluation, faults>>

\* terminate: a supervisor that has not installed its handlers dies of SIGTERM.
StopChild ==
  /\ step = "stop"
  /\ IF side \notin registered
     THEN AfterStop(side) /\ UNCHANGED <<patience, supervisor, told, verdict>>
     ELSE /\ Goto("wait", side)
          /\ patience' = WorkerGrace
          /\ IF supervisor[side] = "booting"
             THEN /\ supervisor' = [supervisor EXCEPT ![side] = "gone"]
                  /\ verdict' = [verdict EXCEPT ![side] = "dead"]
                  /\ UNCHANGED told
             ELSE /\ told' = [told EXCEPT ![side] = TRUE]
                  /\ UNCHANGED <<supervisor, verdict>>
  /\ UNCHANGED <<schedule, run, resume, registered, outcomes, pipe, grace,
                 evaluation, faults>>

ChildStopped ==
  /\ step = "wait"
  /\ supervisor[side] = "gone"
  /\ patience' = 0
  /\ registered' = registered \ {side}
  /\ outcomes' = [outcomes EXCEPT ![side] = ExitOf(side)]
  /\ pipe' = [pipe EXCEPT ![side] = FALSE]
  /\ AfterStop(side)
  /\ UNCHANGED <<schedule, run, resume, childVars, faults>>

\* SIGKILL to the supervisor's group; its evaluation is in a session of its own.
Escalate ==
  /\ step = "wait"
  /\ patience = 0
  /\ supervisor[side] # "gone"
  /\ supervisor' = [supervisor EXCEPT ![side] = "gone"]
  /\ verdict' = [verdict EXCEPT ![side] = "dead"]
  /\ UNCHANGED <<schedule, run, step, side, resume, registered, outcomes, pipe,
                 patience, told, grace, evaluation, faults>>

-----------------------------------------------------------------------------
(* The end of the worker *)

EndRun(phase) == run' = phase

RecordFailure ==
  /\ step = "failing"
  /\ EndRun("failed")
  /\ Goto("exited", side)
  /\ pipe' = [v \in Variants |-> FALSE]
  /\ UNCHANGED <<schedule, resume, registered, outcomes, patience, childVars, faults>>

RecordCancelled ==
  /\ step = "cancelling"
  /\ EndRun("cancelled")
  /\ Goto("exited", side)
  /\ pipe' = [v \in Variants |-> FALSE]
  /\ UNCHANGED <<schedule, resume, registered, outcomes, patience, childVars, faults>>

\* Killed outright: no code of the worker runs, the kernel closes its pipes.
WorkerKilled ==
  /\ step # "exited"
  /\ Fault
  /\ Goto("exited", side)
  /\ pipe' = [v \in Variants |-> FALSE]
  /\ UNCHANGED <<schedule, run, resume, registered, outcomes, patience, childVars>>

AskToStop ==
  /\ run = "running"
  /\ run' = "cancel_requested"
  /\ UNCHANGED <<schedule, step, side, resume, registered, outcomes, pipe, patience,
                 childVars, faults>>

-----------------------------------------------------------------------------
(* A supervisor *)

Supervise(v, from, to) ==
  /\ supervisor[v] = from
  /\ supervisor' = [supervisor EXCEPT ![v] = to]

workerVars == <<schedule, run, step, side, resume, registered, outcomes, pipe,
                patience, faults>>

InstallHandlers(v) ==
  /\ Supervise(v, "booting", "armed")
  /\ UNCHANGED <<workerVars, told, grace, verdict, evaluation>>

LaunchEvaluation(v) ==
  /\ Supervise(v, "armed", "watching")
  /\ evaluation' = [evaluation EXCEPT ![v] = "running"]
  /\ UNCHANGED <<workerVars, told, grace, verdict>>

LaunchFails(v) ==
  /\ Supervise(v, "armed", "recording")
  /\ verdict' = [verdict EXCEPT ![v] = "stopped"]
  /\ UNCHANGED <<workerVars, told, grace, evaluation>>

SeeExit(v) ==
  /\ Supervise(v, "watching", "recording")
  /\ evaluation[v] # "running"
  /\ verdict' = [verdict EXCEPT ![v] = "completed"]
  /\ UNCHANGED <<workerVars, told, grace, evaluation>>

\* The evaluation may have ended since the supervisor last polled it: the reason
\* to stop is what is recorded then.
BeginStopping(v) ==
  /\ Supervise(v, "watching", "stopping")
  /\ verdict' = [verdict EXCEPT ![v] = "stopped"]
  /\ grace' = [grace EXCEPT ![v] = SupervisorGrace]
  /\ UNCHANGED <<workerVars, told, evaluation>>

SeeSignal(v) == told[v] /\ BeginStopping(v)

\* Mutant of SeeEndOfFile: only a byte on the pipe counts.
SeeByte(v) == FALSE

SeeEndOfFile(v) == ~pipe[v] /\ BeginStopping(v)
SeeDeadline(v) == BeginStopping(v)

SeeStopped(v) ==
  /\ Supervise(v, "stopping", "recording")
  /\ evaluation[v] # "running"
  /\ grace' = [grace EXCEPT ![v] = 0]
  /\ UNCHANGED <<workerVars, told, verdict, evaluation>>

KillEvaluation(v) ==
  /\ Supervise(v, "stopping", "reaping")
  /\ grace[v] = 0
  /\ evaluation[v] = "running"
  /\ evaluation' = [evaluation EXCEPT ![v] = "killed"]
  /\ UNCHANGED <<workerVars, told, grace, verdict>>

\* process.wait has no timeout: a supervisor killed meanwhile leaves no more than
\* a process that is dying.
Reap(v) ==
  /\ Supervise(v, "reaping", "recording")
  /\ evaluation[v] \notin {"running", "killed"}
  /\ UNCHANGED <<workerVars, told, grace, verdict, evaluation>>

WriteRecord(v) ==
  /\ Supervise(v, "recording", "gone")
  /\ UNCHANGED <<workerVars, told, grace, verdict, evaluation>>

\* The engine: it ends when it likes, and may ignore what asks it to.
EvaluationEnds(v) ==
  /\ evaluation[v] = "running"
  /\ \E how \in {"clean", "broken"} : evaluation' = [evaluation EXCEPT ![v] = how]
  /\ UNCHANGED <<workerVars, supervisor, told, grace, verdict>>

\* The kernel ends a process it was told to kill, when it can.
EvaluationDies(v) ==
  /\ evaluation[v] = "killed"
  /\ evaluation' = [evaluation EXCEPT ![v] = "broken"]
  /\ UNCHANGED <<workerVars, supervisor, told, grace, verdict>>

-----------------------------------------------------------------------------
(* Time *)

\* What a supervisor does before the next tick.
Prompt(v) ==
  \/ supervisor[v] \in {"booting", "armed", "recording"}
  \/ supervisor[v] = "watching" /\ (told[v] \/ ~pipe[v] \/ evaluation[v] # "running")
  \/ supervisor[v] = "stopping" /\ (grace[v] = 0 \/ evaluation[v] # "running")
  \/ supervisor[v] = "reaping" /\ evaluation[v] # "killed"

\* Mutant of Tick: a timer nobody waits on any more runs on.
TickOn ==
  /\ \A v \in Variants : ~Prompt(v)
  /\ patience > 0 \/ \E v \in Variants : grace[v] > 0
  /\ patience' = patience - 1
  /\ grace' = [v \in Variants |-> grace[v] - 1]
  /\ UNCHANGED <<schedule, run, step, side, resume, registered, outcomes, pipe,
                 supervisor, told, verdict, evaluation, faults>>

Tick ==
  /\ \A v \in Variants : ~Prompt(v)
  /\ patience > 0 \/ \E v \in Variants : grace[v] > 0
  /\ patience' = IF patience > 0 THEN patience - 1 ELSE 0
  /\ grace' = [v \in Variants |-> IF grace[v] > 0 THEN grace[v] - 1 ELSE 0]
  /\ UNCHANGED <<schedule, run, step, side, resume, registered, outcomes, pipe,
                 supervisor, told, verdict, evaluation, faults>>

WorkerStep ==
  \/ CheckBefore \/ EnterPhase \/ StartOne \/ RecordChildren \/ AnnounceVariant
  \/ Watch \/ Poll \/ Report \/ NothingToReport
  \/ StopChild \/ ChildStopped \/ Escalate
  \/ RecordFailure \/ RecordCancelled

SupervisorStep(v) ==
  \/ InstallHandlers(v) \/ LaunchEvaluation(v) \/ LaunchFails(v)
  \/ SeeExit(v) \/ SeeSignal(v) \/ SeeEndOfFile(v)
  \/ SeeStopped(v) \/ KillEvaluation(v) \/ Reap(v) \/ WriteRecord(v)

Next ==
  \/ WorkerStep \/ StartFails \/ WorkFails \/ WorkerKilled \/ AskToStop
  \/ \E v \in Variants : SupervisorStep(v) \/ SeeDeadline(v)
                         \/ EvaluationEnds(v) \/ EvaluationDies(v)
  \/ Tick

\* Live processes are scheduled, time passes and SIGKILL kills.  Nothing else is
\* assumed of the evaluations, and the deadline is not needed.
Fairness == /\ WF_vars(WorkerStep)
            /\ \A v \in Variants : WF_vars(SupervisorStep(v)) /\ WF_vars(EvaluationDies(v))
            /\ WF_vars(Tick)

Spec == Init /\ [][Next]_vars /\ Fairness

-----------------------------------------------------------------------------
(* Properties *)

\* Every variable stays in its domain.
TypeOK ==
  /\ schedule \in Schedules
  /\ run \in {"running", "cancel_requested", "cancelled", "failed"}
  /\ step \in WorkerSteps /\ side \in Variants
  /\ resume \in {"failing", "cancelling", "poll"}
  /\ registered \subseteq Variants
  /\ outcomes \in [Variants -> {"clean", "broken", None}]
  /\ pipe \in [Variants -> BOOLEAN]
  /\ patience \in 0 .. WorkerGrace
  /\ supervisor \in [Variants -> SupervisorSteps]
  /\ told \in [Variants -> BOOLEAN]
  /\ grace \in [Variants -> 0 .. SupervisorGrace]
  /\ verdict \in [Variants -> {"completed", "stopped", "dead", None}]
  /\ evaluation \in [Variants -> {"unborn", "running", "killed", "clean", "broken"}]
  /\ faults \in 0 .. MaxFaults

\* No evaluation is left running without the process that bounds it: the worker,
\* which would kill a supervisor that does not stop, never loses its patience
\* before the supervisor has ended its evaluation.
NoEvaluationOutlivesItsSupervisor ==
  \A v \in Variants : supervisor[v] = "gone" => evaluation[v] # "running"

\* A pair that failed because one side failed is recorded as failed only when
\* neither evaluation is running any more.
FailedPairIsStopped ==
  run = "failed" /\ faults = 0 => \A v \in Variants : evaluation[v] # "running"

\* The worker's death, by whatever cause and at whatever moment, ends both
\* evaluations, also one that ignores the signal that asks it to stop.
EvaluationsDieWithTheWorker ==
  step = "exited" ~> \A v \in Variants : supervisor[v] \in {"unborn", "gone"}
                                          /\ evaluation[v] \notin {"running", "killed"}

\* A worker whose run is asked to stop gets to the end of it, however its
\* evaluations behave, unless the pair had already been decided.
AskedToStopEnds == run = "cancel_requested" ~> step \in {"exited", "judged"}

=============================================================================
