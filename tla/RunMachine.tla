----------------------------- MODULE RunMachine -----------------------------
(***************************************************************************)
(* The run state machine of techtree: the phases of a run, the thirteen    *)
(* kinds of event its journal may hold, the table of transitions, the      *)
(* validation every event passes before it is appended, and the projection *)
(* of a journal into the state a reader is shown.                          *)
(*                                                                         *)
(* Source: src/techtree/runs/machine.py and src/techtree/runs/events.py.   *)
(*                                                                         *)
(* An event keeps its sequence number, the two phases and the one detail   *)
(* its kind is defined by (a worker's pid, a report's digest, the variant  *)
(* spoken for).  Timestamps are abstracted to the sequence number of the   *)
(* event that carries them, which identifies them in the projection.       *)
(***************************************************************************)
EXTENDS Integers, Sequences

CONSTANTS
  Pids,       \* process ids a worker may announce
  Digests,    \* digests of the reports a run may produce
  Variants,   \* the sides of the comparison, {"baseline", "candidate"}
  None        \* Python's None

ASSUME NoneIsNoValue == /\ None \notin Pids
                        /\ None \notin Digests
                        /\ None \notin Variants
                        /\ None \notin Int

-----------------------------------------------------------------------------
(* Phases and transitions *)

NormalPath == << "created", "validating_taskset", "running_baseline",
                 "running_candidate", "building_receipts",
                 "verifying_comparison", "building_report", "completed" >>

TerminalPhases == {"completed", "failed", "cancelled"}

\* The phases a worker moves a run through.
WorkingPhases == {"created", "validating_taskset", "running_baseline",
                  "running_candidate", "running_variants",
                  "building_receipts", "verifying_comparison",
                  "building_report"}

Phases == WorkingPhases \union {"cancel_requested"} \union TerminalPhases

ASSUME NoneIsNoPhase == None \notin Phases

\* The phases the normal path and the concurrent branch continue with.
NextOnPath(phase) ==
  {NormalPath[i + 1] : i \in {k \in 1 .. Len(NormalPath) - 1 : NormalPath[k] = phase}}

AllowedTransitions ==
  [phase \in Phases |->
     CASE phase \in TerminalPhases -> {}
       [] phase = "cancel_requested" -> {"cancelled", "failed"}
       [] phase = "running_variants" ->
            {"building_receipts", "failed", "cancel_requested"}
       [] phase = "validating_taskset" ->
            NextOnPath(phase) \union {"running_variants", "failed", "cancel_requested"}
       [] OTHER -> NextOnPath(phase) \union {"failed", "cancel_requested"}]

IsTerminal(phase) == AllowedTransitions[phase] = {}

PhaseProgressAllowed(phase) == ~IsTerminal(phase) /\ phase # "created"

-----------------------------------------------------------------------------
(* Event kinds *)

VariantKinds == {"variant.started", "variant.progress", "variant.completed"}

EventKinds ==
  {"run.created", "run.approved", "worker.started", "phase.entered",
   "progress.updated", "cancel.requested", "run.failed", "run.cancelled",
   "result.written", "run.completed"} \union VariantKinds

SamePhaseKinds ==
  {"run.approved", "worker.started", "progress.updated", "result.written"}
    \union VariantKinds

\* The detail a kind must carry, and the values it may have.  A detail the
\* properties do not tell apart is None.
DetailsOf(kind) ==
  CASE kind = "worker.started" -> Pids
    [] kind \in {"result.written", "run.completed"} -> Digests
    [] kind \in VariantKinds -> Variants
    [] OTHER -> {None}

ExclusiveKind ==
  [phase \in {"cancel_requested"} \union TerminalPhases |->
     CASE phase = "cancel_requested" -> "cancel.requested"
       [] phase = "failed" -> "run.failed"
       [] phase = "cancelled" -> "run.cancelled"
       [] phase = "completed" -> "run.completed"]

OnlyInPhase ==
  [kind \in {"run.approved", "worker.started", "result.written"} \union VariantKinds |->
     CASE kind = "result.written" -> "building_report"
       [] kind \in VariantKinds -> "running_variants"
       [] OTHER -> "created"]

RequiredPreviousPhase ==
  [kind \in {"run.cancelled", "run.completed"} |->
     IF kind = "run.cancelled" THEN "cancel_requested" ELSE "building_report"]

Events == [sequence : Nat, previous_phase : Phases \union {None}, phase : Phases,
           kind : EventKinds, detail : Pids \union Digests \union Variants \union {None}]

\* validate_event_kind: the kind, the phases and the detail agree.
KindAgrees(event) ==
  /\ event.kind \in EventKinds
  /\ event.kind = "run.created" => /\ event.sequence = 0
                                   /\ event.previous_phase = None
                                   /\ event.phase = "created"
  /\ event.kind # "run.created" => event.previous_phase # None
  /\ \A phase \in DOMAIN ExclusiveKind :
       /\ event.previous_phase # event.phase /\ event.phase = phase
            => event.kind = ExclusiveKind[phase]
       /\ event.kind = ExclusiveKind[phase] => event.phase = phase
  /\ event.kind \in DOMAIN OnlyInPhase => event.phase = OnlyInPhase[event.kind]
  /\ event.kind \in DOMAIN RequiredPreviousPhase
       => event.previous_phase = RequiredPreviousPhase[event.kind]
  /\ event.phase = event.previous_phase <=> event.kind \in SamePhaseKinds
  /\ event.detail \in DetailsOf(event.kind)

\* Mutant of PhaseAllows: the table is consulted for terminal phases only.
PhaseAllowsUnlessEnded(phase, event) == ~IsTerminal(phase)

\* validate_transition and validate_same_phase_event.
PhaseAllows(phase, event) ==
  IF event.phase = phase
  THEN /\ ~IsTerminal(phase)
       /\ event.kind \in SamePhaseKinds
       /\ event.kind = "progress.updated" => PhaseProgressAllowed(phase)
  ELSE event.phase \in AllowedTransitions[phase]

-----------------------------------------------------------------------------
(* Projection *)

\* RunState, what a reader is shown of a run.
States ==
  [phase : Phases, sequence : Nat, worker_pid : Pids \union {None},
   worker_started_at : Nat \union {None}, cancel_requested_at : Nat \union {None},
   error : Nat \union {None}, progress : Nat \union {None},
   variant_progress : [Variants -> Nat \union {None}],
   result_digest : Digests \union {None}]

ASSUME NoneIsNoState == None \notin States

OpeningState ==
  [phase |-> "created", sequence |-> 0, worker_pid |-> None,
   worker_started_at |-> None, cancel_requested_at |-> None, error |-> None,
   progress |-> None, variant_progress |-> [v \in Variants |-> None],
   result_digest |-> None]

\* Mutant of Project: the digest is taken from whatever event carries a detail.
ProjectAnyDetail(previous, event) ==
  [previous EXCEPT !.phase = event.phase, !.sequence = event.sequence,
                   !.result_digest = IF event.detail = None THEN @ ELSE event.detail]

Project(previous, event) ==
  LET entered == previous.phase # event.phase
      carried == [v \in Variants |-> IF entered THEN None ELSE previous.variant_progress[v]]
      stamp(kind, old) == IF event.kind = kind THEN event.sequence ELSE old
  IN [phase |-> event.phase,
      sequence |-> event.sequence,
      worker_pid |-> IF event.kind = "worker.started"
                     THEN event.detail ELSE previous.worker_pid,
      worker_started_at |-> stamp("worker.started", previous.worker_started_at),
      cancel_requested_at |-> stamp("cancel.requested", previous.cancel_requested_at),
      error |-> stamp("run.failed", previous.error),
      progress |-> stamp("progress.updated", IF entered THEN None ELSE previous.progress),
      variant_progress |-> IF event.kind \in VariantKinds
                           THEN [carried EXCEPT ![event.detail] = event.sequence]
                           ELSE carried,
      result_digest |-> IF event.kind \in {"result.written", "run.completed"}
                        THEN event.detail ELSE previous.result_digest]

\* The fold every reader of a journal performs.  It is an error on an empty one.
ReduceEvents(journal) ==
  LET state[n \in 0 .. Len(journal)] ==
        IF n = 0 THEN OpeningState ELSE Project(state[n - 1], journal[n])
  IN state[Len(journal)]

\* apply_event, which raises unless the event follows the state.
Applies(state, event) ==
  /\ event.sequence = state.sequence + 1
  /\ event.previous_phase = state.phase
  /\ KindAgrees(event)
  /\ PhaseAllows(state.phase, event)

-----------------------------------------------------------------------------
(* What a journal says without being folded *)

HeadPhase(journal) == journal[Len(journal)].phase

\* The state a journal's last event leaves, as far as the next one needs it.
HeadState(journal) == [sequence |-> journal[Len(journal)].sequence,
                       phase |-> HeadPhase(journal)]

CreatedEvent == [sequence |-> 0, previous_phase |-> None, phase |-> "created",
                 kind |-> "run.created", detail |-> None]

\* The event a store builds against the state it has just read; a phase of
\* None means the phase the run is in.
EventAfter(state, phase, kind, detail) ==
  [sequence |-> state.sequence + 1,
   previous_phase |-> state.phase,
   phase |-> IF phase = None THEN state.phase ELSE phase,
   kind |-> kind, detail |-> detail]

\* A journal that read_events and reduce_events accept.
Readable(journal) ==
  /\ journal # <<>>
  /\ journal[1] = CreatedEvent
  /\ \A n \in 2 .. Len(journal) :
       Applies(ReduceEvents(SubSeq(journal, 1, n - 1)), journal[n])
=============================================================================
