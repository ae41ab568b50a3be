------------------------------ MODULE Tasksets ------------------------------
(***************************************************************************)
(* How a run establishes the tasks it scores (tasksets/*.py): the engine   *)
(* loads the taskset twice, the memberships are locked, and the pinned     *)
(* validator's results must reproduce the receipt the Campaign commits to. *)
(* A package this build does not ship is taken on its publisher's receipt  *)
(* instead (runs/validation.py).                                           *)
(*                                                                         *)
(* A machine's taskset is [package, shipped, resolved, described, loads,   *)
(* fresh, files, mode, summary, checks, rows]: loads are the tasks of the  *)
(* first and the second load, resolved and described the package's digest  *)
(* as it is and as the engine describes it; the rest is what the pinned    *)
(* validator leaves, whose summary and checks count tasks by outcome and   *)
(* whose rows [position, task, gold, setup] are in the order they ended.   *)
(***************************************************************************)
EXTENDS Naturals, Sequences, FiniteSets, Functions

CanValidateLocally(taskset) == taskset.package = "embedded" /\ taskset.shipped

\* An inspection lists the tasks it was asked for, in order and without a gap.
Inspects(load, selected) == Len(load) = selected

ResolvesTaskset(taskset, campaign) ==
    /\ taskset.package = "embedded"
    /\ taskset.resolved = taskset.described
    /\ taskset.resolved = campaign.shared["taskset"].ref
    /\ \A i \in {1, 2} : Inspects(taskset.loads[i], campaign.selected)
    /\ taskset.loads[1] = taskset.loads[2]
    /\ IsInjective(taskset.loads[1])

LockOfTasks(tasks, ref, engine) ==
    [kind |-> "lock", tasks |-> tasks, membership |-> tasks, ref |-> ref, engine |-> engine]

ResolveTaskset(taskset, campaign, engine) ==
    LockOfTasks(taskset.loads[1], campaign.shared["taskset"].ref, engine)

-----------------------------------------------------------------------------
(* What the pinned validator leaves (tasksets/verifiers_cli.py) *)

Outcomes == {"valid", "invalid", "error", "timeout", "missing"}
ValidationFiles == {"validate.json", "validate.log", "results.jsonl", "summary.json"}

\* run: the validator writes its directory once, and a worker that finds it
\* there has nothing to read; how it exited says nothing.
RunsValidator(taskset) == taskset.fresh /\ "summary.json" \in taskset.files

\* parse_summary: both checks ran, and the outcomes account for every task.
ReadsSummary(taskset) ==
    LET counts == taskset.summary
    IN  /\ taskset.mode = "all"
        /\ counts.valid + counts.invalid + counts.error + counts.timeout + counts.missing
             = counts.total
        /\ counts.recorded <= counts.total

\* normalize, in the engine: every task was recorded, and the rows cover the
\* positions once each and name no task twice.
Normalizes(taskset) ==
    LET rows == taskset.rows
    IN  /\ "results.jsonl" \in taskset.files
        /\ taskset.summary.missing = 0
        /\ taskset.summary.recorded = taskset.summary.total
        /\ {rows[i].position : i \in DOMAIN rows} = 0 .. Len(rows) - 1
        /\ Len(rows) = taskset.summary.total
        /\ IsInjective([i \in DOMAIN rows |-> rows[i].task])

\* The rows by position: the order in which tasks end differs between two runs
\* that are otherwise the same.
ByPosition(rows) ==
    [n \in 1 .. Len(rows) |-> CHOOSE row \in Range(rows) : row.position = n - 1]

NormalizedEvidence(taskset, lock) ==
    [kind |-> "evidence", lock |-> lock, tasks |-> ByPosition(taskset.rows),
     summary |-> [count \in Outcomes \cup {"total"} |-> taskset.summary[count]]]

-----------------------------------------------------------------------------
(* The receipt of a validation (tasksets/service.py) *)

\* A check of the validator's passed when it counted tasks and all were valid;
\* one it did not count has failed.
UpstreamCheckPassed(checks, name) ==
    /\ name \in DOMAIN checks
    /\ checks[name]["valid"] > 0
    /\ \A o \in Outcomes \ {"valid"} : checks[name][o] = 0

CompareMembership(actual, committed) == actual # <<>> /\ actual = committed

BuildChecks(taskset, lock, campaign) ==
    /\ \A name \in {"gold", "setup"} : UpstreamCheckPassed(taskset.checks, name)
    /\ IsInjective(lock.tasks)
    /\ CompareMembership(lock.tasks, campaign.tasks)
    /\ Len(lock.tasks) = campaign.selected

\* A task that was not answered makes the validation an error; only one that
\* was answered for every task says that the taskset is invalid.
ReceiptStatus(summary, passed) ==
    CASE \/ \E o \in {"error", "timeout", "missing"} : summary[o] # 0
         \/ summary.recorded # summary.total          -> "errored"
      [] /\ \A o \in {"error", "timeout", "missing"} : summary[o] = 0
         /\ summary.recorded = summary.total
         /\ \/ summary.invalid # 0
            \/ summary.valid # summary.total
            \/ ~passed                                -> "invalid"
      [] OTHER                                        -> "valid"

\* The receipt of a validation says nothing of when and where it ran, so that
\* every machine issues the same one.
TasksetReceipt(taskset, lock, campaign) ==
    [kind |-> "validation",
     status |-> ReceiptStatus(taskset.summary, BuildChecks(taskset, lock, campaign)),
     engine |-> lock.engine, lock |-> lock, summary |-> taskset.summary,
     checks |-> taskset.checks, evidence |-> NormalizedEvidence(taskset, lock)]

\* The receipt and its evidence are the ones the Campaign ships, so that what
\* every machine validated is what the publisher did.
LocalVerifiersValidates(taskset, inputs, verified) ==
    LET lock    == ResolveTaskset(taskset, inputs.campaign, inputs.validation.engine)
        receipt == TasksetReceipt(taskset, lock, inputs.campaign)
    IN  /\ verified
        /\ ResolvesTaskset(taskset, inputs.campaign)
        /\ RunsValidator(taskset)
        /\ ReadsSummary(taskset)
        /\ Normalizes(taskset)
        /\ taskset.files = ValidationFiles
        /\ receipt.status = "valid"
        /\ receipt.lock = inputs.validation.lock
        /\ receipt = inputs.campaign.shared["taskset"].validation
        /\ receipt.evidence = inputs.evidence

\* The publisher's receipt, the evidence it was issued from and the lock the
\* Campaign's own membership derives are one validation.
DeriveTasksetLock(inputs) ==
    LockOfTasks(inputs.campaign.tasks, inputs.campaign.shared["taskset"].ref,
                inputs.validation.engine)

PublisherFixtureValidates(inputs) ==
    /\ inputs.validation = inputs.campaign.shared["taskset"].validation
    /\ inputs.validation.evidence = inputs.evidence
    /\ inputs.validation.status = "valid"
    /\ DeriveTasksetLock(inputs) = inputs.validation.lock
    /\ Len(inputs.campaign.tasks) = inputs.campaign.selected
    /\ inputs.evidence.lock = inputs.validation.lock

ValidatesTaskset(taskset, inputs, verified) ==
    IF CanValidateLocally(taskset)
    THEN LocalVerifiersValidates(taskset, inputs, verified)
    ELSE PublisherFixtureValidates(inputs)

ValidatedLock(taskset, inputs) ==
    IF CanValidateLocally(taskset)
    THEN ResolveTaskset(taskset, inputs.campaign, inputs.validation.engine)
    ELSE DeriveTasksetLock(inputs)
=============================================================================
