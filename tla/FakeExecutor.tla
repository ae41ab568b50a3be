---------------------------- MODULE FakeExecutor ----------------------------
(***************************************************************************)
(* What the development executor makes of a Campaign no model is run for   *)
(* (runs/fake.py): rewards it makes up, one receipt for each of them, and  *)
(* the one report such receipts may add up to.  Where the source raises an *)
(* error, the operator of that step is false.                              *)
(***************************************************************************)
EXTENDS Preflight, Comparison, Tasksets

Larger(a, b)  == IF a < b THEN b ELSE a
Smaller(a, b) == IF a < b THEN a ELSE b

\* A quarter of the tasks and 85 of a hundred, but one at least, and where
\* there is room one more for the candidate.
Successes(count) ==
    LET before == Larger(count \div 4, 1)
    IN  [baseline  |-> before,
         candidate |-> Smaller(Larger((count * 85) \div 100, before + 1), count)]

DefaultFakeRewards(count) ==
    [v \in Variants |-> [i \in 1 .. count |-> IF i <= Successes(count)[v] THEN 1 ELSE 0]]

BuildsFakeReceipt(request, campaign) == campaign.shared["backend"] = request.backend

FakeReceipt(request, variant, task, reward) ==
    [kind |-> "receipt", run |-> request.run, variant |-> variant,
     experiment |-> request[variant], task |-> task, reward |-> reward,
     score |-> "development_only", evidence |-> "development_only", backend |-> "fake"]

\* The provider's word is held against the Campaign once more.
ValidForFake(taskset, inputs, engine) ==
    /\ ValidatesTaskset(taskset, inputs, engine.verified)
    /\ inputs.validation.status = "valid"
    /\ ValidatedLock(taskset, inputs).tasks = inputs.campaign.tasks

\* What is on disk is the Campaign's tasks, in its order.
RequireReceipts(receipts, tasks) ==
    /\ Len(receipts) = Len(tasks)
    /\ \A i \in DOMAIN tasks : receipts[i].task = tasks[i]

\* The comparison of a run's own manifests is the one its draft was shown with.
RecomputeComparison(inputs) ==
    LET comparison == CompareManifests(inputs.baseline, inputs.candidate, inputs.campaign)
    IN  comparison.controlled /\ comparison = inputs.comparison

AggregatesFakeResults(receipts, tasks) ==
    \A v \in Variants : PairsReceipts(receipts[v], tasks)

DevelopmentReport(inputs, receipts) ==
    LET deltas == TaskDeltas(receipts, inputs.campaign.tasks)
    IN  [kind |-> "report", run |-> inputs.request.run, campaign |-> inputs.request.campaign,
         policy |-> inputs.request.policy, context |-> inputs.request.context,
         backend |-> inputs.campaign.shared["backend"], validation |-> inputs.validation,
         experiments |-> [v \in Variants |-> inputs.request[v]],
         comparison |-> "development_only", score |-> "development_only",
         publication |-> "blocked", manifests |-> inputs.comparison,
         primary |-> PrimaryResult(deltas), deltas |-> deltas,
         decision |-> "development_only", grade |-> "development_only",
         eligible |-> FALSE]
=============================================================================
