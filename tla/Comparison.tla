----------------------------- MODULE Comparison -----------------------------
(***************************************************************************)
(* Whether two executed variants were one controlled experiment            *)
(* (receipts/compare.py), and what their rewards then say                  *)
(* (receipts/uplift.py).                                                   *)
(*                                                                         *)
(* A check is true when it passed.  Means are compared as sums: both are   *)
(* over the same number of tasks, so nothing is divided here.              *)
(***************************************************************************)
EXTENDS Manifests, Evidence

CONSTANT
    PinnedTools   \* what the pinned harness offers: tool name -> parameter schema

SkillIndexTool == "skill_manage"

----------------------------------------------------------------------------
(* The declared side. *)

\* Each part the two manifests must share; "declared_outcome_contract" and
\* the like are one check for each member of Fields but the mutation's own.
DeclaredShared(baseline, candidate) ==
    /\ baseline.campaign = candidate.campaign
    /\ baseline.context = candidate.context
    /\ \A f \in Fields \ {"mutation", "role", "taskset"} :
          baseline.configuration.shared[f] = candidate.configuration.shared[f]

TasksetChecks(campaign, baseline, candidate, lock) ==
    /\ baseline.configuration.shared["taskset"] = campaign.shared["taskset"]
    /\ candidate.configuration.shared["taskset"] = campaign.shared["taskset"]
    /\ lock.tasks = campaign.tasks
    /\ lock.membership = campaign.tasks
    /\ lock.ref = campaign.shared["taskset"].ref

ManifestComparisonChecks(prepared, recomputed) ==
    recomputed.controlled /\ recomputed = prepared

MutationCheck(campaign, baseline, candidate) ==
    LET left  == baseline.configuration.skills
        right == candidate.configuration.skills
    IN  IF campaign.mutation = "insertion"
        THEN left = <<>> /\ Len(right) = 1
        ELSE Len(left) = 1 /\ Len(right) = 1 /\ left # right

DeclaredChecks(campaign, baseline, candidate, prepared, lock) ==
    [declared_shared     |-> DeclaredShared(baseline, candidate),
     declared_taskset    |-> TasksetChecks(campaign, baseline, candidate, lock),
     declared_comparison |-> ManifestComparisonChecks(prepared,
                                CompareManifests(baseline, candidate, campaign)),
     declared_mutation   |-> MutationCheck(campaign, baseline, candidate)]

----------------------------------------------------------------------------
(* The observed side. *)

\* A variant offered exactly the pinned harness's tools, with its schemas.
Conforms(observed) ==
    /\ DOMAIN observed.tools = DOMAIN PinnedTools
    /\ \A t \in DOMAIN PinnedTools : observed.tools[t].schema = PinnedTools[t]

\* Both sides were offered the same tools; only the description of the tool
\* the harness lists its Skills in may differ.
ToolSurface(left, right) ==
    /\ Conforms(left) /\ Conforms(right)
    /\ \A t \in DOMAIN left.tools :
          /\ left.tools[t].schema = right.tools[t].schema
          /\ left.tools[t].text # right.tools[t].text => t = SkillIndexTool

DeclaredToObserved(manifest, observed) ==
    /\ \A f \in {"model", "harness", "sampling"} :
          manifest.configuration.shared[f] = observed.config[f]
    /\ manifest.configuration.shared["harness"] = observed.config["version"]
    /\ manifest.configuration.shared["harness"] = observed.config["bundled"]
    /\ manifest.configuration.shared["runtime"] = observed.config["kind"]
    /\ manifest.configuration.shared["runtime"] = observed.config["image"]
    /\ manifest.configuration.skills = observed.skills

RuntimePinned(campaign, left, right) ==
    /\ left.config["index"] = campaign.runtime.index
    /\ right.config["index"] = campaign.runtime.index
    /\ left.platform = right.platform
    /\ left.platform \in campaign.runtime.platforms

ObservedChecks(campaign, baseline, candidate, left, right) ==
    [observed_tasks     |-> left.tasks = campaign.tasks /\ right.tasks = campaign.tasks,
     observed_shared    |-> /\ \A f \in TraceFields : left.config[f] = right.config[f]
                            /\ left.platform = right.platform,
     observed_pins      |-> RuntimePinned(campaign, left, right),
     observed_tools     |-> ToolSurface(left, right),
     observed_baseline  |-> DeclaredToObserved(baseline, left),
     observed_candidate |-> DeclaredToObserved(candidate, right)]

----------------------------------------------------------------------------
(* The comparison of the pair. *)

\* Every committed task exactly once on each side.
PairsReceipts(receipts, tasks) ==
    /\ \A i, j \in DOMAIN receipts : receipts[i].task = receipts[j].task => i = j
    /\ {receipts[i].task : i \in DOMAIN receipts} = Range(tasks)

ComparisonStatus(groups, warned) ==
    IF \E i \in DOMAIN groups : \E c \in DOMAIN groups[i] : ~groups[i][c] THEN "invalid"
    ELSE IF warned THEN "controlled_with_warnings" ELSE "controlled"

CompareRealVariants(inputs, lock, receipts, executions) ==
    LET campaign == inputs.campaign
        left  == ObserveVariant(executions["baseline"])
        right == ObserveVariant(executions["candidate"])
        groups ==
            <<DeclaredChecks(campaign, inputs.baseline, inputs.candidate,
                             inputs.comparison, lock),
              ObservedChecks(campaign, inputs.baseline, inputs.candidate, left, right),
              [paired |-> \A v \in Variants : PairsReceipts(receipts[v], lock.tasks)]>>
    IN  [status   |-> ComparisonStatus(groups, ~campaign.revision),
         tasks    |-> lock.tasks,
         manifest |-> CompareManifests(inputs.baseline, inputs.candidate, campaign)]

Controlled(status) == status \in {"controlled", "controlled_with_warnings"}

----------------------------------------------------------------------------
(* The result. *)

\* The receipt that scores a task, and its reward, which must be a number.
RewardOf(receipts, task) ==
    receipts[CHOOSE i \in DOMAIN receipts : receipts[i].task = task].reward

PairsRewards(receipts, tasks) ==
    /\ CommittedMembership(tasks)
    /\ PairsReceipts(receipts, tasks)
    /\ \A i \in DOMAIN receipts : receipts[i].reward >= 0

TaskDeltas(receipts, tasks) ==
    [i \in DOMAIN tasks |->
        [task |-> tasks[i], baseline  |-> RewardOf(receipts["baseline"], tasks[i]),
                            candidate |-> RewardOf(receipts["candidate"], tasks[i])]]

PrimaryResult(deltas) ==
    LET Count(P(_)) == Cardinality({i \in DOMAIN deltas : P(deltas[i])})
        total(side) == SumFunction([i \in DOMAIN deltas |-> deltas[i][side]])
    IN  [baseline  |-> total("baseline"), candidate |-> total("candidate"),
         delta     |-> total("candidate") - total("baseline"),
         wins      |-> Count(LAMBDA d : d.candidate > d.baseline),
         losses    |-> Count(LAMBDA d : d.candidate < d.baseline),
         ties      |-> Count(LAMBDA d : d.candidate = d.baseline)]

DecideUplift(scoring, status, primary, tasks) ==
    CASE ~Controlled(status) -> "invalid"
      [] Controlled(status) /\ ~scoring.above /\ scoring.minimum = 0 -> "inconclusive"
      [] Controlled(status) /\ (scoring.above \/ scoring.minimum > 0) ->
            IF \/ scoring.above /\ primary.delta <= 0
               \/ primary.delta < scoring.minimum * Len(tasks)
            THEN "rejected" ELSE "accepted"

SummarizeScores(receipts) ==
    IF \A v \in Variants : \A i \in DOMAIN receipts[v] : receipts[v][i].score = "valid"
    THEN "valid" ELSE "invalid"

PublicationStatusFor(policy) ==
    IF policy.report = "public" THEN "not_requested" ELSE "blocked"

PublicationEligible(grade, publication) == grade = "P1" /\ publication # "blocked"

ProofGrade(attested, status, score) ==
    IF attested /\ Controlled(status) /\ score = "valid" THEN "P1" ELSE "development_only"
=============================================================================
