------------------------------ MODULE Execution ------------------------------
(***************************************************************************)
(* What the real executor asks before it spends anything, what it compiles *)
(* for the pinned engine, and what it accepts as the evidence of a variant *)
(* (runs/real.py, verifiers/*.py and the engine's own normalizer).  The    *)
(* two evaluations themselves are the module EvaluationPair.               *)
(*                                                                         *)
(* A raw episode is [ok, reply, traces], a raw trace [role, task, ok,      *)
(* reward, tokens, config, tools]; normalizing names the episode after its *)
(* trace's task and adds the trace's Skills.  Where the source raises an   *)
(* error, the operator of that step is false.                              *)
(***************************************************************************)
EXTENDS Preflight, Evidence, Comparison, Tasksets

\* Whatever validated the taskset, its tasks are the Campaign's.
ValidatedTaskset(taskset, inputs, engine) ==
    /\ ValidatesTaskset(taskset, inputs, engine.verified)
    /\ ValidatedLock(taskset, inputs).tasks = inputs.campaign.tasks

----------------------------------------------------------------------------
(* The plan of the pair. *)

\* The Skills a variant declares are the run's own, byte for byte.
MaterializesSkills(manifest, skills) ==
    \A i \in DOMAIN manifest.configuration.skills :
        \E skill \in skills : skill.root = manifest.configuration.skills[i] /\ skill.intact

\* A sequential variant has every permit; two parallel ones share them.
DividesConcurrency(order, permits) ==
    permits >= 1 /\ (order = "parallel" => permits >= 2)

DivideConcurrency(order, permits) ==
    IF order = "sequential"
    THEN [baseline |-> permits, candidate |-> permits]
    ELSE [baseline |-> permits \div 2, candidate |-> permits - (permits \div 2)]

\* An allow list and a block list that leave nothing, or everything, reachable.
EgressFor(policy) ==
    IF policy = "restricted" THEN [allow |-> {}, block |-> {"*"}]
                             ELSE [allow |-> {"*"}, block |-> {}]

ManifestDerivesFrom(manifest, campaign) ==
    /\ manifest.campaign = campaign
    /\ \A f \in {"policy", "backend", "taskset"} :
          manifest.configuration.shared[f] = campaign.shared[f]
    /\ Len(campaign.tasks) = campaign.selected

SubjectIsExecutable(campaign) ==
    /\ campaign.subject.seated
    /\ campaign.subject.harness = "hermes-agent" /\ ~campaign.subject.bundled
    /\ campaign.subject.runtime = "docker" /\ ~campaign.subject.trainable

CompileVariantConfig(campaign, permits) ==
    [model  |-> campaign.subject.model, egress |-> EgressFor(campaign.subject.network),
     tasks  |-> campaign.selected, permits |-> permits,
     input  |-> campaign.plan.input, output |-> campaign.plan.output,
     total  |-> campaign.plan.input + campaign.plan.output]

CompilesPair(campaign, manifests) ==
    /\ DividesConcurrency(campaign.plan.order, campaign.plan.permits)
    /\ SubjectIsExecutable(campaign)
    /\ \A v \in Variants :
          /\ ManifestDerivesFrom(manifests[v], campaign)
          /\ manifests[v].variant = v
          /\ IsInjective(manifests[v].configuration.skills)
          /\ DivideConcurrency(campaign.plan.order, campaign.plan.permits)[v] >= 1

\* The engine resolved what it was given, would push nothing and host nothing
\* in a server, and seats a subject.
DryRunPasses(compiled, dryrun) ==
    /\ dryrun.code = 0
    /\ dryrun.resolved = compiled
    /\ ~dryrun.push /\ ~dryrun.serve /\ dryrun.seat

----------------------------------------------------------------------------
(* The evidence of one variant. *)

\* The normalizer refuses an episode it cannot turn into a whole record.
NormalizesEpisode(episode) ==
    /\ Len(episode.traces) = 1
    /\ LET trace == episode.traces[1]
       IN  /\ trace.role = "subject"
           /\ trace.config["kind"] = "declared"
           /\ trace.reward \notin {NoReward, NonFinite}

NormalizeTrace(trace, manifest) ==
    [role |-> trace.role, task |-> trace.task, ok |-> trace.ok, reward |-> trace.reward,
     tokens |-> trace.tokens, config |-> trace.config, tools |-> trace.tools,
     skills |-> manifest.configuration.skills]

NormalizeEpisode(episode, manifest) ==
    [task |-> episode.traces[1].task, ok |-> episode.ok, reply |-> episode.reply,
     traces |-> <<NormalizeTrace(episode.traces[1], manifest)>>]

\* Episodes are recorded as they finish; a record for every committed task and
\* no other, in the committed order, is what is left.
OrdersByMembership(raw, tasks) ==
    /\ \A i, j \in DOMAIN raw : raw[i].traces[1].task = raw[j].traces[1].task => i = j
    /\ {raw[i].traces[1].task : i \in DOMAIN raw} = Range(tasks)

NormalizesOutput(raw, lock) ==
    /\ \A i \in DOMAIN raw : NormalizesEpisode(raw[i])
    /\ OrdersByMembership(raw, lock.tasks)

OrderByMembership(raw, lock, manifest) ==
    [n \in DOMAIN lock.tasks |->
        NormalizeEpisode(raw[CHOOSE i \in DOMAIN raw :
                               raw[i].traces[1].task = lock.tasks[n]], manifest)]

\* The records are told apart wherever Python's splitlines ends a line, and the
\* normalizer leaves the separators a reply may hold as they are.
ReadsNormalizedEpisodes(episodes) ==
    \A n \in DOMAIN episodes : episodes[n].reply # "separator"

RequireOutputFiles(output) == output.config /\ output.log /\ output.episodes # <<>>

BuildsVariantResult(output, lock) ==
    /\ RequireOutputFiles(output)
    /\ NormalizesOutput(output.episodes, lock)
    /\ ReadsNormalizedEpisodes(output.episodes)

BuildVariantResult(variant, manifest, output, outcome, image, lock) ==
    [variant |-> variant, manifest |-> manifest,
     episodes |-> OrderByMembership(output.episodes, lock, manifest),
     resolved |-> output.resolved, outcome |-> outcome,
     image |-> [name |-> "declared", index |-> image.index, platform |-> image.platform]]

----------------------------------------------------------------------------
(* The gates a variant passes to be scientifically usable. *)

CompletionCheck(execution) == ~execution.outcome.cancelled /\ execution.outcome.code = 0

MembershipChecks(execution, lock) ==
    /\ [n \in DOMAIN execution.episodes |-> execution.episodes[n].task] = lock.tasks
    /\ \A n \in DOMAIN execution.episodes : execution.episodes[n].ok

TraceChecks(execution, manifest) ==
    /\ \A n \in DOMAIN execution.episodes : Len(execution.episodes[n].traces) <= 1
    /\ TracesOf(execution) # {}
    /\ \A trace \in TracesOf(execution) :
          /\ trace.role = "subject" /\ trace.ok
          /\ trace.reward # NoReward
          /\ trace.config["model"] = manifest.configuration.shared["model"]
          /\ trace.config["harness"] = manifest.configuration.shared["harness"]
          /\ trace.config["version"] = manifest.configuration.shared["harness"]
          /\ trace.config["image"] = manifest.configuration.shared["runtime"]
          /\ trace.config["bundled"] = "declared"
          /\ trace.config["kind"] = "declared"
          /\ trace.skills = manifest.configuration.skills

PinCheck(execution) ==
    \A trace \in TracesOf(execution) : trace.config["build"] = "declared"

VerifyVariantExecution(execution, manifest, lock) ==
    /\ CompletionCheck(execution)
    /\ MembershipChecks(execution, lock)
    /\ TraceChecks(execution, manifest)
    /\ execution.manifest = manifest
    /\ PinCheck(execution)
=============================================================================
