------------------------------ MODULE Evidence ------------------------------
(***************************************************************************)
(* What the report stage reads from an executed variant: episode receipts  *)
(* (receipts/episode.py), the configuration its rollouts were really run   *)
(* under (receipts/observed.py) and the operational record of the pair     *)
(* (receipts/execution.py).                                                *)
(*                                                                         *)
(* An execution is [variant, manifest, episodes, resolved, image, outcome];*)
(* an episode is [task, ok, traces]; a trace is [role, task, ok, reward,   *)
(* tokens, config, skills, tools].  Where the source raises an error, the  *)
(* operator of that step is a predicate, and it is false.                  *)
(***************************************************************************)
EXTENDS Naturals, Integers, Sequences, FiniteSets, FiniteSetsExt, Functions

Variants == {"baseline", "candidate"}

\* A reward is a number, absent, or not a finite number.
NoReward  == -1
NonFinite == -2

\* A trace that reported no tokens, and a variant none of whose traces did.
NoTokens == -1

\* What every trace records of the subject it ran.
TraceFields == {"model", "harness", "version", "bundled", "sampling", "kind",
                "image", "index", "rewards", "build"}
\* What the engine's resolved configuration records too.
ResolvedFields == {"model", "harness", "version", "bundled", "sampling",
                   "kind", "image"}

ToolNames(trace) == DOMAIN trace.tools
TracesOf(execution) ==
    UNION {Range(execution.episodes[i].traces) : i \in DOMAIN execution.episodes}

----------------------------------------------------------------------------
(* Episode receipts. *)

ExecutionLineage(request, variant, experiment, execution) ==
    /\ execution.variant = variant
    /\ experiment.variant = variant
    /\ experiment = execution.manifest
    /\ experiment = request[variant]
    /\ experiment.campaign = request.campaign
    /\ experiment.configuration.shared["policy"] = request.policy
    /\ experiment.context = request.context
    /\ experiment.configuration.shared["backend"] = request.backend

\* A v0.1 episode carries exactly one trace, in the subject's seat.
HasSubjectTrace(episode) ==
    Len(episode.traces) = 1 /\ episode.traces[1].role = "subject"

FiniteRewards(trace) == trace.reward # NonFinite

ScoreStatus(episode, trace) ==
    CASE ~(episode.ok /\ trace.ok)  -> "errored"
      [] episode.ok /\ trace.ok /\ trace.reward = NoReward -> "missing"
      [] OTHER -> "valid"

\* No Campaign may require runtime evidence, so a described configuration is
\* complete evidence.
EvidenceStatus(trace) == IF ToolNames(trace) # {} THEN "complete" ELSE "partial"

BuildsEpisodeReceipt(episode) ==
    /\ HasSubjectTrace(episode)
    /\ episode.traces[1].task = episode.task
    /\ FiniteRewards(episode.traces[1])

BuildEpisodeReceipt(request, variant, experiment, episode) ==
    LET trace == episode.traces[1]
    IN  [kind |-> "receipt", run |-> request.run, variant |-> variant,
         experiment |-> experiment, task |-> episode.task, reward |-> trace.reward,
         score |-> ScoreStatus(episode, trace),
         evidence |-> EvidenceStatus(trace), backend |-> "verifiers"]

CommittedMembership(tasks) == tasks # <<>> /\ IsInjective(tasks)

\* One episode for every committed task, whatever order they came back in.
EpisodesByTask(execution, tasks) ==
    /\ Len(execution.episodes) = Len(tasks)
    /\ {execution.episodes[i].task : i \in DOMAIN execution.episodes} = Range(tasks)
    /\ \A i, j \in DOMAIN execution.episodes :
          execution.episodes[i].task = execution.episodes[j].task => i = j

EpisodeFor(execution, task) ==
    execution.episodes[CHOOSE i \in DOMAIN execution.episodes :
                          execution.episodes[i].task = task]

VariantReceipts(request, variant, experiment, execution, tasks) ==
    [i \in DOMAIN tasks |->
        BuildEpisodeReceipt(request, variant, experiment,
                            EpisodeFor(execution, tasks[i]))]

EveryTaskScored(receipts) == \A i \in DOMAIN receipts : receipts[i].score # "missing"

BuildsVariantReceipts(request, variant, experiment, execution, tasks) ==
    /\ ExecutionLineage(request, variant, experiment, execution)
    /\ CommittedMembership(tasks)
    /\ EpisodesByTask(execution, tasks)
    /\ \A i \in DOMAIN execution.episodes : BuildsEpisodeReceipt(execution.episodes[i])
    /\ EveryTaskScored(VariantReceipts(request, variant, experiment, execution, tasks))

----------------------------------------------------------------------------
(* The observed configuration. *)

\* Mutant of NoDrift: rollouts are told apart by what they were given only.
SameSkillsAndTools(traces) ==
    \A t, u \in traces : t.skills = u.skills /\ ToolNames(t) = ToolNames(u)

\* The traces of one variant are one configuration run many times.  Of the
\* tools only the names are compared.
NoDrift(traces) ==
    \A t, u \in traces :
        /\ t.config = u.config
        /\ t.skills = u.skills
        /\ ToolNames(t) = ToolNames(u)

ConfigAgreesWithTraces(trace, resolved) ==
    /\ resolved.subject
    /\ \A f \in ResolvedFields : resolved.config[f] = trace.config[f]

\* The daemon answered for the image that ran, holds the content the Campaign
\* pinned, and served it on a platform the Campaign pins a digest for.
ResolvesPlatform(trace, image, runtime) ==
    /\ image.name = trace.config["image"]
    /\ image.index = trace.config["index"]
    /\ image.index = runtime.index
    /\ image.platform \in runtime.platforms

ReferenceTrace(execution) ==
    LET first == Min({i \in DOMAIN execution.episodes :
                        execution.episodes[i].traces # <<>>})
    IN  execution.episodes[first].traces[1]

Observes(execution, runtime) ==
    /\ TracesOf(execution) # {}
    /\ NoDrift(TracesOf(execution))
    /\ LET trace == ReferenceTrace(execution)
       IN  /\ execution.resolved.skills = trace.skills
           /\ ConfigAgreesWithTraces(trace, execution.resolved)
           /\ ResolvesPlatform(trace, execution.image, runtime)

\* The configuration and, beside it, what the comparison looks inside of: the
\* reference rollout's tools and the tasks in the order they came back.
ObserveVariant(execution) ==
    LET trace == ReferenceTrace(execution)
    IN  [variant |-> execution.variant, config |-> trace.config,
         skills |-> execution.resolved.skills, tools |-> trace.tools,
         platform |-> execution.image.platform,
         tasks |-> [i \in DOMAIN execution.episodes |-> execution.episodes[i].task],
         outcome |-> execution.outcome]

----------------------------------------------------------------------------
(* The execution record. *)

\* A variant that finished before it started, by a clock set back, has no
\* summary, and neither has the pair.
BuildsSummary(execution) == execution.outcome.started <= execution.outcome.finished

\* The traces that report tokens are added up, and counted.
VariantUsage(execution) ==
    LET told == {n \in DOMAIN execution.episodes :
                    execution.episodes[n].traces[1].tokens # NoTokens}
    IN  [traces |-> Len(execution.episodes), told |-> Cardinality(told),
         tokens |-> IF told = {} THEN NoTokens
                    ELSE SumFunction([n \in told |->
                                         execution.episodes[n].traces[1].tokens])]

VariantSummary(execution) ==
    [usage |-> VariantUsage(execution), episodes |-> execution.episodes,
     seconds |-> execution.outcome.finished - execution.outcome.started]

Overlap(left, right) ==
    LET start  == Max({left.started, right.started})
        finish == Min({left.finished, right.finished})
    IN  IF finish > start THEN finish - start ELSE 0

PairOutcome(left, right) ==
    CASE left.cancelled \/ right.cancelled -> "cancelled"
      [] ~(left.cancelled \/ right.cancelled) /\ (left.code # 0 \/ right.code # 0)
            -> "failed"
      [] OTHER -> "completed"

\* The launch skew and the side launched first, when children.json tells both.
ReadChildrenRecord(children) ==
    IF DOMAIN children = Variants
    THEN [skew |-> Max({children["baseline"], children["candidate"]})
                     - Min({children["baseline"], children["candidate"]}),
          first |-> IF children["candidate"] < children["baseline"]
                    THEN "candidate" ELSE "baseline"]
    ELSE [skew |-> -1, first |-> "nothing"]

ExecutionRecord(request, executions, children) ==
    LET left  == executions["baseline"].outcome
        right == executions["candidate"].outcome
    IN  [kind |-> "execution-record", run |-> request.run,
         campaign |-> request.campaign,
         experiments |-> [v \in Variants |-> executions[v].manifest],
         sides |-> [v \in Variants |-> VariantSummary(executions[v])],
         launched |-> ReadChildrenRecord(children),
         overlap |-> Overlap(left, right), outcome |-> PairOutcome(left, right)]
=============================================================================
