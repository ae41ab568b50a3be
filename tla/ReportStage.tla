----------------------------- MODULE ReportStage -----------------------------
(***************************************************************************)
(* One run from its staged inputs to its recorded result, and what         *)
(* may be done with the result: the worker executes the two variants       *)
(* (runs/real.py), turns their evidence into receipts, a comparison, a     *)
(* report and a proof bundle (uplift/service.py), and records the report.  *)
(* A Campaign no model can be run for is given to the development executor *)
(* instead, which makes its rewards up (worker/execute.py, runs/fake.py).  *)
(* Later a person derives the next Skill from the run, or plans to publish *)
(* it (uplift/service.py, publication/service.py).                         *)
(*                                                                         *)
(* The worker may die and a cancellation may be asked for at any step.     *)
(* What the worker wrote may not be what it reads back, and once it is     *)
(* gone, files of the bundle may be lost, or be found replaced by the same *)
(* file, or all the files, of another run's bundle.                        *)
(***************************************************************************)
EXTENDS Presentation, FakeExecutor

CONSTANTS
    Starts,   \* the runs a worker may be given, with what their evaluation leaves;
              \* of some, told by steady, the worker, the files or the person who
              \* started the run may do something more
    Others,   \* what the proofs of other runs hold, as BundleFiles is given it
    Key       \* the key of this machine's identity

\* A Campaign lists its tasks and keeps to its contract, and what it declares is
\* what its manifests share.
ASSUME CampaignAssumption ==
    \A start \in Starts :
        LET campaign == start.inputs.campaign
        IN  /\ campaign.tasks \in Seq(Range(campaign.tasks))
            /\ CampaignContract(campaign)
            /\ campaign.scoring.above \in BOOLEAN /\ campaign.scoring.minimum \in Nat
            /\ \A v \in Variants :
                  LET shared == start.inputs[v].configuration.shared
                  IN  shared = [f \in Fields |-> shared[f]]

\* A Campaign that ships a valid receipt was validated: its evidence found each
\* task, in its place, to pass both checks.
ASSUME PublisherAssumption ==
    \A start \in Starts :
        LET campaign == start.inputs.campaign
            shipped  == campaign.shared["taskset"].validation
            found    == shipped.evidence.tasks
        IN  shipped.status = "valid" =>
                \A n \in DOMAIN campaign.tasks :
                    /\ n \in DOMAIN found /\ found[n].task = campaign.tasks[n]
                    /\ found[n].gold = "valid" /\ found[n].setup = "valid"

\* What evaluations and validators leave are lists, of numbers where rewards
\* and tokens are counted.
ASSUME EvidenceAssumption ==
    \A start \in Starts :
        /\ start.taskset.rows \in Seq(Range(start.taskset.rows))
        /\ \A v \in Variants :
              LET raw == start.outputs[v].episodes
              IN  /\ raw \in Seq(Range(raw))
                  /\ \A i \in DOMAIN raw :
                        /\ raw[i].traces \in Seq(Range(raw[i].traces))
                        /\ \A t \in Range(raw[i].traces) :
                              t.reward \in Int /\ t.tokens \in Int

\* Another run has another name, and its report was made from its DataPolicy as
\* BuildUpliftReport makes one.
ASSUME OthersAssumption ==
    \A other \in Others :
        /\ \A start \in Starts : other.report.run # start.inputs.request.run
        /\ other.report.publication = PublicationStatusFor(other.report.policy)

OtherBundles == {SealedBundle(other) : other \in Others}

VARIABLES
    given,      \* the run the worker was given
    phase,      \* the run's phase, as its journal tells it
    pc,         \* the worker's next step
    refusal,    \* the step whose refusal ended the work
    identity,   \* the key files on disk: "none", "half" or "whole"
    lock,       \* the taskset lock kept among the inputs
    receipts,   \* the episode receipts written in the run directory
    executed,   \* the normalized evaluation of each variant
    proof,      \* what the worker will write of the report it has built
    bundle,     \* the files of the bundle directory
    result,     \* the report recorded as the run's result
    used,       \* what became of reports: [by, report], and of the log's [shown]
    plan,       \* the publication a person was last shown
    sent,       \* what was sent of it, and whether the log took it
    disturbed   \* whether the bundle was changed behind the program's back

vars == <<given, phase, pc, refusal, identity, lock, executed, receipts, proof,
          bundle, result, used, plan, sent, disturbed>>
work == <<identity, lock, executed, receipts, proof, bundle, result>>

Phases == {"created", "validating_taskset", "running_variants", "running_baseline",
           "running_candidate", "building_receipts", "verifying_comparison",
           "building_report", "completed", "failed", "cancelled", "cancel_requested"}
Ended == phase \in {"completed", "failed", "cancelled"}

\* The phases the development executor passes through, with the step at which
\* it enters each and the step that follows.
FakePath ==
    [enter_baseline   |-> [from |-> "validating_taskset",   to |-> "running_baseline",
                           next |-> "score_baseline"],
     enter_candidate  |-> [from |-> "running_baseline",     to |-> "running_candidate",
                           next |-> "score_candidate"],
     enter_receipts   |-> [from |-> "running_candidate",    to |-> "building_receipts",
                           next |-> "read_receipts"],
     enter_comparison |-> [from |-> "building_receipts",    to |-> "verifying_comparison",
                           next |-> "recompute"],
     enter_report     |-> [from |-> "verifying_comparison", to |-> "building_report",
                           next |-> "report_fake"]]

Steps == {"preflight", "validate", "plan", "run", "normalize", "inputs", "key",
          "publish_key", "receipts", "compare", "report", "write", "seal", "verify",
          "record", "complete", "exited", "dead", "validate_fake"}
         \cup DOMAIN FakePath \cup {FakePath[s].next : s \in DOMAIN FakePath}

----------------------------------------------------------------------------
(* The staged inputs. *)

SkillsOf(inputs) ==
    {inputs.skill} \cup (IF inputs.replaced = Nothing THEN {} ELSE {inputs.replaced})

ManifestsVerify(inputs) ==
    /\ \A v \in Variants :
          inputs[v] = inputs.request[v] /\ inputs[v] = inputs.draft[v]
    /\ inputs.comparison.baseline = inputs.baseline.configuration
    /\ inputs.comparison.candidate = inputs.candidate.configuration
    /\ inputs.comparison.controlled

SkillsVerify(inputs) ==
    /\ inputs.skill.root = inputs.draft.skill
    /\ (inputs.baseline.configuration.skills = <<>>) <=> (inputs.replaced = Nothing)
    /\ inputs.replaced # Nothing =>
          inputs.replaced.root = inputs.baseline.configuration.skills[1]
    /\ \A skill \in SkillsOf(inputs) : skill.listed = skill.root /\ skill.intact

\* Every staged document is the one the request names.
InputsVerify(inputs) ==
    /\ inputs.draft = inputs.request.draft
    /\ inputs.campaign = inputs.request.campaign
    /\ inputs.campaign = inputs.draft.campaign
    /\ inputs.policy = inputs.request.policy
    /\ inputs.policy = inputs.draft.policy
    /\ inputs.policy = inputs.campaign.shared["policy"]
    /\ inputs.draft.context = inputs.request.context
    /\ inputs.campaign.shared["backend"] = inputs.request.backend
    /\ inputs.validation = inputs.campaign.shared["taskset"].validation
    /\ inputs.evidence = inputs.validation.evidence
    /\ ManifestsVerify(inputs)
    /\ SkillsVerify(inputs)

----------------------------------------------------------------------------
(* What the worker computes from what it has read. *)

Inputs == given.inputs
Validated == ValidatedLock(given.taskset, Inputs)
ManifestOf == [v \in Variants |-> Inputs[v]]

ExecutionOf(v) ==
    BuildVariantResult(v, Inputs[v], given.outputs[v], given.outcomes[v],
                       given.images[v], Validated)

ReceiptsOf(v) ==
    VariantReceipts(Inputs.request, v, Inputs[v], executed[v], lock.tasks)
SetOf(v) ==
    BuildReceiptSet(Inputs.request.run, v, Inputs[v], ReceiptsOf(v), lock.tasks)

BuildsVariant(v) ==
    /\ BuildsVariantReceipts(Inputs.request, v, Inputs[v], executed[v], lock.tasks)
    /\ BuildsReceiptSet(Inputs.request.run, v, Inputs[v], ReceiptsOf(v), lock.tasks)
    /\ Observes(executed[v], Inputs.campaign.runtime)

Compare == CompareRealVariants(Inputs, lock, receipts, executed)
Sets == [v \in Variants |-> SetOf(v)]
Envelopes == {Sign(Key, r) : r \in UNION {Range(receipts[v]) : v \in Variants}}

report == IF proof = Nothing THEN Nothing ELSE proof.report

----------------------------------------------------------------------------
(* Actions of the worker. *)

\* The worker's own failure is recorded unless the run has ended.
Refuses(step) ==
    /\ pc' = "exited" /\ refusal' = step
    /\ phase' = IF Ended THEN phase ELSE "failed"
    /\ UNCHANGED work

\* A phase is entered only from the one before it; a cancellation that was
\* asked for refuses it.
Enters(step, from, to, next) ==
    IF phase = from THEN phase' = to /\ pc' = next /\ UNCHANGED refusal
                    ELSE phase' = "failed" /\ pc' = "exited" /\ refusal' = step

Keeps == UNCHANGED <<given, used, plan, sent, disturbed>>

\* A worker that looks, and finds that a cancellation was asked for, stops.
Cancels(step) ==
    /\ phase' = "cancelled" /\ pc' = "exited" /\ refusal' = step
    /\ UNCHANGED work

\* The Campaign decides which executor a run is given; a request that says
\* otherwise is refused.
ExecutorAgrees == ExecutorKindFor(Inputs.campaign) = Inputs.request.executor
IsFake == Inputs.request.executor = "fake"

\* Nothing is written, and nothing is asked of the engine, before all of this
\* holds.
Preflight ==
    /\ pc = "preflight" /\ ~IsFake /\ Keeps
    /\ IF /\ InputsVerify(Inputs) /\ ExecutorAgrees
          /\ AcknowledgedPolicy(Inputs.request, Inputs.campaign)
          /\ SupportedBackend(Inputs.campaign)
          /\ LiveCampaign(Inputs.campaign)
          /\ ResolvesEngine(given.engine)
          /\ HasCredential(given.machine)
          /\ BoundedCampaign(Inputs.campaign, given.machine)
       THEN Enters("preflight", "created", "validating_taskset", "validate")
            /\ UNCHANGED work
       ELSE Refuses("preflight")

\* The lock is the one the validation produced, kept if there is one already.
ValidateTaskset ==
    /\ pc = "validate" /\ Keeps
    /\ IF ValidatedTaskset(given.taskset, Inputs, given.engine)
       THEN /\ lock' = IF lock = Nothing THEN Validated ELSE lock
            /\ pc' = "plan"
            /\ UNCHANGED <<phase, refusal, identity, executed, receipts, proof, bundle,
                           result>>
       ELSE Refuses("validate")

PlanPair ==
    /\ pc = "plan" /\ Keeps
    /\ LET permits == DivideConcurrency(Inputs.campaign.plan.order,
                                        Inputs.campaign.plan.permits)
       IN  IF /\ \A v \in Variants : MaterializesSkills(Inputs[v], SkillsOf(Inputs))
              /\ CompilesPair(Inputs.campaign, ManifestOf)
              /\ \A v \in Variants :
                    /\ DryRunPasses(CompileVariantConfig(Inputs.campaign, permits[v]),
                                    [given.dryrun EXCEPT
                                       !.resolved.permits = permits[v]])
                    /\ ResolvesSubjectImage(given.images[v], Inputs.campaign.runtime)
           THEN pc' = "run" /\ UNCHANGED <<phase, refusal, work>>
           ELSE Refuses("plan")

\* The pair of evaluations, with its announcements, is one step here.
RunChildren ==
    /\ pc = "run" /\ Keeps
    /\ Enters("run", "validating_taskset", "running_variants", "normalize")
    /\ UNCHANGED work

Normalize ==
    /\ pc = "normalize" /\ Keeps
    /\ IF \A v \in Variants :
            /\ BuildsVariantResult(given.outputs[v], Validated)
            /\ VerifyVariantExecution(ExecutionOf(v), Inputs[v], Validated)
       THEN /\ executed' = [v \in Variants |-> ExecutionOf(v)]
            /\ pc' = "inputs"
            /\ UNCHANGED <<phase, refusal, identity, lock, receipts, proof, bundle, result>>
       ELSE Refuses("normalize")

\* The report stage begins: a cancellation is still honoured here.
ReadInputs ==
    /\ pc = "inputs" /\ Keeps
    /\ IF phase = "cancel_requested"
       THEN Cancels("inputs")
       ELSE IF InputsVerify(Inputs) /\ lock.tasks = Inputs.campaign.tasks
            THEN pc' = "key" /\ UNCHANGED <<phase, refusal, work>>
            ELSE Refuses("inputs")

\* The private key is written, and the public half derived from it after.
EnsureIdentity ==
    /\ pc = "key" /\ Keeps
    /\ CASE identity = "whole" ->
              Enters("key", "running_variants", "building_receipts", "receipts")
              /\ UNCHANGED work
         [] identity = "none" ->
              /\ identity' = "half" /\ pc' = "publish_key"
              /\ UNCHANGED <<phase, refusal, lock, executed, receipts, proof, bundle,
                             result>>
         [] identity = "half" -> Refuses("key")

PublishKey ==
    /\ pc = "publish_key" /\ Keeps
    /\ identity' = "whole" /\ pc' = "key"
    /\ UNCHANGED <<phase, refusal, lock, executed, receipts, proof, bundle, result>>

BuildReceipts ==
    /\ pc = "receipts" /\ Keeps
    /\ IF \A v \in Variants : BuildsVariant(v)
       THEN /\ receipts' = [v \in Variants |-> ReceiptsOf(v)]
            /\ pc' = "compare"
            /\ UNCHANGED <<phase, refusal, identity, lock, executed, proof, bundle, result>>
       ELSE Refuses("receipts")

VerifyComparison ==
    /\ pc = "compare" /\ Keeps
    /\ Enters("compare", "building_receipts", "verifying_comparison", "report")
    /\ UNCHANGED work

\* The comparison is judged where the report is built, and the record of the
\* pair is made before anything is written.
BuildReport ==
    /\ pc = "report" /\ Keeps
    /\ IF /\ phase = "verifying_comparison"
          /\ Reportable(Inputs, Compare, receipts, Sets)
          /\ \A v \in Variants : BuildsSummary(executed[v])
       THEN /\ proof' =
                 [key |-> Key, inputs |-> Inputs, lock |-> lock, receipts |-> receipts,
                  sets |-> Sets,
                  report |-> BuildUpliftReport(Inputs, Compare, receipts,
                     AssessLocalAttestation(Inputs, lock, ExecutorIdentity(Key),
                        Envelopes, Compare.status, SummarizeScores(receipts))),
                  record |-> ExecutionRecord(Inputs.request, executed, given.children)]
            /\ phase' = "building_report" /\ pc' = "write"
            /\ UNCHANGED <<refusal, identity, lock, executed, receipts, bundle, result>>
       ELSE Refuses("report")

\* The files of the bundle one at a time, the manifest when they are all there.
WriteBundleFile ==
    /\ pc = "write" /\ Keeps
    /\ LET files == BundleFiles(proof)
           missing == DOMAIN files \ DOMAIN bundle
       IN  IF missing = {}
           THEN pc' = "seal" /\ UNCHANGED bundle
           ELSE LET f == CHOOSE f \in missing : TRUE
                IN  bundle' = WithFile(bundle, f, files[f]) /\ UNCHANGED pc
    /\ UNCHANGED <<phase, refusal, identity, lock, executed, receipts, proof, result>>

SealBundle ==
    /\ pc = "seal" /\ Keeps
    /\ bundle' = WithFile(bundle, ManifestFile, Sign(Key, BuildLocalBundle(proof)))
    /\ pc' = "verify"
    /\ UNCHANGED <<phase, refusal, identity, lock, executed, receipts, proof, result>>

\* Mutant of VerifyBundle: the proof is written, and taken as read.
VerifyNothing ==
    /\ pc = "verify" /\ Keeps
    /\ pc' = "record" /\ UNCHANGED <<phase, refusal, work>>

\* The proof is read back before its report becomes the run's result.
VerifyBundle ==
    /\ pc = "verify" /\ Keeps
    /\ IF VerifyLocalBundle(bundle)
       THEN pc' = "record" /\ UNCHANGED <<phase, refusal, work>>
       ELSE Refuses("verify")

WriteResult ==
    /\ pc = "record" /\ Keeps
    /\ IF phase = "building_report" /\ result = Nothing
       THEN /\ result' = report /\ pc' = "complete"
            /\ UNCHANGED <<phase, refusal, identity, lock, executed, receipts, proof,
                           bundle>>
       ELSE Refuses("record")

Complete ==
    /\ pc = "complete" /\ Keeps
    /\ Enters("complete", "building_report", "completed", "exited")
    /\ UNCHANGED work

----------------------------------------------------------------------------
(* Actions of the worker that is given the development executor. *)

FakePreflight ==
    /\ pc = "preflight" /\ IsFake /\ Keeps
    /\ IF InputsVerify(Inputs) /\ ExecutorAgrees /\ SupportedBackend(Inputs.campaign)
       THEN Enters("preflight", "created", "validating_taskset", "validate_fake")
            /\ UNCHANGED work
       ELSE Refuses("preflight")

\* Looks for a cancellation once the step is done, and not before.
LooksAfter(passes, next) ==
    CASE ~passes                                   -> Refuses(pc)
      [] passes /\ phase = "cancel_requested"      -> Cancels(pc)
      [] passes /\ phase # "cancel_requested"      ->
            pc' = next /\ UNCHANGED <<phase, refusal, work>>

ValidateFake ==
    /\ pc = "validate_fake" /\ Keeps
    /\ LooksAfter(ValidForFake(given.taskset, Inputs, given.engine), "enter_baseline")

EnterNext ==
    /\ pc \in DOMAIN FakePath /\ Keeps
    /\ Enters(pc, FakePath[pc].from, FakePath[pc].to, FakePath[pc].next)
    /\ UNCHANGED work

\* A trace, its receipt and a line of progress for each task, in the order of
\* the Campaign; a cancellation is looked for around each.
ScoreNext(v) ==
    /\ pc = (IF v = "baseline" THEN "score_baseline" ELSE "score_candidate") /\ Keeps
    /\ LET tasks == Inputs.campaign.tasks
           n     == Len(receipts[v]) + 1
       IN  CASE phase = "cancel_requested" -> Cancels(pc)
             [] phase # "cancel_requested" /\ n > Len(tasks) ->
                   pc' = (IF v = "baseline" THEN "enter_candidate" ELSE "enter_receipts")
                   /\ UNCHANGED <<phase, refusal, work>>
             [] phase # "cancel_requested" /\ n <= Len(tasks) ->
                   /\ BuildsFakeReceipt(Inputs.request, Inputs.campaign)
                   /\ receipts' = [receipts EXCEPT ![v] = Append(@,
                         FakeReceipt(Inputs.request, v, tasks[n],
                                     DefaultFakeRewards(Len(tasks))[v][n]))]
                   /\ UNCHANGED <<phase, pc, refusal, identity, lock, executed, proof,
                                  bundle, result>>

ReadReceipts ==
    /\ pc = "read_receipts" /\ Keeps
    /\ LooksAfter(\A v \in Variants : RequireReceipts(receipts[v], Inputs.campaign.tasks),
                  "enter_comparison")

Recompute ==
    /\ pc = "recompute" /\ Keeps
    /\ LooksAfter(RecomputeComparison(Inputs), "enter_report")

\* The report stands beside no proof.
ReportFake ==
    /\ pc = "report_fake" /\ Keeps
    /\ IF AggregatesFakeResults(receipts, Inputs.campaign.tasks)
       THEN /\ proof' = [report |-> DevelopmentReport(Inputs, receipts)]
            /\ pc' = "record"
            /\ UNCHANGED <<phase, refusal, identity, lock, executed, receipts, bundle,
                           result>>
       ELSE Refuses("report_fake")

----------------------------------------------------------------------------
(* Actions of everybody else. *)

Working == pc \notin {"exited", "dead"}

WorkerDies ==
    /\ Working /\ given.steady
    /\ pc' = "dead"
    /\ UNCHANGED <<given, phase, refusal, work, used, plan, sent, disturbed>>

RequestCancel ==
    /\ ~Ended /\ phase # "cancel_requested" /\ Working /\ given.steady
    /\ phase' = "cancel_requested"
    /\ UNCHANGED <<given, pc, refusal, work, used, plan, sent, disturbed>>

\* A file is lost, or comes from another run's bundle, before the worker reads
\* back what it wrote or once it is gone; then all of them may.
Disturb ==
    /\ pc = "verify" \/ ~Working
    /\ ~disturbed /\ bundle # << >> /\ given.steady
    /\ disturbed' = TRUE
    /\ \/ \E f \in DOMAIN bundle :
             bundle' = [g \in DOMAIN bundle \ {f} |-> bundle[g]]
       \/ \E other \in OtherBundles : \E f \in DOMAIN bundle \cap DOMAIN other :
             bundle' = [bundle EXCEPT ![f] = other[f]]
       \/ ~Working /\ \E other \in OtherBundles : bundle' = other
    /\ UNCHANGED <<given, phase, pc, refusal, identity, lock, executed, receipts,
                   proof, result, used, plan, sent>>

\* The episode receipts beside the report say who executed them.
BackendsOf(written) == {r.backend : r \in UNION {Range(written[v]) : v \in Variants}}

\* Nothing is derived from a run that did not complete, was not scored for
\* real, or whose proof does not verify.
CompletedRealRun ==
    /\ phase = "completed" /\ result # Nothing
    /\ InputsVerify(Inputs)
    /\ result.grade # "development_only"
    /\ BackendsOf(receipts) = {"verifiers"}
    /\ VerifyLocalBundle(bundle)

DeriveFromRun ==
    /\ ~Working
    /\ CompletedRealRun
    /\ used' = used \cup {[by |-> "derivation", report |-> result]}
    /\ UNCHANGED <<given, phase, pc, refusal, work, plan, sent, disturbed>>

IsPublished == \E u \in used : u.by = "receipt"

\* A plan looks at the bundle alone.  A person who is shown another has ended
\* the command that showed the one before.
PlanPublication ==
    /\ ~Working /\ ~IsPublished
    /\ Present(bundle, ManifestFile) /\ VerifyLocalBundle(bundle)
    /\ LET carried == bundle[ReportFile].payload
       IN  /\ PublicationEligible(carried.grade, carried.publication)
           /\ plan' = PublicationPlan(Inputs.request.run, bundle, Inputs.skill)
           /\ used' = used \cup {[by |-> "publication", report |-> carried]}
    /\ sent' = Nothing
    /\ UNCHANGED <<given, phase, pc, refusal, work, disturbed>>

\* What is sent is read again, and not compared with the plan; the log takes it
\* or does not.
Submit ==
    /\ plan # Nothing /\ sent = Nothing
    /\ Present(bundle, ManifestFile)
    /\ LET submission == Submission(plan.run, bundle)
       IN  \E taken \in {FALSE, LogMayTake(submission)} :
             /\ sent' = [submission |-> submission, taken |-> taken]
             /\ used' = IF taken
                        THEN used \cup {[by |-> "log", report |-> bundle[ReportFile].payload,
                                         shown |-> plan.report]}
                        ELSE used
    /\ UNCHANGED <<given, phase, pc, refusal, work, plan, disturbed>>

\* The log answers of what it was sent, or another in its name does; only a
\* receipt of what was planned is filed, and the run recorded as published.
FileReceipt ==
    /\ sent # Nothing /\ ~IsPublished
    /\ \E signed \in BOOLEAN :
          VerifyPublicationReceipt(
              [signed |-> signed, accepts |-> sent.taken, run |-> sent.submission.run,
               digest |-> sent.submission.digest], plan)
    /\ used' = used \cup
          {[by |-> "receipt", report |-> sent.submission.files[ReportFile].payload]}
    /\ UNCHANGED <<given, phase, pc, refusal, work, plan, sent, disturbed>>

\* What `run result` shows of a completed run, asked to check its proof or not,
\* while the files of the evaluation are still kept or not.  It changes nothing.
Screen(asked, kept) ==
    LET record == ReadExecutionRecord(bundle)
        stored == [v \in Variants |-> IF kept /\ ~IsFake THEN executed[v].episodes ELSE <<>>]
    IN  BuildUpliftPresentation(result, Inputs.campaign, record,
            VerificationStatus(result, bundle, asked),
            ReadRecordedEvidence(record, stored), given.machine.prices)

IsShowable == phase = "completed" /\ InputsVerify(Inputs)

----------------------------------------------------------------------------
Init ==
    /\ given \in Starts
    /\ phase = "created" /\ pc = "preflight" /\ refusal = "nothing"
    /\ identity \in {"none", "half", "whole"}
    /\ identity # "whole" => given.steady
    /\ lock = Nothing /\ executed = [v \in Variants |-> Nothing]
    /\ receipts = [v \in Variants |-> <<>>]
    /\ proof = Nothing /\ bundle = << >> /\ result = Nothing
    /\ used = {} /\ plan = Nothing /\ sent = Nothing /\ disturbed = FALSE

Next ==
    \/ Preflight \/ ValidateTaskset \/ PlanPair \/ RunChildren \/ Normalize
    \/ ReadInputs \/ EnsureIdentity \/ PublishKey \/ BuildReceipts
    \/ VerifyComparison \/ BuildReport \/ WriteBundleFile \/ SealBundle
    \/ VerifyBundle \/ WriteResult \/ Complete
    \/ FakePreflight \/ ValidateFake \/ EnterNext \/ (\E v \in Variants : ScoreNext(v))
    \/ ReadReceipts \/ Recompute \/ ReportFake
    \/ WorkerDies \/ RequestCancel \/ Disturb \/ DeriveFromRun \/ PlanPublication
    \/ Submit \/ FileReceipt

Spec == Init /\ [][Next]_vars

----------------------------------------------------------------------------
(* Properties. *)

Raw(v) == given.outputs[v].episodes
RawTraces == UNION {{Raw(v)[i].traces[1] : i \in DOMAIN Raw(v)} : v \in Variants}
RawTask(v, i) == Raw(v)[i].traces[1].task
RawTrace(v, task) ==
    Raw(v)[CHOOSE i \in DOMAIN Raw(v) : RawTask(v, i) = task].traces[1]
RawReward(v, task) == RawTrace(v, task).reward

\* Each committed task was scored exactly once, to the end, by each variant.
EveryTaskScoredOnce ==
    \A v \in Variants :
        /\ \A i \in DOMAIN Raw(v) :
              /\ Raw(v)[i].ok /\ Len(Raw(v)[i].traces) = 1
              /\ Raw(v)[i].traces[1].ok /\ Raw(v)[i].traces[1].reward >= 0
        /\ \A task \in Range(Inputs.campaign.tasks) :
              Cardinality({i \in DOMAIN Raw(v) : RawTask(v, i) = task}) = 1
        /\ Len(Raw(v)) = Len(Inputs.campaign.tasks)

\* What a variant declares of each thing a trace records of its subject; the
\* image is the Campaign's, the build the pinned engine's.
Declared(v) ==
    LET shared == Inputs[v].configuration.shared
    IN  [model |-> shared["model"], sampling |-> shared["sampling"],
         harness |-> shared["harness"], version |-> shared["harness"],
         bundled |-> shared["harness"], kind |-> shared["runtime"],
         image |-> shared["runtime"], index |-> Inputs.campaign.runtime.index,
         build |-> "declared"]

\* Every rollout was offered the pinned harness's tools by name.  Their schemas
\* are the pinned ones, and their descriptions the same on both sides but for
\* the tool that lists the Skills, in the rollout of the first task only:
\* compare.py:280 says of the others that they were "already required to agree",
\* and observed.py:211 compares no more than names.
OneToolSurface ==
    /\ \A t \in RawTraces : ToolNames(t) = DOMAIN PinnedTools
    /\ LET offered == [v \in Variants |-> RawTrace(v, Inputs.campaign.tasks[1]).tools]
       IN  \A name \in DOMAIN PinnedTools :
             /\ \A v \in Variants : offered[v][name].schema = PinnedTools[name]
             /\ offered["baseline"][name].text = offered["candidate"][name].text
                  \/ name = SkillIndexTool

\* Every rollout of both variants ran the declared subject on the pinned image,
\* with the Skills its variant declares. These are all the two differ in, except
\* for what OneToolSurface leaves open: the schemas and descriptions of the tools
\* that rollouts after the first were offered.
OneControlledDifference ==
    /\ \A v \in Variants : \A i \in DOMAIN Raw(v) : \A f \in TraceFields \ {"rewards"} :
          Raw(v)[i].traces[1].config[f] = Declared(v)[f]
    /\ \A t, u \in RawTraces : t.config["rewards"] = u.config["rewards"]
    /\ OneToolSurface
    /\ \A v \in Variants :
          given.outputs[v].resolved.skills = Inputs[v].configuration.skills
    /\ Inputs.baseline.configuration.shared = Inputs.candidate.configuration.shared
    /\ Inputs.baseline.configuration.skills # Inputs.candidate.configuration.skills
    /\ given.images.baseline.platform = given.images.candidate.platform

\* The decision is the one the raw rewards call for.
DecisionFollows(decision) ==
    LET gain == SumFunction([task \in Range(Inputs.campaign.tasks) |->
                    RawReward("candidate", task) - RawReward("baseline", task)])
        scoring == Inputs.campaign.scoring
    IN  /\ decision = "accepted" =>
              /\ scoring.above => gain > 0
              /\ gain >= scoring.minimum * Cardinality(Range(Inputs.campaign.tasks))
              /\ scoring.above \/ scoring.minimum > 0
        /\ decision = "rejected" =>
              \/ scoring.above /\ gain <= 0
              \/ gain < scoring.minimum * Cardinality(Range(Inputs.campaign.tasks))

\* Where a machine can validate the tasks it scores, it found each of them, in
\* its place, to pass both checks.
TasksWereValid ==
    CanValidateLocally(given.taskset) =>
        \A n \in DOMAIN Inputs.campaign.tasks : \E row \in Range(given.taskset.rows) :
            /\ row.position = n - 1 /\ row.task = Inputs.campaign.tasks[n]
            /\ row.gold = "valid" /\ row.setup = "valid"

\* A P1 report is earned by the raw evidence of its own run, whatever the
\* stages between made of it: the tasks valid, every task scored, one
\* controlled difference as far as the tools are looked at, and a decision that
\* follows (uplift/service.py, receipts/*, tasksets/*).
AcceptedIsEarned ==
    report # Nothing /\ report.grade = "P1" =>
        /\ ~IsFake
        /\ TasksWereValid
        /\ EveryTaskScoredOnce
        /\ OneControlledDifference
        /\ DecisionFollows(report.decision)

\* A report becomes the run's result only beside a complete proof that verifies
\* and carries it, as the files are then and not as they were meant
\* (RealUpliftReportService._prove before write_result); one that was made up
\* says so, and stands beside a receipt for every task of either side, whatever
\* was cancelled or killed on the way (FakeRunExecutor.execute).
RecordedIsProven ==
    [][result' # result =>
          IF IsFake
          THEN /\ result'.grade = "development_only" /\ result'.publication = "blocked"
               /\ \A v \in Variants :
                     /\ {r.task : r \in Range(receipts[v])} = Range(Inputs.campaign.tasks)
                     /\ \A r \in Range(receipts[v]) : r.backend = "fake"
          ELSE VerifyLocalBundle(bundle) /\ bundle[ReportFile].payload = result']_vars

\* What verifies is one run's bundle, whole: no file lost, none of another run
\* (verify_local_bundle).
VerifiedIsWhole ==
    VerifyLocalBundle(bundle) =>
        \/ bundle \in OtherBundles
        \/ proof # Nothing /\ bundle = SealedBundle(proof)

\* What a person is offered to publish is P1 and its DataPolicy lets the report
\* be public, whosever bundle was found in the directory.  What is then filed as
\* published is the report they were shown last, whatever became of the files
\* while they read (plan, publish, verify_publication_receipt).  What the log
\* took need not be: the files are sent before the receipt is looked at, and may
\* by then be the proof of another run, which nobody was shown and whose
\* DataPolicy nobody read; it is that proof's report, and no mixture of the two.
PlannedMayBeShown ==
    \A u \in used :
        /\ u.by = "publication" => u.report.grade = "P1" /\ u.report.policy.report = "public"
        /\ u.by = "receipt" => u.report = plan.report
        /\ u.by = "log" => u.report = u.shown \/ \E other \in Others : u.report = other.report

ToldTokens(v) ==
    SumFunction([i \in {j \in DOMAIN Raw(v) : Raw(v)[j].traces[1].tokens # NoTokens} |->
                    Raw(v)[i].traces[1].tokens])

\* Whatever became of the files of a completed run, its owner is shown one
\* coherent payload (UpliftPresentationPayload's own checks), or none where it
\* would name a file of the proof (sanitize.py); a proof shown as
\* checked is the result's own unless all of it is another run's, tokens and all;
\* a verdict without such a proof says so, and only such a proof is offered for
\* publication (result_run_command, build_uplift_presentation).
ShownStandsOnProof ==
    IsShowable => \A asked, kept \in BOOLEAN :
        LET shown == Screen(asked, kept)
        IN  NoHiddenTaskMaterial(shown, bundle) =>
            /\ ValidPresentation(shown)
            /\ shown.verification = "verified_offline" =>
                  \/ bundle \in OtherBundles
                  \/ /\ bundle[ReportFile].payload = result
                     /\ \A v \in Variants : shown.tokens[v] # NoTokens =>
                            shown.tokens[v] = ToldTokens(v)
                     /\ kept => shown.evidence # Nothing
            /\ shown.decision = "accepted" /\ shown.verification # "verified_offline" =>
                  {"proof_not_verified", "proof_verification_failed"} \cap shown.caveats # {}
            /\ "publish_run" \in shown.offers =>
                  /\ VerifyLocalBundle(bundle)
                  /\ result.grade = "P1" /\ result.policy.report = "public"

----------------------------------------------------------------------------
(* What the code says of itself, and does not do. *)

\* "The normalizer writes whole records" (verifiers/outputs.py): an evaluation
\* whose records the normalizer wrote is not refused for being cut short.
WholeRecordsAreRead ==
    pc = "exited" /\ refusal = "normalize" =>
        \E v \in Variants :
            \/ ~RequireOutputFiles(given.outputs[v])
            \/ ~NormalizesOutput(given.outputs[v].episodes, Validated)
            \/ ~VerifyVariantExecution(ExecutionOf(v), Inputs[v], Validated)
=============================================================================
