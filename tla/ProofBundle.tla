----------------------------- MODULE ProofBundle -----------------------------
(***************************************************************************)
(* The local proof bundle of a run: the receipts, the report and the       *)
(* signed manifest that commits to every file (receipts/set.py, uplift.py, *)
(* bundle.py), and the offline verification of a directory that claims to  *)
(* hold one (receipts/verify.py).                                          *)
(*                                                                         *)
(* A directory is a function from file names to documents.  An envelope is *)
(* a document and the key it was signed with; a document is its own        *)
(* digest, so an envelope whose digest does not match does not exist here. *)
(***************************************************************************)
EXTENDS Execution

Sign(key, document) == [key |-> key, payload |-> document]

\* An identity's signature over an envelope verifies.
VerifySigned(identity, envelope) == envelope.key = identity.key

ExecutorIdentity(key) == [kind |-> "identity", key |-> key]

----------------------------------------------------------------------------
(* Receipt sets. *)

Belongs(receipt, run, variant, experiment) ==
    receipt.run = run /\ receipt.variant = variant /\ receipt.experiment = experiment

BuildsReceiptSet(run, variant, experiment, receipts, tasks) ==
    /\ Len(receipts) = Len(tasks)
    /\ \A i \in DOMAIN receipts : Belongs(receipts[i], run, variant, experiment)
    /\ PairsReceipts(receipts, tasks)

BuildReceiptSet(run, variant, experiment, receipts, tasks) ==
    [kind |-> "receipt-set", run |-> run, variant |-> variant, experiment |-> experiment,
     receipts |-> [n \in DOMAIN tasks |->
                    receipts[CHOOSE i \in DOMAIN receipts : receipts[i].task = tasks[n]]],
     membership |-> tasks]

\* The manifest is the one its receipts, in this order, build again.
VerifyReceiptSet(set, receipts, tasks) ==
    /\ BuildsReceiptSet(set.run, set.variant, set.experiment, receipts, tasks)
    /\ BuildReceiptSet(set.run, set.variant, set.experiment, receipts, tasks) = set

----------------------------------------------------------------------------
(* The report. *)

\* The objects a run cites are still the ones it cites them as.
ReferencedObjectsMatch(inputs, lock) ==
    /\ inputs.campaign = inputs.request.campaign
    /\ inputs.policy = inputs.campaign.shared["policy"]
    /\ inputs.validation = inputs.campaign.shared["taskset"].validation
    /\ lock = inputs.validation.lock
    /\ \A v \in Variants : inputs[v] = inputs.request[v]

\* What a local attestation asks: objects, signatures, key, comparison, score.
AssessLocalAttestation(inputs, lock, identity, envelopes, status, score) ==
    /\ ReferencedObjectsMatch(inputs, lock)
    /\ envelopes # {} /\ \A e \in envelopes : VerifySigned(identity, e)
    /\ Controlled(status)
    /\ score = "valid"

\* Only a controlled comparison of valid scores is reported, and only of the
\* objects its request names.
Reportable(inputs, comparison, receipts, sets) ==
    /\ \A v \in Variants : PairsRewards(receipts[v], comparison.tasks)
    /\ Controlled(comparison.status)
    /\ SummarizeScores(receipts) = "valid"
    /\ inputs.request.campaign = inputs.campaign
    /\ inputs.request.policy = inputs.campaign.shared["policy"]
    /\ inputs.request.policy = inputs.policy
    /\ \A v \in Variants :
          /\ inputs.request[v] = inputs[v]
          /\ sets[v].run = inputs.request.run /\ sets[v].variant = v
          /\ sets[v].experiment = inputs.request[v]
          /\ sets[v].membership = comparison.tasks

BuildUpliftReport(inputs, comparison, receipts, attested) ==
    LET request     == inputs.request
        campaign    == inputs.campaign
        deltas      == TaskDeltas(receipts, comparison.tasks)
        primary     == PrimaryResult(deltas)
        score       == SummarizeScores(receipts)
        grade       == ProofGrade(attested, comparison.status, score)
        publication == PublicationStatusFor(inputs.policy)
    IN  [kind |-> "report", run |-> request.run, campaign |-> request.campaign,
         policy |-> request.policy, context |-> request.context,
         backend |-> campaign.shared["backend"],
         validation |-> campaign.shared["taskset"].validation,
         experiments |-> [v \in Variants |-> request[v]],
         comparison |-> comparison.status, score |-> score, publication |-> publication,
         manifests |-> comparison.manifest, primary |-> primary, deltas |-> deltas,
         decision |-> IF grade = "P1"
                      THEN DecideUplift(campaign.scoring, comparison.status, primary,
                                        comparison.tasks)
                      ELSE "development_only",
         grade |-> grade, eligible |-> PublicationEligible(grade, publication)]

----------------------------------------------------------------------------
(* The directory. *)

ManifestFile == <<"bundle.json">>
IdentityFile == <<"public-identity.json">>
CampaignFile == <<"campaign.json">>
PolicyFile   == <<"data-policy.json">>
LockFile     == <<"taskset-lock.json">>
ValidationFile == <<"validation-receipt.json">>
ReportFile   == <<"report.json">>
RecordFile   == <<"execution-record.json">>
ExperimentFile(v) == <<"experiment.json", v>>
ReceiptSetFile(v) == <<"receipt-set.json", v>>
ReceiptFile(v, n) == <<"receipts", v, n>>

\* Contents are [key, inputs, lock, receipts, sets, report, record].
BundleFiles(c) ==
    LET experiments == {ExperimentFile(v) : v \in Variants}
        sets        == {ReceiptSetFile(v) : v \in Variants}
        receipts    == UNION {{ReceiptFile(v, n) : n \in DOMAIN c.receipts[v]} : v \in Variants}
    IN  [f \in {IdentityFile, CampaignFile, PolicyFile, LockFile, ValidationFile,
                ReportFile, RecordFile} \cup experiments \cup sets \cup receipts |->
           CASE f = IdentityFile     -> ExecutorIdentity(c.key)
             [] f = CampaignFile     -> c.inputs.campaign
             [] f = PolicyFile       -> c.inputs.policy
             [] f = LockFile         -> c.lock
             [] f = ValidationFile   -> c.inputs.validation
             [] f = ReportFile       -> Sign(c.key, c.report)
             [] f = RecordFile       -> Sign(c.key, c.record)
             [] f \in experiments    -> c.inputs[f[2]]
             [] f \in sets           -> c.sets[f[2]]
             [] f \in receipts       -> Sign(c.key, c.receipts[f[2]][f[3]])]

\* The manifest commits to the whole of every other file.
BuildLocalBundle(c) ==
    [kind |-> "bundle", run |-> c.report.run, campaign |-> c.inputs.campaign,
     policy |-> c.inputs.policy, identity |-> ExecutorIdentity(c.key),
     artifacts |-> BundleFiles(c), root |-> c.report]

\* A directory, and one more file in it.
WithFile(b, f, document) ==
    [g \in DOMAIN b \cup {f} |-> IF g = f THEN document ELSE b[g]]

SealedBundle(c) ==
    WithFile(BundleFiles(c), ManifestFile, Sign(c.key, BuildLocalBundle(c)))

----------------------------------------------------------------------------
(* Verification of a directory. *)

Present(b, f) == f \in DOMAIN b

CheckArtifacts(b, manifest) ==
    \A f \in DOMAIN manifest.artifacts : Present(b, f) /\ b[f] = manifest.artifacts[f]

DocumentFiles ==
    {CampaignFile, PolicyFile, LockFile, ValidationFile, ReportFile}
    \cup {ExperimentFile(v) : v \in Variants} \cup {ReceiptSetFile(v) : v \in Variants}

LoadsDocuments(b) == \A f \in DocumentFiles : Present(b, f)

CheckLinkage(b, manifest) ==
    LET report == b[ReportFile].payload
    IN  /\ manifest.campaign = b[CampaignFile] /\ report.campaign = b[CampaignFile]
        /\ b[CampaignFile].shared["policy"] = b[PolicyFile]
        /\ report.policy = b[PolicyFile] /\ manifest.policy = b[PolicyFile]
        /\ b[ValidationFile].lock = b[LockFile]
        /\ b[CampaignFile].shared["taskset"].validation = b[ValidationFile]
        /\ report.validation = b[ValidationFile]
        /\ \A v \in Variants : report.experiments[v] = b[ExperimentFile(v)]
        /\ b[CampaignFile].tasks = b[LockFile].tasks
        /\ manifest.run = report.run

\* As many receipts are read as the set counts; each is signed, and together
\* they build the set again.
LoadsReceipts(b) ==
    \A v \in Variants : \A n \in DOMAIN b[ReceiptSetFile(v)].receipts :
        Present(b, ReceiptFile(v, n))

LoadedReceipts(b, v) ==
    [n \in DOMAIN b[ReceiptSetFile(v)].receipts |-> b[ReceiptFile(v, n)].payload]

CheckReceipts(b, identity) ==
    \A v \in Variants :
        LET set == b[ReceiptSetFile(v)]
        IN  /\ \A n \in DOMAIN set.receipts : VerifySigned(identity, b[ReceiptFile(v, n)])
            /\ VerifyReceiptSet(set, LoadedReceipts(b, v), b[LockFile].tasks)
            /\ set.experiment = b[ExperimentFile(v)]

CheckAggregate(b) ==
    LET report   == b[ReportFile].payload
        tasks    == b[LockFile].tasks
        receipts == [v \in Variants |-> LoadedReceipts(b, v)]
    IN  /\ \A v \in Variants : PairsRewards(receipts[v], tasks)
        /\ TaskDeltas(receipts, tasks) = report.deltas
        /\ PrimaryResult(TaskDeltas(receipts, tasks)) = report.primary

\* Nothing in a proof was published, and it claims no right it does not have.
CheckPublication(report) ==
    /\ report.publication \in {"not_requested", "blocked"}
    /\ report.eligible => PublicationEligible(report.grade, report.publication)

\* A record the manifest does not commit to is refused; none at all is a warning.
CheckExecutionRecord(b, manifest) ==
    IF RecordFile \notin DOMAIN manifest.artifacts
    THEN ~Present(b, RecordFile)
    ELSE /\ Present(b, RecordFile)
         /\ VerifySigned(manifest.identity, b[RecordFile])
         /\ b[RecordFile].payload.run = manifest.run
         /\ b[RecordFile].payload.campaign = manifest.campaign
         /\ \A v \in Variants :
               b[RecordFile].payload.experiments[v] = b[ExperimentFile(v)]

\* What only a report that claims P1 must show beside the rest.
CheckP1(report) ==
    report.grade = "P1" => Controlled(report.comparison) /\ report.score = "valid"

VerifyDocuments(b, manifest) ==
    /\ CheckLinkage(b, manifest)
    /\ LoadsReceipts(b)
    /\ CheckReceipts(b, manifest.identity)
    /\ VerifySigned(manifest.identity, b[ReportFile])
    /\ manifest.root = b[ReportFile].payload
    /\ CheckAggregate(b)
    /\ CheckPublication(b[ReportFile].payload)
    /\ CheckExecutionRecord(b, manifest)
    /\ CheckP1(b[ReportFile].payload)

\* Mutant of VerifyLocalBundle: what cannot be loaded is not looked at again.
VerifyWhatLoads(b) ==
    /\ Present(b, ManifestFile)
    /\ LET manifest == b[ManifestFile].payload
       IN  /\ VerifySigned(manifest.identity, b[ManifestFile])
           /\ LoadsDocuments(b) /\ LoadsReceipts(b) /\ Present(b, RecordFile)
                => CheckArtifacts(b, manifest) /\ VerifyDocuments(b, manifest)

VerifyLocalBundle(b) ==
    /\ Present(b, ManifestFile)
    /\ LET manifest == b[ManifestFile].payload
       IN  /\ VerifySigned(manifest.identity, b[ManifestFile])
           /\ CheckArtifacts(b, manifest)
           /\ Present(b, IdentityFile) /\ b[IdentityFile] = manifest.identity
           /\ LoadsDocuments(b)
           /\ VerifyDocuments(b, manifest)

----------------------------------------------------------------------------
(* What is sent of it to the run log, and what comes back (publication). *)

\* The whole directory as it is read, named by its manifest.
Submission(run, b) ==
    [run |-> run, digest |-> b[ManifestFile].payload, files |-> b]

\* What the log takes at the least is a directory whose manifest commits to
\* its files as they were sent.
LogMayTake(submission) == CheckArtifacts(submission.files, submission.digest)

\* A public name is shown only of the Skill the candidate was given, as the
\* run's inputs still hold it.
SkillName(b, skill) ==
    LET declared == b[ExperimentFile("candidate")].configuration.skills
    IN  IF declared = <<skill.root>> /\ skill.listed = skill.root /\ skill.intact
        THEN skill.root ELSE "unnamed"

PublicationPlan(run, b, skill) ==
    [run |-> run, digest |-> b[ManifestFile].payload, files |-> Cardinality(DOMAIN b),
     report |-> b[ReportFile].payload, name |-> SkillName(b, skill)]

\* Mutant of VerifyPublicationReceipt: the receipt is for the run, of whatever
\* was sent.
VerifyRunOfReceipt(receipt, plan) ==
    receipt.signed /\ receipt.run = plan.run /\ receipt.accepts

\* A receipt is the log's own word on what was planned.
VerifyPublicationReceipt(receipt, plan) ==
    /\ receipt.signed
    /\ receipt.run = plan.run /\ receipt.digest = plan.digest
    /\ receipt.accepts
=============================================================================
