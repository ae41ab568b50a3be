-------------------------- MODULE ReportStageProofs --------------------------
(***************************************************************************)
(* Proofs about what becomes of a run's report, for any runs a worker may  *)
(* be given, any evidence, and any proofs of other runs.                   *)
(*                                                                         *)
(* A proof is written from what the worker computed and sealed with a      *)
(* manifest that commits to every file of it, the report among them.       *)
(* Whatever is changed of it afterwards contradicts the manifest or        *)
(* replaces it by one that commits to another run's report, which is not   *)
(* the one beside it; so a directory that verifies is the proof as it was  *)
(* sealed, or wholly another run's.                                        *)
(*                                                                         *)
(* A report is made of what the worker has staged: a lock it validated     *)
(* itself, the evaluations' results in the order of the tasks, and the     *)
(* receipts built from them. What is staged is not touched once a report   *)
(* was made, so what held of it then holds for good: every task has one    *)
(* record among the raw evidence, each through every gate, only the Skills *)
(* differ between the sides as far as the gates look, and the sums that    *)
(* the decision and the tokens come from do not depend on the order their  *)
(* terms are taken in. What a screen shows of a run's own proof is then so *)
(* of that raw evidence.                                                   *)
(*                                                                         *)
(* What is offered for publication is a proof that verifies. The manifest  *)
(* in the directory is then still the one it was offered with, or wholly   *)
(* another run's, so what the log takes of files that agree with their     *)
(* manifest is the one report or the other; and a receipt is filed only of *)
(* the manifest the plan names.                                            *)
(***************************************************************************)
EXTENDS ReportStage, FiniteSetTheorems, NaturalsInduction, TLAPS

\* The steps at which no report has been made yet, of the two executors.
RealSteps == {"preflight", "validate", "plan", "run", "normalize", "inputs", "key",
              "publish_key", "receipts", "compare", "report"}
FakeSteps == {"preflight", "validate_fake", "enter_baseline", "score_baseline",
              "enter_candidate", "score_candidate", "enter_receipts", "read_receipts",
              "enter_comparison", "recompute", "enter_report", "report_fake"}
Early == IF IsFake THEN FakeSteps ELSE RealSteps
Late  == IF IsFake THEN {"record", "complete", "exited", "dead"}
         ELSE {"write", "seal", "verify", "record", "complete", "exited", "dead"}

GivenOK ==
    /\ given \in Starts
    /\ pc \in Early \cup Late
    /\ identity \in {"none", "half", "whole"}

\* The development executor's receipts say that they are, and carry numbers.
MadeUp ==
    IsFake =>
        /\ DOMAIN receipts = Variants
        /\ \A v \in Variants : \E made :
              receipts[v] \in Seq(made) /\ \A r \in made : r.backend = "fake" /\ r.reward \in Int

Whole == proof # Nothing /\ bundle = SealedBundle(proof)

ProofOK ==
    /\ pc \in Early => proof = Nothing
    /\ pc \in {"write", "seal", "verify"} => proof # Nothing
    /\ proof # Nothing /\ ~IsFake =>
          /\ proof.key = Key
          /\ proof.report.run = Inputs.request.run
          /\ proof.report.publication = PublicationStatusFor(proof.report.policy)
    /\ pc = "record" /\ ~IsFake => VerifyLocalBundle(bundle) /\ Whole
    /\ pc = "record" /\ IsFake =>
          /\ report = DevelopmentReport(Inputs, receipts)
          /\ AggregatesFakeResults(receipts, Inputs.campaign.tasks)

\* What is written of the bundle while it is being written.
Partial ==
    /\ DOMAIN bundle \subseteq DOMAIN BundleFiles(proof)
    /\ \A f \in DOMAIN bundle : bundle[f] = BundleFiles(proof)[f]

BundleOK ==
    /\ IsFake \/ proof = Nothing => bundle = << >>
    /\ pc \in Early \cup {"write", "seal"} => ~disturbed
    /\ pc \in {"write", "seal"} => Partial /\ ManifestFile \notin DOMAIN bundle
    /\ pc = "seal" => DOMAIN BundleFiles(proof) \subseteq DOMAIN bundle
    /\ ~disturbed => ManifestFile \notin DOMAIN bundle \/ Whole
    /\ VerifyLocalBundle(bundle) =>
          Whole \/ (~Working /\ bundle \in OtherBundles)

\* The manifest, while there is one, is this run's or another's; once a plan was
\* shown it is the one it was made from, or another run's.
OfferOK ==
    /\ ManifestFile \in DOMAIN bundle =>
          \E c \in {proof} \cup Others : bundle[ManifestFile] = SealedBundle(c)[ManifestFile]
    /\ plan # Nothing =>
          /\ ~Working
          /\ ManifestFile \in DOMAIN bundle =>
                \/ bundle[ManifestFile].payload.root = plan.report
                \/ \E other \in Others : bundle[ManifestFile].payload.root = other.report

UsedOK ==
    /\ plan # Nothing => plan.digest.root = plan.report
    /\ plan = Nothing => ~IsPublished /\ sent = Nothing
    /\ sent # Nothing /\ sent.taken =>
          sent.submission.files[ReportFile].payload = sent.submission.digest.root
    /\ PlannedMayBeShown

Inv == GivenOK /\ MadeUp /\ ProofOK /\ BundleOK /\ OfferOK /\ UsedOK

----------------------------------------------------------------------------
(* The directory of a proof. *)

LEMMA FilesAre ==
    ASSUME NEW c
    PROVE  /\ ReportFile \in DOMAIN BundleFiles(c)
           /\ ManifestFile \notin DOMAIN BundleFiles(c)
           /\ BundleFiles(c)[ReportFile] = Sign(c.key, c.report)
  <1> DEFINE named == {IdentityFile, CampaignFile, PolicyFile, LockFile, ValidationFile,
                       ReportFile, RecordFile}
             experiments == {ExperimentFile(v) : v \in Variants}
             sets        == {ReceiptSetFile(v) : v \in Variants}
             listed == UNION {{ReceiptFile(v, n) : n \in DOMAIN c.receipts[v]} : v \in Variants}
  <1>1. DOMAIN BundleFiles(c) = named \cup experiments \cup sets \cup listed
    BY DEF BundleFiles
  <1>2. ManifestFile \notin named
    BY DEF ManifestFile, IdentityFile, CampaignFile, PolicyFile, LockFile,
           ValidationFile, ReportFile, RecordFile
  <1>3. ManifestFile \notin experiments /\ ManifestFile \notin sets
    BY DEF ManifestFile, ExperimentFile, ReceiptSetFile
  <1>4. ManifestFile \notin listed
    BY DEF ManifestFile, ReceiptFile
  <1>5. /\ ReportFile # IdentityFile /\ ReportFile # CampaignFile /\ ReportFile # PolicyFile
        /\ ReportFile # LockFile /\ ReportFile # ValidationFile /\ ReportFile # RecordFile
        /\ ReportFile \notin experiments /\ ReportFile \notin sets /\ ReportFile \notin listed
    BY DEF IdentityFile, CampaignFile, PolicyFile, LockFile, ValidationFile, ReportFile,
           RecordFile, ExperimentFile, ReceiptSetFile, ReceiptFile
  <1>6. BundleFiles(c)[ReportFile] = Sign(c.key, c.report)
    <2>1. ReportFile \in named
      OBVIOUS
    <2> HIDE DEF experiments, sets, listed
    <2>2. BundleFiles(c)[ReportFile] =
            CASE ReportFile = IdentityFile     -> ExecutorIdentity(c.key)
              [] ReportFile = CampaignFile     -> c.inputs.campaign
              [] ReportFile = PolicyFile       -> c.inputs.policy
              [] ReportFile = LockFile         -> c.lock
              [] ReportFile = ValidationFile   -> c.inputs.validation
              [] ReportFile = ReportFile       -> Sign(c.key, c.report)
              [] ReportFile = RecordFile       -> Sign(c.key, c.record)
              [] ReportFile \in experiments    -> c.inputs[ReportFile[2]]
              [] ReportFile \in sets           -> c.sets[ReportFile[2]]
              [] ReportFile \in listed -> Sign(c.key, c.receipts[ReportFile[2]][ReportFile[3]])
      BY <2>1 DEF BundleFiles, experiments, sets, listed
    <2> QED BY <1>5, <2>2
  <1> QED BY <1>1, <1>2, <1>3, <1>4, <1>6

LEMMA SealedIs ==
    ASSUME NEW c
    PROVE  /\ DOMAIN SealedBundle(c) = DOMAIN BundleFiles(c) \cup {ManifestFile}
           /\ SealedBundle(c)[ManifestFile].payload.artifacts = BundleFiles(c)
           /\ SealedBundle(c)[ManifestFile].payload.root = c.report
           /\ \A f \in DOMAIN BundleFiles(c) : SealedBundle(c)[f] = BundleFiles(c)[f]
           /\ ReportFile \in DOMAIN SealedBundle(c)
           /\ SealedBundle(c)[ReportFile] = Sign(c.key, c.report)
           /\ SealedBundle(c)[ReportFile].payload = c.report
  <1> DEFINE files == BundleFiles(c)
             manifest == Sign(c.key, BuildLocalBundle(c))
  <1>1. manifest.payload.artifacts = files /\ manifest.payload.root = c.report
    BY DEF Sign, BuildLocalBundle
  <1>2. ReportFile \in DOMAIN files /\ ManifestFile \notin DOMAIN files
        /\ files[ReportFile] = Sign(c.key, c.report)
    BY FilesAre
  <1>3. SealedBundle(c) =
          [g \in DOMAIN files \cup {ManifestFile} |-> IF g = ManifestFile THEN manifest ELSE files[g]]
    BY DEF SealedBundle, WithFile
  <1> HIDE DEF files, manifest
  <1>4. /\ DOMAIN SealedBundle(c) = DOMAIN files \cup {ManifestFile}
        /\ SealedBundle(c)[ManifestFile] = manifest
        /\ \A f \in DOMAIN files : SealedBundle(c)[f] = files[f]
    BY <1>2, <1>3
  <1>5. SealedBundle(c)[ReportFile] = Sign(c.key, c.report)
    BY <1>2, <1>4
  <1>6. SealedBundle(c)[ReportFile].payload = c.report
    BY <1>5 DEF Sign
  <1> QED BY <1>1, <1>2, <1>4, <1>5, <1>6 DEF files

LEMMA VerifiedShows ==
    ASSUME NEW b, VerifyLocalBundle(b)
    PROVE  /\ ManifestFile \in DOMAIN b
           /\ \A f \in DOMAIN b[ManifestFile].payload.artifacts :
                 f \in DOMAIN b /\ b[f] = b[ManifestFile].payload.artifacts[f]
           /\ b[ManifestFile].payload.root = b[ReportFile].payload
  BY DEF VerifyLocalBundle, Present, CheckArtifacts, VerifyDocuments

\* A sealed proof of which one file is lost or another run's verifies only if
\* it is as it was.
LEMMA OneFileLost ==
    ASSUME NEW c, NEW f \in DOMAIN SealedBundle(c)
    PROVE  ~VerifyLocalBundle([g \in DOMAIN SealedBundle(c) \ {f} |-> SealedBundle(c)[g]])
  <1> SUFFICES ASSUME VerifyLocalBundle([g \in DOMAIN SealedBundle(c) \ {f} |-> SealedBundle(c)[g]])
               PROVE  FALSE
    OBVIOUS
  <1> DEFINE b == [g \in DOMAIN SealedBundle(c) \ {f} |-> SealedBundle(c)[g]]
  <1>1. DOMAIN b = DOMAIN SealedBundle(c) \ {f}
        /\ \A g \in DOMAIN b : b[g] = SealedBundle(c)[g]
    OBVIOUS
  <1>2. VerifyLocalBundle(b)
    OBVIOUS
  <1> HIDE DEF b
  <1>3. ManifestFile \in DOMAIN b /\ f # ManifestFile
    BY <1>1, <1>2, VerifiedShows
  <1>4. b[ManifestFile].payload.artifacts = BundleFiles(c)
    BY <1>1, <1>3, SealedIs
  <1>5. f \in DOMAIN BundleFiles(c)
    BY <1>3, SealedIs
  <1>6. f \in DOMAIN b
    BY <1>2, <1>4, <1>5, VerifiedShows
  <1> QED BY <1>1, <1>6

LEMMA OneFileReplaced ==
    ASSUME NEW c, NEW d, NEW f \in DOMAIN SealedBundle(c) \cap DOMAIN SealedBundle(d),
           c.report.run # d.report.run,
           VerifyLocalBundle([SealedBundle(c) EXCEPT ![f] = SealedBundle(d)[f]])
    PROVE  [SealedBundle(c) EXCEPT ![f] = SealedBundle(d)[f]] = SealedBundle(c)
  <1> DEFINE b == [SealedBundle(c) EXCEPT ![f] = SealedBundle(d)[f]]
  <1>1. /\ DOMAIN b = DOMAIN SealedBundle(c) /\ b[f] = SealedBundle(d)[f]
        /\ \A g \in DOMAIN b : g # f => b[g] = SealedBundle(c)[g]
    OBVIOUS
  <1>2. VerifyLocalBundle(b)
    OBVIOUS
  <1>3. SealedBundle(d)[f] = SealedBundle(c)[f] => b = SealedBundle(c)
    BY DEF SealedBundle, WithFile
  <1> HIDE DEF b
  <1>4. ManifestFile # ReportFile
    BY DEF ManifestFile, ReportFile
  <1>5. f # ManifestFile
    <2> SUFFICES ASSUME f = ManifestFile PROVE FALSE
      OBVIOUS
    <2>1. b[ManifestFile].payload.artifacts = BundleFiles(d)
      BY <1>1, SealedIs
    <2>2. ReportFile \in DOMAIN BundleFiles(d)
      BY FilesAre
    <2>3. b[ReportFile] = BundleFiles(d)[ReportFile]
      BY <1>2, <2>1, <2>2, VerifiedShows
    <2>4. b[ReportFile] = Sign(c.key, c.report)
      BY <1>1, <1>4, SealedIs
    <2>5. Sign(d.key, d.report) = Sign(c.key, c.report)
      BY <2>3, <2>4, FilesAre
    <2>6. d.report = c.report
      BY <2>5 DEF Sign
    <2> QED BY <2>6
  <1>6. ManifestFile \in DOMAIN b
    BY <1>2, VerifiedShows
  <1>7. b[ManifestFile].payload.artifacts = BundleFiles(c)
    BY <1>1, <1>5, <1>6, SealedIs
  <1>8. f \in DOMAIN BundleFiles(c)
    BY <1>5, SealedIs
  <1>9. b[f] = SealedBundle(c)[f]
    <2>1. b[f] = BundleFiles(c)[f]
      BY <1>2, <1>7, <1>8, VerifiedShows
    <2>2. SealedBundle(c)[f] = BundleFiles(c)[f]
      BY <1>8, SealedIs
    <2> QED BY <2>1, <2>2
  <1>10. b = SealedBundle(c)
    BY <1>1, <1>3, <1>9
  <1> QED BY <1>10 DEF b

----------------------------------------------------------------------------
(* Steps that leave the proof and what was made of it alone. *)

LEMMA IsNothing == ASSUME NEW r, "kind" \notin DOMAIN r PROVE r # Nothing
  BY DEF Nothing

LEMMA Variation == "baseline" \in Variants /\ "candidate" \in Variants
  BY DEF Variants

LEMMA EarlyIs ==
    /\ FakeSteps \cap RealSteps = {"preflight"}
    /\ \A s \in Early : s \notin {"write", "seal", "verify", "record", "complete",
                                  "exited", "dead"}
    /\ {"exited", "dead", "record", "complete"} \subseteq Late
  BY DEF Early, Late, FakeSteps, RealSteps

Onward ==
    \/ pc' = pc
    \/ pc' \in {"exited", "dead"}
    \/ pc \in Early /\ pc' \in Early
    \/ pc = "record" /\ pc' = "complete"

LEMMA Quiet ==
    ASSUME Inv, UNCHANGED <<given, proof, bundle, used, plan, sent, disturbed>>, Onward, MadeUp',
           receipts' = receipts \/ pc' # "record",
           identity' = identity \/ identity' \in {"half", "whole"}
    PROVE  Inv'
  <1>1. /\ IsFake' = IsFake /\ Early' = Early /\ Late' = Late /\ Inputs' = Inputs
        /\ Whole' = Whole /\ Partial' = Partial /\ report' = report
    BY DEF IsFake, Inputs, Early, Late, Whole, Partial, report
  <1>2. GivenOK'
    BY <1>1, EarlyIs DEF Inv, GivenOK, Onward
  <1>3. Working' => Working
    BY DEF Inv, GivenOK, Onward, Early, Late, RealSteps, FakeSteps, Working
  <1>4. /\ pc' \in Early => pc \in Early
        /\ pc' \in {"write", "seal", "verify", "record"} => pc' = pc
    BY EarlyIs DEF Inv, GivenOK, Onward
  <1>5. ProofOK'
    <2>1. pc' = "record" =>
            /\ receipts' = receipts
            /\ pc = "record"
      BY <1>4
    <2> QED BY <1>1, <1>4, <2>1 DEF Inv, ProofOK
  <1>6. BundleOK'
    <2>1. bundle' = bundle /\ disturbed' = disturbed /\ proof' = proof
      OBVIOUS
    <2>2. ~Working => ~Working'
      BY DEF Inv, GivenOK, Onward, Working, Early, RealSteps, FakeSteps
    <2> QED BY <1>1, <1>4, <2>1, <2>2 DEF Inv, BundleOK
  <1>7. OfferOK'
    <2>1. ~Working => ~Working'
      BY DEF Inv, GivenOK, Onward, Working, Early, RealSteps, FakeSteps
    <2> QED BY <2>1 DEF Inv, OfferOK
  <1>8. UsedOK'
    BY DEF Inv, UsedOK, IsPublished, PlannedMayBeShown
  <1> QED BY <1>2, <1>5, <1>6, <1>7, <1>8 DEF Inv

LEMMA MadeUpAgree ==
    ASSUME MadeUp, UNCHANGED <<given, receipts>> PROVE MadeUp'
  BY DEF MadeUp, IsFake, Inputs

LEMMA Refusing ==
    ASSUME Inv, NEW step, Refuses(step) \/ Cancels(step), Keeps PROVE Inv'
  <1>1. /\ pc' = "exited"
        /\ UNCHANGED <<given, identity, proof, bundle, receipts, used, plan, sent, disturbed>>
    BY DEF Refuses, Cancels, Keeps, work
  <1>2. MadeUp'
    BY <1>1, MadeUpAgree DEF Inv
  <1> QED BY <1>1, <1>2, Quiet DEF Onward

\* A step of a worker that has made no report yet, on to the next or to its end.
LEMMA Moving ==
    ASSUME Inv, Keeps, pc \in Early, pc' \in Early \cup {"exited"},
           UNCHANGED <<proof, bundle, receipts>>,
           identity' = identity \/ identity' \in {"half", "whole"}
    PROVE  Inv'
  <1>1. Early' = Early
    BY DEF Early, IsFake, Inputs, Keeps
  <1>2. MadeUp'
    BY MadeUpAgree DEF Inv, Keeps
  <1> QED BY <1>1, <1>2, Quiet DEF Onward, Keeps

LEMMA RealMoves ==
    ASSUME Inv,
           \/ Preflight \/ ValidateTaskset \/ PlanPair \/ RunChildren \/ Normalize
           \/ ReadInputs \/ EnsureIdentity \/ PublishKey \/ VerifyComparison
    PROVE  Inv'
  <1>1. /\ pc \in RealSteps /\ Keeps /\ UNCHANGED <<proof, bundle, receipts>>
        /\ pc' \in RealSteps \cup {"exited"}
        /\ identity' = identity \/ identity' \in {"half", "whole"}
    <2>1. CASE Preflight
      BY <2>1 DEF Preflight, Refuses, Cancels, Enters, work, RealSteps
    <2>2. CASE ValidateTaskset
      BY <2>2 DEF ValidateTaskset, Refuses, Cancels, Enters, work, RealSteps
    <2>3. CASE PlanPair
      BY <2>3 DEF PlanPair, Refuses, Cancels, Enters, work, RealSteps
    <2>4. CASE RunChildren
      BY <2>4 DEF RunChildren, Refuses, Cancels, Enters, work, RealSteps
    <2>5. CASE Normalize
      BY <2>5 DEF Normalize, Refuses, Cancels, Enters, work, RealSteps
    <2>6. CASE ReadInputs
      BY <2>6 DEF ReadInputs, Refuses, Cancels, Enters, work, RealSteps
    <2>7. CASE EnsureIdentity
      <3>1. identity \in {"none", "half", "whole"}
        BY DEF Inv, GivenOK
      <3> QED BY <2>7, <3>1 DEF EnsureIdentity, Refuses, Enters, work, RealSteps
    <2>8. CASE PublishKey
      BY <2>8 DEF PublishKey, Refuses, Cancels, Enters, work, RealSteps
    <2>9. CASE VerifyComparison
      BY <2>9 DEF VerifyComparison, Refuses, Cancels, Enters, work, RealSteps
    <2> QED BY <2>1, <2>2, <2>3, <2>4, <2>5, <2>6, <2>7, <2>8, <2>9
  <1>2. ~IsFake
    <2>1. pc \in RealSteps
      BY <1>1
    <2>2. CASE pc = "preflight"
      BY <2>2 DEF Preflight, ValidateTaskset, PlanPair, RunChildren, Normalize, ReadInputs,
           EnsureIdentity, PublishKey, VerifyComparison
    <2>3. CASE pc # "preflight"
      BY <2>1, <2>3 DEF Inv, GivenOK, Early, Late, RealSteps, FakeSteps
    <2> QED BY <2>2, <2>3
  <1>3. Early = RealSteps
    BY <1>2 DEF Early
  <1>4. Keeps /\ UNCHANGED <<proof, bundle, receipts>> /\ pc \in Early
        /\ pc' \in Early \cup {"exited"}
    BY <1>1, <1>3
  <1>5. identity' = identity \/ identity' \in {"half", "whole"}
    BY <1>1
  <1> QED BY <1>4, <1>5, Moving

LEMMA FakeMoves ==
    ASSUME Inv, FakePreflight \/ ValidateFake \/ EnterNext \/ ReadReceipts \/ Recompute
    PROVE  Inv'
  <1>1. pc \in FakeSteps /\ Keeps /\ UNCHANGED <<identity, proof, bundle, receipts>>
        /\ pc' \in FakeSteps \cup {"exited"}
    <2>1. CASE EnterNext
      BY <2>1 DEF EnterNext, Enters, FakePath, FakeSteps, work
    <2>2. CASE FakePreflight
      BY <2>2 DEF FakePreflight, Enters, Refuses, FakeSteps, work
    <2>3. CASE ValidateFake \/ ReadReceipts \/ Recompute
      BY <2>3 DEF ValidateFake, ReadReceipts, Recompute, LooksAfter, Refuses, Cancels,
                  FakeSteps, work
    <2> QED BY <2>1, <2>2, <2>3
  <1>2. IsFake
    <2>1. CASE pc = "preflight"
      BY <2>1 DEF FakePreflight, ValidateFake, EnterNext, ReadReceipts, Recompute, FakePath
    <2>2. CASE pc # "preflight"
      BY <1>1, <2>2 DEF Inv, GivenOK, Early, Late, RealSteps, FakeSteps
    <2> QED BY <2>1, <2>2
  <1>3. Early = FakeSteps
    BY <1>2 DEF Early
  <1> QED BY <1>1, <1>3, Moving

LEMMA Stopping ==
    ASSUME Inv, WorkerDies \/ RequestCancel PROVE Inv'
  <1>1. /\ UNCHANGED <<given, identity, proof, bundle, receipts, used, plan, sent, disturbed>>
        /\ pc' = "dead" \/ pc' = pc
    BY DEF WorkerDies, RequestCancel, work
  <1>2. MadeUp'
    BY <1>1, MadeUpAgree DEF Inv
  <1> QED BY <1>1, <1>2, Quiet DEF Onward

LEMMA Finishing ==
    ASSUME Inv, WriteResult \/ Complete PROVE Inv'
  <1>1. CASE WriteResult
    <2>1. /\ Keeps /\ UNCHANGED <<identity, proof, bundle, receipts>>
          /\ pc = "record" /\ pc' \in {"complete", "exited"}
      BY <1>1 DEF WriteResult, Refuses, work
    <2>2. MadeUp'
      BY <2>1, MadeUpAgree DEF Inv, Keeps
    <2> QED BY <2>1, <2>2, Quiet DEF Onward, Keeps
  <1>2. CASE Complete
    <2>1. Keeps /\ UNCHANGED <<identity, proof, bundle, receipts>> /\ pc' = "exited"
      BY <1>2 DEF Complete, Enters, work
    <2>2. MadeUp'
      BY <2>1, MadeUpAgree DEF Inv, Keeps
    <2> QED BY <2>1, <2>2, Quiet DEF Onward, Keeps
  <1> QED BY <1>1, <1>2

\* The receipts of a run that is scored for real are those of its executor.
LEMMA BuildingReceipts ==
    ASSUME Inv, BuildReceipts PROVE Inv'
  <1>1. /\ Keeps /\ UNCHANGED <<identity, proof, bundle>> /\ pc = "receipts"
        /\ pc' \in {"compare", "exited"}
    BY DEF BuildReceipts, Refuses, work
  <1>2. ~IsFake /\ pc \in Early /\ Early = RealSteps
    BY <1>1 DEF Inv, GivenOK, Early, Late, RealSteps, FakeSteps
  <1>3. Early' = Early /\ IsFake' = IsFake
    BY <1>1 DEF Early, IsFake, Inputs, Keeps
  <1>4. MadeUp'
    BY <1>2, <1>3 DEF MadeUp
  <1>5. Onward /\ pc' # "record"
    BY <1>1, <1>2, <1>3 DEF Onward, RealSteps
  <1> QED BY <1>1, <1>4, <1>5, Quiet DEF Keeps

\* What the next trace's receipt is.
NextReceipt(v) ==
    LET n == Len(receipts[v]) + 1
    IN  FakeReceipt(Inputs.request, v, Inputs.campaign.tasks[n],
                    DefaultFakeRewards(Len(Inputs.campaign.tasks))[v][n])

LEMMA ScoringIs ==
    ASSUME Inv, NEW v \in Variants, ScoreNext(v)
    PROVE  /\ Keeps /\ IsFake /\ pc \in Early /\ Early = FakeSteps
           /\ \/ Cancels(pc)
              \/ /\ pc' \in {"enter_candidate", "enter_receipts"}
                 /\ UNCHANGED <<phase, refusal, work>>
              \/ /\ Len(receipts[v]) + 1 \in 1 .. Len(Inputs.campaign.tasks)
                 /\ receipts' = [receipts EXCEPT ![v] = Append(receipts[v], NextReceipt(v))]
                 /\ UNCHANGED <<phase, pc, refusal, identity, lock, executed, proof,
                                bundle, result>>
  <1>1. Keeps /\ pc \in {"score_baseline", "score_candidate"}
    BY DEF ScoreNext
  <1>2. IsFake /\ pc \in Early /\ Early = FakeSteps
    BY <1>1 DEF Inv, GivenOK, Early, Late, RealSteps, FakeSteps
  <1> DEFINE n == Len(receipts[v]) + 1
  <1>3. Inputs.campaign.tasks \in Seq(Range(Inputs.campaign.tasks))
    BY CampaignAssumption DEF Inv, GivenOK, Inputs
  <1>4. \E made : receipts[v] \in Seq(made)
    BY <1>2 DEF Inv, MadeUp
  <1>5. Len(Inputs.campaign.tasks) \in Nat /\ n \in Nat
    BY <1>3, <1>4
  <1> HIDE DEF n
  <1>6. n > Len(Inputs.campaign.tasks) \/ n <= Len(Inputs.campaign.tasks)
    BY <1>5
  <1>7. CASE phase = "cancel_requested"
    BY <1>1, <1>2, <1>7 DEF ScoreNext
  <1>8. CASE phase # "cancel_requested" /\ n > Len(Inputs.campaign.tasks)
    <2>1. ~(n <= Len(Inputs.campaign.tasks))
      BY <1>5, <1>8
    <2>2. /\ pc' = (IF v = "baseline" THEN "enter_candidate" ELSE "enter_receipts")
          /\ UNCHANGED <<phase, refusal, work>>
      BY <1>8, <2>1 DEF ScoreNext, n
    <2> QED BY <1>1, <1>2, <2>2
  <1>9. CASE phase # "cancel_requested" /\ n <= Len(Inputs.campaign.tasks)
    <2>1. n \in 1 .. Len(Inputs.campaign.tasks)
      BY <1>4, <1>5, <1>9 DEF n
    <2>2. /\ receipts' = [receipts EXCEPT ![v] = Append(receipts[v], NextReceipt(v))]
          /\ UNCHANGED <<phase, pc, refusal, identity, lock, executed, proof, bundle, result>>
      BY <1>1, <1>2, <1>5, <1>9 DEF ScoreNext, NextReceipt, n
    <2> QED BY <1>1, <1>2, <2>1, <2>2 DEF n
  <1> QED BY <1>6, <1>7, <1>8, <1>9

LEMMA Scoring ==
    ASSUME Inv, NEW v \in Variants, ScoreNext(v) PROVE Inv'
  <1> DEFINE new == NextReceipt(v)
  <1>1. Keeps /\ IsFake /\ pc \in Early /\ Early = FakeSteps
    BY ScoringIs
  <1>2. Early' = Early /\ IsFake' = IsFake
    BY <1>1 DEF Early, IsFake, Inputs, Keeps
  <1>3. \/ Cancels(pc)
        \/ /\ pc' \in {"enter_candidate", "enter_receipts"}
           /\ UNCHANGED <<phase, refusal, work>>
        \/ /\ Len(receipts[v]) + 1 \in 1 .. Len(Inputs.campaign.tasks)
           /\ receipts' = [receipts EXCEPT ![v] = Append(receipts[v], new)]
           /\ UNCHANGED <<phase, pc, refusal, identity, lock, executed, proof, bundle, result>>
    BY ScoringIs
  <1>4. CASE Cancels(pc)
    BY <1>1, <1>4, Refusing
  <1>5. CASE pc' \in {"enter_candidate", "enter_receipts"} /\ UNCHANGED <<phase, refusal, work>>
    <2>1. pc' \in Early
      BY <1>1, <1>5 DEF FakeSteps
    <2> QED BY <1>1, <1>5, <2>1, Moving DEF work
  <1>6. CASE /\ Len(receipts[v]) + 1 \in 1 .. Len(Inputs.campaign.tasks)
             /\ receipts' = [receipts EXCEPT ![v] = Append(receipts[v], new)]
             /\ UNCHANGED <<phase, pc, refusal, identity, lock, executed, proof, bundle, result>>
    <2>1. new.backend = "fake" /\ new.reward \in Int
      <3> DEFINE count == Len(Inputs.campaign.tasks)
                 n     == Len(receipts[v]) + 1
      <3>1. new.backend = "fake" /\ new.reward = DefaultFakeRewards(count)[v][n]
        BY DEF FakeReceipt, NextReceipt
      <3>2. n \in 1 .. count
        BY <1>6
      <3> HIDE DEF count, n, new
      <3>3. DefaultFakeRewards(count)[v][n] \in {0, 1}
        BY <3>2 DEF DefaultFakeRewards
      <3> QED BY <3>1, <3>3
    <2> HIDE DEF new
    <2>2. PICK made : /\ receipts[v] \in Seq(made)
                      /\ \A r \in made : r.backend = "fake" /\ r.reward \in Int
      BY <1>1 DEF Inv, MadeUp
    <2> DEFINE more == made \cup {new}
    <2>3. receipts[v] \in Seq(more) /\ new \in more
      BY <2>2
    <2>4. \A r \in more : r.backend = "fake" /\ r.reward \in Int
      BY <2>1, <2>2
    <2> HIDE DEF more
    <2>5. Append(receipts[v], new) \in Seq(more)
      BY <2>3
    <2>6. DOMAIN receipts = Variants
      BY <1>1 DEF Inv, MadeUp
    <2>7. /\ DOMAIN receipts' = Variants /\ receipts'[v] = Append(receipts[v], new)
          /\ \A u \in Variants : u # v => receipts'[u] = receipts[u]
      BY <1>6, <2>6
    <2>8. \A u \in Variants : \E made1 :
             /\ receipts'[u] \in Seq(made1)
             /\ \A r \in made1 : r.backend = "fake" /\ r.reward \in Int
      <3> SUFFICES ASSUME NEW u \in Variants
                   PROVE  \E made1 :
                             /\ receipts'[u] \in Seq(made1)
                             /\ \A r \in made1 : r.backend = "fake" /\ r.reward \in Int
        OBVIOUS
      <3>1. CASE u = v
        BY <2>4, <2>5, <2>7, <3>1
      <3>2. CASE u # v
        BY <1>1, <2>7, <3>2 DEF Inv, MadeUp
      <3> QED BY <3>1, <3>2
    <2>9. MadeUp'
      BY <2>7, <2>8 DEF MadeUp
    <2>10. Onward /\ pc' # "record"
      BY <1>1, <1>6 DEF Onward, FakeSteps
    <2> QED BY <1>1, <1>6, <2>9, <2>10, Quiet DEF Keeps
  <1> QED BY <1>3, <1>4, <1>5, <1>6

----------------------------------------------------------------------------
(* The report, its proof, and what becomes of it. *)

LEMMA ReportIs ==
    ASSUME NEW from, NEW comparison, NEW written, NEW attested
    PROVE  /\ BuildUpliftReport(from, comparison, written, attested).run = from.request.run
           /\ BuildUpliftReport(from, comparison, written, attested).policy
                = from.request.policy
           /\ BuildUpliftReport(from, comparison, written, attested).publication
                = PublicationStatusFor(from.policy)
  BY DEF BuildUpliftReport

\* While the worker is at it, nothing of the proof was shown to anybody.
LEMMA NothingOffered ==
    ASSUME Inv, Working, plan' = plan, (ManifestFile \notin DOMAIN bundle \/ Whole)'
    PROVE  OfferOK'
  <1>1. plan' = Nothing
    BY DEF Inv, OfferOK
  <1> QED BY <1>1 DEF OfferOK, Whole

LEMMA BuildingReport ==
    ASSUME Inv, BuildReport PROVE Inv'
  <1>1. Keeps /\ pc = "report"
    BY DEF BuildReport
  <1>2. CASE Refuses("report")
    BY <1>1, <1>2, Refusing
  <1>3. CASE ~Refuses("report")
    <2>1. /\ UNCHANGED <<given, used, plan, sent, disturbed, identity, receipts, bundle>>
          /\ pc' = "write" /\ Inputs.request.policy = Inputs.policy
          /\ \E attested, record :
                proof' = [key |-> Key, inputs |-> Inputs, lock |-> lock,
                          receipts |-> receipts, sets |-> Sets,
                          report |-> BuildUpliftReport(Inputs, Compare, receipts, attested),
                          record |-> record]
      BY <1>1, <1>3 DEF BuildReport, Reportable, Keeps
    <2>2. PICK attested, record :
            proof' = [key |-> Key, inputs |-> Inputs, lock |-> lock,
                      receipts |-> receipts, sets |-> Sets,
                      report |-> BuildUpliftReport(Inputs, Compare, receipts, attested),
                      record |-> record]
      BY <2>1
    <2>3. ~IsFake /\ pc \in Early
      BY <1>1 DEF Inv, GivenOK, Early, Late, RealSteps, FakeSteps
    <2>4. proof = Nothing /\ bundle = << >> /\ ~disturbed
      BY <2>3 DEF Inv, ProofOK, BundleOK
    <2>5. /\ IsFake' = IsFake /\ Early' = Early /\ Late' = Late /\ Inputs' = Inputs
          /\ pc' \in Late /\ pc' \notin Early
      BY <2>1, <2>3 DEF IsFake, Inputs, Early, Late, RealSteps
    <2>6. "kind" \notin DOMAIN proof' /\ proof' # Nothing
      BY <2>2, IsNothing
    <2>7. /\ proof'.key = Key
          /\ proof'.report.run = Inputs.request.run
          /\ proof'.report.publication = PublicationStatusFor(proof'.report.policy)
      <3>1. proof'.report = BuildUpliftReport(Inputs, Compare, receipts, attested)
        BY <2>2
      <3> QED BY <2>1, <2>2, <3>1, ReportIs
    <2>8. GivenOK' /\ MadeUp'
      BY <2>1, <2>3, <2>5 DEF Inv, GivenOK, MadeUp
    <2>9. ProofOK'
      BY <2>1, <2>3, <2>5, <2>6, <2>7 DEF ProofOK
    <2>10. BundleOK'
      <3>1. DOMAIN bundle' = {} /\ ~disturbed'
        BY <2>1, <2>4
      <3>2. ~VerifyLocalBundle(bundle')
        BY <3>1, VerifiedShows
      <3> QED BY <2>1, <2>3, <2>5, <2>6, <3>1, <3>2 DEF BundleOK, Partial
    <2>11. UsedOK'
      BY <2>1 DEF Inv, UsedOK, IsPublished, PlannedMayBeShown
    <2>12. OfferOK'
      BY <1>1, <2>1, <2>4, NothingOffered DEF Working
    <2> QED BY <2>8, <2>9, <2>10, <2>11, <2>12 DEF Inv
  <1> QED BY <1>2, <1>3

LEMMA ReportingFake ==
    ASSUME Inv, ReportFake PROVE Inv'
  <1>1. Keeps /\ pc = "report_fake"
    BY DEF ReportFake
  <1>2. CASE Refuses("report_fake")
    BY <1>1, <1>2, Refusing
  <1>3. CASE ~Refuses("report_fake")
    <2>1. /\ UNCHANGED <<given, used, plan, sent, disturbed, identity, receipts, bundle>>
          /\ pc' = "record" /\ AggregatesFakeResults(receipts, Inputs.campaign.tasks)
          /\ proof' = [report |-> DevelopmentReport(Inputs, receipts)]
      BY <1>1, <1>3 DEF ReportFake, Keeps
    <2>2. IsFake /\ pc \in Early
      BY <1>1 DEF Inv, GivenOK, Early, Late, RealSteps, FakeSteps
    <2>3. bundle = << >> /\ ~disturbed
      BY <2>2 DEF Inv, BundleOK
    <2>4. /\ IsFake' = IsFake /\ Early' = Early /\ Late' = Late /\ Inputs' = Inputs
          /\ pc' \in Late /\ pc' \notin Early
      BY <2>1, <2>2 DEF IsFake, Inputs, Early, Late, FakeSteps
    <2>5. "kind" \notin DOMAIN proof' /\ proof' # Nothing
      BY <2>1, IsNothing
    <2>6. report' = DevelopmentReport(Inputs, receipts)
      BY <2>1, <2>5 DEF report
    <2>7. GivenOK' /\ MadeUp'
      BY <2>1, <2>4 DEF Inv, GivenOK, MadeUp
    <2>8. ProofOK'
      BY <2>1, <2>2, <2>4, <2>5, <2>6 DEF ProofOK
    <2>9. BundleOK'
      <3>1. DOMAIN bundle' = {} /\ ~disturbed'
        BY <2>1, <2>3
      <3>2. ~VerifyLocalBundle(bundle')
        BY <3>1, VerifiedShows
      <3> QED BY <2>1, <2>3, <2>4, <3>1, <3>2 DEF BundleOK
    <2>10. UsedOK'
      BY <2>1 DEF Inv, UsedOK, IsPublished, PlannedMayBeShown
    <2>11. OfferOK'
      BY <1>1, <2>1, <2>3, NothingOffered DEF Working
    <2> QED BY <2>7, <2>8, <2>9, <2>10, <2>11 DEF Inv
  <1> QED BY <1>2, <1>3

LEMMA WritingFile ==
    ASSUME Inv, WriteBundleFile PROVE Inv'
  <1> DEFINE files == BundleFiles(proof)
             missing == DOMAIN files \ DOMAIN bundle
  <1>1. /\ UNCHANGED <<given, used, plan, sent, disturbed, identity, receipts, proof>>
        /\ pc = "write"
        /\ \/ missing = {} /\ pc' = "seal" /\ bundle' = bundle
           \/ /\ missing # {} /\ pc' = pc
              /\ \E f \in missing : bundle' = WithFile(bundle, f, files[f])
    BY DEF WriteBundleFile, Keeps
  <1>2. ~IsFake /\ proof # Nothing /\ ~disturbed /\ Partial
        /\ ManifestFile \notin DOMAIN bundle
    BY <1>1 DEF Inv, GivenOK, ProofOK, BundleOK, Early, Late, RealSteps, FakeSteps
  <1>3. /\ IsFake' = IsFake /\ Early' = Early /\ Late' = Late /\ Inputs' = Inputs
        /\ pc' \in {"write", "seal"} /\ pc' \in Late /\ pc' \notin Early
    BY <1>1, <1>2 DEF IsFake, Inputs, Early, Late, RealSteps
  <1>4. /\ Partial'
        /\ ManifestFile \notin DOMAIN bundle'
        /\ pc' = "seal" => DOMAIN BundleFiles(proof') \subseteq DOMAIN bundle'
    <2>1. CASE missing = {} /\ pc' = "seal" /\ bundle' = bundle
      BY <1>1, <1>2, <2>1 DEF Partial
    <2>2. CASE /\ missing # {} /\ pc' = pc
               /\ \E f \in missing : bundle' = WithFile(bundle, f, files[f])
      <3>1. PICK f \in missing : bundle' = WithFile(bundle, f, files[f])
        BY <2>2
      <3>2. f # ManifestFile
        BY <3>1, FilesAre
      <3>3. /\ DOMAIN bundle' = DOMAIN bundle \cup {f}
            /\ \A g \in DOMAIN bundle' :
                  bundle'[g] = IF g = f THEN files[f] ELSE bundle[g]
        BY <3>1 DEF WithFile
      <3> QED BY <1>1, <1>2, <2>2, <3>1, <3>2, <3>3 DEF Partial
    <2> QED BY <1>1, <2>1, <2>2
  <1>5. ~VerifyLocalBundle(bundle')
    BY <1>4, VerifiedShows
  <1>6. GivenOK' /\ MadeUp' /\ UsedOK'
    BY <1>1, <1>2, <1>3 DEF Inv, GivenOK, MadeUp, UsedOK, IsPublished, PlannedMayBeShown
  <1>7. ProofOK'
    BY <1>1, <1>2, <1>3 DEF Inv, ProofOK
  <1>8. BundleOK'
    BY <1>1, <1>2, <1>3, <1>4, <1>5 DEF BundleOK
  <1>9. OfferOK'
    BY <1>1, <1>4, NothingOffered DEF Working
  <1> QED BY <1>6, <1>7, <1>8, <1>9 DEF Inv

LEMMA Sealing ==
    ASSUME Inv, SealBundle PROVE Inv'
  <1>1. /\ UNCHANGED <<given, used, plan, sent, disturbed, identity, receipts, proof>>
        /\ pc = "seal" /\ pc' = "verify"
        /\ bundle' = WithFile(bundle, ManifestFile, Sign(Key, BuildLocalBundle(proof)))
    BY DEF SealBundle, Keeps
  <1>2. ~IsFake /\ proof # Nothing /\ proof.key = Key /\ ~disturbed /\ Partial
        /\ DOMAIN bundle = DOMAIN BundleFiles(proof)
    BY <1>1 DEF Inv, GivenOK, ProofOK, BundleOK, Partial, Early, Late, RealSteps, FakeSteps
  <1>3. /\ IsFake' = IsFake /\ Early' = Early /\ Late' = Late /\ Inputs' = Inputs
        /\ pc' \in Late /\ pc' \notin Early
    BY <1>1, <1>2 DEF IsFake, Inputs, Early, Late, RealSteps
  <1>4. bundle' = SealedBundle(proof)
    <2> DEFINE manifest == Sign(Key, BuildLocalBundle(proof))
    <2>1. bundle' = [g \in DOMAIN bundle \cup {ManifestFile} |->
                       IF g = ManifestFile THEN manifest ELSE bundle[g]]
      BY <1>1 DEF WithFile
    <2>2. SealedBundle(proof) =
            [g \in DOMAIN BundleFiles(proof) \cup {ManifestFile} |->
               IF g = ManifestFile THEN manifest ELSE BundleFiles(proof)[g]]
      BY <1>2 DEF SealedBundle, WithFile
    <2>3. \A g \in DOMAIN bundle : bundle[g] = BundleFiles(proof)[g]
      BY <1>2 DEF Partial
    <2> HIDE DEF manifest
    <2> QED BY <1>2, <2>1, <2>2, <2>3
  <1>5. Whole'
    BY <1>1, <1>2, <1>4 DEF Whole
  <1>6. GivenOK' /\ MadeUp' /\ UsedOK'
    BY <1>1, <1>2, <1>3 DEF Inv, GivenOK, MadeUp, UsedOK, IsPublished, PlannedMayBeShown
  <1>7. ProofOK'
    BY <1>1, <1>2, <1>3 DEF Inv, ProofOK
  <1>8. BundleOK'
    BY <1>1, <1>2, <1>3, <1>5 DEF BundleOK
  <1>9. OfferOK'
    BY <1>1, <1>5, NothingOffered DEF Working
  <1> QED BY <1>6, <1>7, <1>8, <1>9 DEF Inv

LEMMA ReadingBack ==
    ASSUME Inv, VerifyBundle PROVE Inv'
  <1>1. pc = "verify" /\ Keeps
    BY DEF VerifyBundle
  <1>2. CASE ~VerifyLocalBundle(bundle)
    BY <1>1, <1>2, Refusing DEF VerifyBundle
  <1>3. CASE VerifyLocalBundle(bundle)
    <2>1. /\ pc' = "record"
          /\ UNCHANGED <<given, identity, receipts, proof, bundle, used, plan, sent, disturbed>>
      BY <1>1, <1>3 DEF VerifyBundle, Keeps, work
    <2>2. ~IsFake /\ proof # Nothing /\ Working
      BY <1>1 DEF Inv, GivenOK, ProofOK, Early, Late, RealSteps, FakeSteps, Working
    <2>3. Whole
      BY <1>3, <2>2 DEF Inv, BundleOK
    <2>4. /\ IsFake' = IsFake /\ Early' = Early /\ Late' = Late /\ Inputs' = Inputs
          /\ Whole' = Whole /\ pc' \in Late /\ pc' \notin Early
      BY <2>1, <2>2 DEF IsFake, Inputs, Early, Late, RealSteps, Whole
    <2>5. GivenOK' /\ MadeUp' /\ UsedOK'
      BY <2>1, <2>2, <2>4 DEF Inv, GivenOK, MadeUp, UsedOK, IsPublished, PlannedMayBeShown
    <2>6. ProofOK'
      BY <1>3, <2>1, <2>2, <2>3, <2>4 DEF Inv, ProofOK
    <2>7. BundleOK'
      BY <2>1, <2>2, <2>3, <2>4 DEF BundleOK
    <2>8. OfferOK'
      BY <2>1, <2>2, <2>3, <2>4, NothingOffered
    <2> QED BY <2>5, <2>6, <2>7, <2>8 DEF Inv
  <1> QED BY <1>2, <1>3

\* Whatever is changed of a sealed proof contradicts its manifest, or is all of
\* another run's.
LEMMA Disturbing ==
    ASSUME Inv, Disturb PROVE Inv'
  <1>1. /\ UNCHANGED <<given, pc, identity, receipts, proof, used, plan, sent>>
        /\ pc = "verify" \/ ~Working
        /\ ~disturbed /\ bundle # << >> /\ disturbed' = TRUE
    BY DEF Disturb
  <1>2. ~IsFake /\ proof # Nothing
    BY <1>1 DEF Inv, BundleOK
  <1>3. pc \notin Early /\ pc \notin {"write", "seal", "record"}
    BY <1>1, <1>2 DEF Early, RealSteps, Working
  <1>4. /\ IsFake' = IsFake /\ Early' = Early /\ Late' = Late /\ Inputs' = Inputs
        /\ Working' = Working
    BY <1>1 DEF IsFake, Inputs, Early, Late, Working
  <1>5. ManifestFile \notin DOMAIN bundle \/ Whole
    BY <1>1 DEF Inv, BundleOK
  <1>6. VerifyLocalBundle(bundle') =>
          bundle' = SealedBundle(proof) \/ (~Working /\ bundle' \in OtherBundles)
    <2>1. ASSUME NEW f \in DOMAIN bundle, bundle' = [g \in DOMAIN bundle \ {f} |-> bundle[g]]
          PROVE  ~VerifyLocalBundle(bundle')
      <3>1. CASE Whole
        BY <2>1, <3>1, OneFileLost DEF Whole
      <3>2. CASE ManifestFile \notin DOMAIN bundle
        <4>1. ManifestFile \notin DOMAIN bundle'
          BY <2>1, <3>2
        <4> QED BY <4>1, VerifiedShows
      <3> QED BY <1>5, <3>1, <3>2
    <2>2. ASSUME NEW other \in OtherBundles, NEW f \in DOMAIN bundle \cap DOMAIN other,
                 bundle' = [bundle EXCEPT ![f] = other[f]], VerifyLocalBundle(bundle')
          PROVE  bundle' = SealedBundle(proof)
      <3>1. PICK o \in Others : other = SealedBundle(o)
        BY DEF OtherBundles
      <3>2. o.report.run # proof.report.run
        BY <1>2, OthersAssumption DEF Inv, GivenOK, ProofOK, Inputs
      <3>3. CASE Whole
        BY <2>2, <3>1, <3>2, <3>3, OneFileReplaced DEF Whole
      <3>4. CASE ManifestFile \notin DOMAIN bundle
        <4>1. ManifestFile \notin DOMAIN bundle'
          BY <2>2, <3>4
        <4> QED BY <2>2, <4>1, VerifiedShows
      <3> QED BY <1>5, <3>3, <3>4
    <2> QED BY <2>1, <2>2 DEF Disturb
  <1>7. GivenOK' /\ MadeUp' /\ UsedOK'
    BY <1>1, <1>4 DEF Inv, GivenOK, MadeUp, UsedOK, IsPublished, PlannedMayBeShown
  <1>8. ProofOK'
    BY <1>1, <1>2, <1>3, <1>4 DEF Inv, ProofOK
  <1>9. BundleOK'
    BY <1>1, <1>2, <1>3, <1>4, <1>6 DEF BundleOK, Whole
  <1>10. OfferOK'
    <2>1. ManifestFile \in DOMAIN bundle' =>
            \/ ManifestFile \in DOMAIN bundle /\ bundle'[ManifestFile] = bundle[ManifestFile]
            \/ \E o \in Others : bundle'[ManifestFile] = SealedBundle(o)[ManifestFile]
      BY DEF Disturb, OtherBundles
    <2>2. \A o \in Others : SealedBundle(o)[ManifestFile].payload.root = o.report
      BY SealedIs
    <2> QED BY <1>1, <1>4, <2>1, <2>2 DEF Inv, OfferOK
  <1> QED BY <1>7, <1>8, <1>9, <1>10 DEF Inv

\* Whoever looks changes nothing of the run.
LEMMA Looking ==
    ASSUME Inv, UNCHANGED <<given, pc, identity, receipts, proof, bundle, disturbed>>,
           OfferOK', UsedOK'
    PROVE  Inv'
  <1>1. /\ IsFake' = IsFake /\ Early' = Early /\ Late' = Late /\ Inputs' = Inputs
        /\ Whole' = Whole /\ Partial' = Partial /\ report' = report /\ Working' = Working
    BY DEF IsFake, Inputs, Early, Late, Whole, Partial, report, Working
  <1>2. GivenOK' /\ MadeUp'
    BY <1>1 DEF Inv, GivenOK, MadeUp
  <1>3. ProofOK'
    BY <1>1 DEF Inv, ProofOK
  <1>4. BundleOK'
    BY <1>1 DEF Inv, BundleOK
  <1> QED BY <1>2, <1>3, <1>4 DEF Inv

LEMMA OfferStays ==
    ASSUME Inv, UNCHANGED <<pc, proof, bundle, plan>> PROVE OfferOK'
  BY DEF Inv, OfferOK, Working

LEMMA Deriving ==
    ASSUME Inv, DeriveFromRun PROVE Inv'
  <1>1. /\ UNCHANGED <<given, pc, identity, receipts, proof, bundle, disturbed, plan, sent>>
        /\ used' = used \cup {[by |-> "derivation", report |-> result]}
    BY DEF DeriveFromRun, work
  <1>2. \A u \in used' \ used : u.by = "derivation"
    BY <1>1
  <1>3. UsedOK'
    BY <1>1, <1>2 DEF Inv, UsedOK, IsPublished, PlannedMayBeShown
  <1> QED BY <1>1, <1>3, Looking, OfferStays

\* The report of a proof that verifies says of its publication what its
\* DataPolicy says.
LEMMA CarriedFollowsItsPolicy ==
    ASSUME Inv, VerifyLocalBundle(bundle)
    PROVE  bundle[ReportFile].payload.publication
             = PublicationStatusFor(bundle[ReportFile].payload.policy)
  <1>1. CASE Whole
    <2>1. ManifestFile \in DOMAIN bundle /\ DOMAIN << >> = {}
      BY VerifiedShows
    <2>2. ~IsFake
      BY <2>1 DEF Inv, BundleOK
    <2>3. bundle[ReportFile].payload = proof.report
      BY <1>1, SealedIs DEF Whole
    <2> QED BY <1>1, <2>2, <2>3 DEF Inv, ProofOK, Whole
  <1>2. CASE bundle \in OtherBundles
    <2>1. PICK o \in Others : bundle = SealedBundle(o)
      BY <1>2 DEF OtherBundles
    <2>2. bundle[ReportFile].payload = o.report
      BY <2>1, SealedIs
    <2> QED BY <2>2, OthersAssumption
  <1> QED BY <1>1, <1>2 DEF Inv, BundleOK

LEMMA Planning ==
    ASSUME Inv, PlanPublication PROVE Inv'
  <1> DEFINE carried == bundle[ReportFile].payload
  <1>1. /\ UNCHANGED <<given, pc, identity, receipts, proof, bundle, disturbed>>
        /\ ~Working /\ ~IsPublished /\ VerifyLocalBundle(bundle) /\ sent' = Nothing
        /\ PublicationEligible(carried.grade, carried.publication)
        /\ plan' = PublicationPlan(Inputs.request.run, bundle, Inputs.skill)
        /\ used' = used \cup {[by |-> "publication", report |-> carried]}
    BY DEF PlanPublication, work
  <1>2. carried.publication = PublicationStatusFor(carried.policy)
    BY <1>1, CarriedFollowsItsPolicy
  <1> HIDE DEF carried
  <1>3. carried.grade = "P1" /\ carried.policy.report = "public"
    BY <1>1, <1>2 DEF PublicationEligible, PublicationStatusFor
  <1>4. plan'.digest = bundle[ManifestFile].payload /\ plan'.report = carried
    BY <1>1 DEF PublicationPlan, carried
  <1>5. plan' # Nothing
    <2>1. "kind" \notin DOMAIN plan'
      BY <1>1 DEF PublicationPlan
    <2> QED BY <2>1, IsNothing
  <1>6. plan'.digest.root = plan'.report
    BY <1>1, <1>4, VerifiedShows DEF carried
  <1>7. \A u \in used' :
           \/ u \in used /\ u.by # "receipt"
           \/ u.by = "publication" /\ u.report = carried
    BY <1>1 DEF IsPublished
  <1>8. PlannedMayBeShown'
    BY <1>3, <1>7 DEF Inv, UsedOK, PlannedMayBeShown
  <1>9. UsedOK'
    BY <1>1, <1>5, <1>6, <1>8 DEF UsedOK
  <1>10. OfferOK'
    <2>1. Working' = Working
      BY <1>1 DEF Working
    <2>2. bundle[ManifestFile].payload.root = plan'.report
      BY <1>4, <1>6
    <2> QED BY <1>1, <2>1, <2>2 DEF Inv, OfferOK
  <1> QED BY <1>1, <1>9, <1>10, Looking

\* The report among files that agree with their manifest is the one it commits
\* to, whosever manifest it is.
LEMMA TakenIsWhole ==
    ASSUME Inv, ManifestFile \in DOMAIN bundle,
           CheckArtifacts(bundle, bundle[ManifestFile].payload)
    PROVE  bundle[ReportFile].payload = bundle[ManifestFile].payload.root
  <1>1. PICK c \in {proof} \cup Others : bundle[ManifestFile] = SealedBundle(c)[ManifestFile]
    BY DEF Inv, OfferOK
  <1>2. /\ bundle[ManifestFile].payload.artifacts = BundleFiles(c)
        /\ bundle[ManifestFile].payload.root = c.report
    BY <1>1, SealedIs
  <1>3. ReportFile \in DOMAIN BundleFiles(c) /\ BundleFiles(c)[ReportFile].payload = c.report
    <2>1. /\ ReportFile \in DOMAIN BundleFiles(c)
          /\ BundleFiles(c)[ReportFile] = Sign(c.key, c.report)
      BY FilesAre
    <2>2. Sign(c.key, c.report).payload = c.report
      BY DEF Sign
    <2> QED BY <2>1, <2>2
  <1>4. bundle[ReportFile] = BundleFiles(c)[ReportFile]
    BY <1>2, <1>3 DEF CheckArtifacts
  <1> QED BY <1>2, <1>3, <1>4

\* What is taken was shown, or is all another run's.
LEMMA Submitting ==
    ASSUME Inv, Submit PROVE Inv'
  <1> DEFINE read == bundle[ReportFile].payload
             root == bundle[ManifestFile].payload.root
             entry == [by |-> "log", report |-> read, shown |-> plan.report]
  <1>1. /\ UNCHANGED <<given, pc, identity, receipts, proof, bundle, disturbed, plan>>
        /\ plan # Nothing /\ ManifestFile \in DOMAIN bundle
    BY DEF Submit, work, Present
  <1>2. PICK taken \in {FALSE, CheckArtifacts(bundle, bundle[ManifestFile].payload)} :
          /\ sent' = [submission |-> Submission(plan.run, bundle), taken |-> taken]
          /\ used' = IF taken THEN used \cup {entry} ELSE used
    BY DEF Submit, LogMayTake, Submission
  <1>3. taken => read = root
    BY <1>1, <1>2, TakenIsWhole
  <1>4. taken => read = plan.report \/ \E other \in Others : read = other.report
    BY <1>1, <1>3 DEF Inv, OfferOK
  <1>5. entry.by = "log" /\ entry.report = read /\ entry.shown = plan.report
    OBVIOUS
  <1>6. /\ sent'.taken = taken
        /\ sent'.submission.files[ReportFile].payload = read
        /\ sent'.submission.digest.root = root
    BY <1>2 DEF Submission
  <1> HIDE DEF read, root, entry
  <1>7. \A u \in used' : u \in used \/ (taken /\ u = entry)
    BY <1>2
  <1>8. PlannedMayBeShown'
    BY <1>1, <1>4, <1>5, <1>7 DEF Inv, UsedOK, PlannedMayBeShown
  <1>9. UsedOK'
    BY <1>1, <1>3, <1>6, <1>8 DEF Inv, UsedOK
  <1> QED BY <1>1, <1>9, Looking, OfferStays

\* What a receipt is filed of is what the plan names.
LEMMA Filing ==
    ASSUME Inv, FileReceipt PROVE Inv'
  <1> DEFINE read == sent.submission.files[ReportFile].payload
             entry == [by |-> "receipt", report |-> read]
  <1>1. /\ UNCHANGED <<given, pc, identity, receipts, proof, bundle, disturbed, plan, sent>>
        /\ sent # Nothing /\ sent.taken /\ sent.submission.digest = plan.digest
        /\ used' = used \cup {entry}
    BY DEF FileReceipt, work, VerifyPublicationReceipt
  <1>2. plan # Nothing /\ read = plan.report
    BY <1>1 DEF Inv, UsedOK
  <1>3. \A u \in used' : u \in used \/ (u.by = "receipt" /\ u.report = plan.report)
    BY <1>1, <1>2
  <1>4. UsedOK'
    BY <1>1, <1>2, <1>3 DEF Inv, UsedOK, PlannedMayBeShown
  <1> QED BY <1>1, <1>4, Looking, OfferStays

----------------------------------------------------------------------------
LEMMA InitInv == Init => Inv
  <1> SUFFICES ASSUME Init PROVE Inv
    OBVIOUS
  <1>1. ~VerifyLocalBundle(bundle)
    <2>1. DOMAIN bundle = {}
      BY DEF Init
    <2> QED BY <2>1, VerifiedShows
  <1>2. ManifestFile \notin DOMAIN bundle
    BY DEF Init
  <1>3. GivenOK
    BY DEF Init, GivenOK, Early, RealSteps, FakeSteps
  <1>4. MadeUp
    <2>1. receipts = [v \in Variants |-> << >>]
      BY DEF Init
    <2>2. \A v \in Variants : receipts[v] \in Seq({})
      BY <2>1
    <2>3. \A v \in Variants : \E made :
             /\ receipts[v] \in Seq(made)
             /\ \A r \in made : r.backend = "fake" /\ r.reward \in Int
      <3> SUFFICES ASSUME NEW v \in Variants
                   PROVE  \E made :
                             /\ receipts[v] \in Seq(made)
                             /\ \A r \in made : r.backend = "fake" /\ r.reward \in Int
        OBVIOUS
      <3>1. receipts[v] \in Seq({}) /\ \A r \in {} : r.backend = "fake" /\ r.reward \in Int
        BY <2>2
      <3> QED BY <3>1
    <2> QED BY <2>1, <2>3 DEF MadeUp
  <1>5. ProofOK
    BY DEF Init, ProofOK
  <1>6. BundleOK
    BY <1>1, <1>2 DEF Init, BundleOK
  <1>7. UsedOK
    BY DEF Init, UsedOK, IsPublished, PlannedMayBeShown
  <1>8. OfferOK
    BY <1>2 DEF Init, OfferOK
  <1> QED BY <1>3, <1>4, <1>5, <1>6, <1>7, <1>8 DEF Inv

LEMMA StepInv == Inv /\ [Next]_vars => Inv'
  <1> SUFFICES ASSUME Inv, [Next]_vars PROVE Inv'
    OBVIOUS
  <1>1. CASE \/ Preflight \/ ValidateTaskset \/ PlanPair \/ RunChildren \/ Normalize
             \/ ReadInputs \/ EnsureIdentity \/ PublishKey \/ VerifyComparison
    BY <1>1, RealMoves
  <1>2. CASE FakePreflight \/ ValidateFake \/ EnterNext \/ ReadReceipts \/ Recompute
    BY <1>2, FakeMoves
  <1>3. CASE BuildReceipts \/ BuildReport \/ ReportFake
    BY <1>3, BuildingReceipts, BuildingReport, ReportingFake
  <1>4. ASSUME NEW v \in Variants, ScoreNext(v) PROVE Inv'
    BY <1>4, Scoring
  <1>5. CASE WriteBundleFile \/ SealBundle \/ VerifyBundle
    BY <1>5, WritingFile, Sealing, ReadingBack
  <1>6. CASE WriteResult \/ Complete \/ WorkerDies \/ RequestCancel
    BY <1>6, Finishing, Stopping
  <1>7. CASE Disturb
    BY <1>7, Disturbing
  <1>8. CASE DeriveFromRun \/ PlanPublication \/ Submit \/ FileReceipt
    BY <1>8, Deriving, Planning, Submitting, Filing
  <1>9. CASE UNCHANGED vars
    <2>1. UNCHANGED <<given, pc, identity, receipts, proof, bundle, disturbed, used, plan,
                      sent>>
      BY <1>9 DEF vars
    <2>2. UsedOK'
      BY <2>1 DEF Inv, UsedOK, IsPublished, PlannedMayBeShown
    <2> QED BY <2>1, <2>2, Looking, OfferStays
  <1> QED BY <1>1, <1>2, <1>3, <1>4, <1>5, <1>6, <1>7, <1>8, <1>9 DEF Next

----------------------------------------------------------------------------
\* Nothing but the end of the report stage records a result.
LEMMA OnlyTheWorkerRecords ==
    ASSUME Inv, Next, result' # result PROVE WriteResult
  <1>1. Preflight \/ ValidateTaskset \/ PlanPair \/ RunChildren => result' = result
    BY DEF Preflight, ValidateTaskset, PlanPair, RunChildren, Refuses, Cancels, Enters, work
  <1>2. Normalize \/ ReadInputs \/ PublishKey \/ VerifyComparison => result' = result
    BY DEF Normalize, ReadInputs, PublishKey, VerifyComparison, Refuses, Cancels, Enters, work
  <1>3. BuildReceipts \/ BuildReport \/ ReportFake => result' = result
    BY DEF BuildReceipts, BuildReport, ReportFake, Refuses, Cancels, Enters, work
  <1>4. WriteBundleFile \/ SealBundle \/ VerifyBundle \/ Complete => result' = result
    BY DEF WriteBundleFile, SealBundle, VerifyBundle, Complete, Refuses, Cancels, Enters, work
  <1>5. FakePreflight \/ EnterNext => result' = result
    BY DEF FakePreflight, EnterNext, Refuses, Cancels, Enters, work
  <1>6. ValidateFake \/ ReadReceipts \/ Recompute => result' = result
    BY DEF ValidateFake, ReadReceipts, Recompute, LooksAfter, Refuses, Cancels, Enters, work
  <1>7. WorkerDies \/ RequestCancel \/ Disturb => result' = result
    BY DEF WorkerDies, RequestCancel, Disturb, work
  <1>8. DeriveFromRun \/ PlanPublication \/ Submit \/ FileReceipt => result' = result
    BY DEF DeriveFromRun, PlanPublication, Submit, FileReceipt, work
  <1>9. EnsureIdentity => result' = result
    <2>1. identity \in {"none", "half", "whole"}
      BY DEF Inv, GivenOK
    <2> QED BY <2>1 DEF EnsureIdentity, Refuses, Enters, work
  <1>10. ASSUME NEW v \in Variants, ScoreNext(v) PROVE result' = result
    BY <1>10, ScoringIs DEF Cancels, work
  <1> QED BY <1>1, <1>2, <1>3, <1>4, <1>5, <1>6, <1>7, <1>8, <1>9, <1>10 DEF Next

\* The inductive invariant holds in every reachable state.
THEOREM InvHolds == Spec => []Inv
  <1>1. Init => Inv
    BY InitInv
  <1>2. Inv /\ [Next]_vars => Inv'
    BY StepInv
  <1> QED BY <1>1, <1>2, PTL DEF Spec

\* What verifies is one run's proof, whole: a directory of which a file was lost
\* or replaced, before or after the worker read it back, does not verify
\* (verify_local_bundle).
THEOREM VerifiedProofsAreWhole == Spec => []VerifiedIsWhole
  <1>1. Inv => VerifiedIsWhole
    BY DEF Inv, BundleOK, Whole, VerifiedIsWhole
  <1> QED BY <1>1, InvHolds, PTL

\* What a person is offered to publish may be public, and what is filed as
\* published is what they were shown, whatever became of the files between. What
\* the log takes is what they were shown or all another run's proof: the files
\* are sent before the receipt is compared with the plan (plan, publish).
THEOREM WhatIsPublishedWasShown == Spec => []PlannedMayBeShown
  <1>1. Inv => PlannedMayBeShown
    BY DEF Inv, UsedOK
  <1> QED BY <1>1, InvHolds, PTL

\* A report becomes a run's result only beside a proof that verifies and carries
\* it, or as one that says it was made up (_prove, FakeRunExecutor.execute).
THEOREM ResultsAreProven == Spec => RecordedIsProven
  <1> DEFINE Proven ==
        result' # result =>
          IF IsFake
          THEN /\ result'.grade = "development_only" /\ result'.publication = "blocked"
               /\ \A v \in Variants :
                     /\ {r.task : r \in Range(receipts[v])} = Range(Inputs.campaign.tasks)
                     /\ \A r \in Range(receipts[v]) : r.backend = "fake"
          ELSE VerifyLocalBundle(bundle) /\ bundle[ReportFile].payload = result'
  <1>1. Inv /\ [Next]_vars => [Proven]_vars
    <2> SUFFICES ASSUME Inv, Next, result' # result PROVE Proven
      BY DEF vars
    <2>1. WriteResult
      BY OnlyTheWorkerRecords
    <2>2. pc = "record" /\ result' = report
      BY <2>1 DEF WriteResult, Refuses, work
    <2>3. CASE ~IsFake
      <3>1. VerifyLocalBundle(bundle) /\ Whole
        BY <2>2, <2>3 DEF Inv, ProofOK
      <3>2. report = proof.report
        BY <3>1 DEF report, Whole
      <3>3. bundle[ReportFile].payload = proof.report
        BY <3>1, SealedIs DEF Whole
      <3> QED BY <2>2, <2>3, <3>1, <3>2, <3>3
    <2>4. CASE IsFake
      <3>1. /\ result' = DevelopmentReport(Inputs, receipts)
            /\ AggregatesFakeResults(receipts, Inputs.campaign.tasks)
        BY <2>2, <2>4 DEF Inv, ProofOK
      <3>2. result'.grade = "development_only" /\ result'.publication = "blocked"
        BY <3>1 DEF DevelopmentReport
      <3>3. ASSUME NEW v \in Variants
            PROVE  /\ {r.task : r \in Range(receipts[v])} = Range(Inputs.campaign.tasks)
                   /\ \A r \in Range(receipts[v]) : r.backend = "fake"
        <4>1. {receipts[v][i].task : i \in DOMAIN receipts[v]} = Range(Inputs.campaign.tasks)
          BY <3>1, <3>3 DEF AggregatesFakeResults, PairsReceipts
        <4>2. PICK made : receipts[v] \in Seq(made) /\ \A r \in made : r.backend = "fake"
          BY <2>4, <3>3 DEF Inv, MadeUp
        <4>3. Range(receipts[v]) = {receipts[v][i] : i \in DOMAIN receipts[v]}
          BY DEF Range
        <4>4. \A i \in DOMAIN receipts[v] : receipts[v][i] \in made
          BY <4>2
        <4> QED BY <4>1, <4>2, <4>3, <4>4
      <3> QED BY <2>4, <3>2, <3>3
    <2> QED BY <2>3, <2>4
  <1> QED BY <1>1, InvHolds, PTL DEF Spec, RecordedIsProven

----------------------------------------------------------------------------
(* Sums. *)

\* Induction over the natural numbers, for a set.
LEMMA SetInduction ==
    ASSUME NEW S, 0 \in S, \A n \in Nat : n \in S => n + 1 \in S
    PROVE  \A n \in Nat : n \in S
  <1> DEFINE T == {n \in Nat : n \notin S}
             R == {ss \in Nat \X Nat : ss[1] < ss[2]}
  <1> SUFFICES ASSUME T # {} PROVE FALSE
    OBVIOUS
  <1>1. IsWellFoundedOn(R, Nat)
    BY NatLessThanWellFounded DEF OpToRel
  <1>2. PICK n \in T : \A m \in T : ~(<<m, n>> \in R)
    BY <1>1, WFMin
  <1>3. n \in Nat /\ n # 0
    OBVIOUS
  <1>4. n - 1 \in Nat /\ n - 1 < n /\ (n - 1) + 1 = n
    BY <1>3
  <1>5. <<n - 1, n>> \in R /\ n - 1 \in T
    BY <1>3, <1>4
  <1> QED BY <1>2, <1>5

\* The element a sum begins with, and the sums over the sets of a family.
First(s) == CHOOSE x \in s : TRUE
Sums(f, family, sum) ==
    sum = [s \in family |-> IF s = {} THEN 0 ELSE f[First(s)] + sum[s \ {First(s)}]]
Counts(f) == IsFiniteSet(DOMAIN f) /\ \A x \in DOMAIN f : f[x] \in Int
UpTo(f, n) == {s \in SUBSET DOMAIN f : Cardinality(s) <= n}

LEMMA FirstIs == ASSUME NEW s, s # {} PROVE First(s) \in s
  BY DEF First

\* Without one of its elements a finite set is one smaller.
LEMMA OneLess ==
    ASSUME NEW s, IsFiniteSet(s), NEW x \in s
    PROVE  /\ IsFiniteSet(s \ {x}) /\ Cardinality(s) \in Nat \ {0}
           /\ Cardinality(s \ {x}) = Cardinality(s) - 1
           /\ Cardinality(s \ {x}) \in Nat
  <1>1. IsFiniteSet(s \ {x}) /\ Cardinality(s \ {x}) = Cardinality(s) - 1
    BY FS_RemoveElement
  <1>2. Cardinality(s) \in Nat /\ Cardinality(s \ {x}) \in Nat
    BY <1>1, FS_CardinalityType
  <1> QED BY <1>1, <1>2

\* What is so of a finite set whenever it is so of those with one element less.
LEMMA SubsetInduction ==
    ASSUME NEW D, IsFiniteSet(D), NEW Good, {} \in Good,
           \A s \in SUBSET D : s # {} /\ (\A x \in s : s \ {x} \in Good) => s \in Good
    PROVE  \A s \in SUBSET D : s \in Good
  <1> DEFINE S == {n \in Nat : \A s \in SUBSET D : Cardinality(s) = n => s \in Good}
  <1>1. \A s \in SUBSET D : IsFiniteSet(s) /\ Cardinality(s) \in Nat
    BY FS_Subset, FS_CardinalityType
  <1>2. 0 \in S
    <2>1. \A s \in SUBSET D : Cardinality(s) = 0 => s = {}
      BY <1>1, FS_EmptySet
    <2> QED BY <2>1
  <1>3. ASSUME NEW n \in Nat, n \in S PROVE n + 1 \in S
    <2> SUFFICES ASSUME NEW s \in SUBSET D, Cardinality(s) = n + 1 PROVE s \in Good
      OBVIOUS
    <2>1. s # {}
      BY <1>1, FS_EmptySet
    <2>2. ASSUME NEW x \in s PROVE s \ {x} \in Good
      <3>1. Cardinality(s \ {x}) = n
        BY <1>1, OneLess
      <3> QED BY <1>3, <3>1
    <2> QED BY <2>1, <2>2
  <1> HIDE DEF S
  <1>4. \A n \in Nat : n \in S
    BY <1>2, <1>3, SetInduction
  <1> QED BY <1>1, <1>4 DEF S

LEMMA SumsUpToExist ==
    ASSUME NEW f, IsFiniteSet(DOMAIN f), NEW n \in Nat
    PROVE  \E sum : Sums(f, UpTo(f, n), sum)
  <1> DEFINE S == {m \in Nat : \E sum : Sums(f, UpTo(f, m), sum)}
  <1>1. \A s \in SUBSET DOMAIN f : IsFiniteSet(s) /\ Cardinality(s) \in Nat
    BY FS_Subset, FS_CardinalityType
  <1>2. 0 \in S
    <2>1. \A s \in UpTo(f, 0) : s = {}
      BY <1>1, FS_EmptySet DEF UpTo
    <2> DEFINE sum == [s \in UpTo(f, 0) |-> 0]
    <2>2. [s \in UpTo(f, 0) |-> 0]
            = [s \in UpTo(f, 0) |-> IF s = {} THEN 0 ELSE f[First(s)] + sum[s \ {First(s)}]]
      BY <2>1
    <2>3. Sums(f, UpTo(f, 0), sum)
      BY <2>2 DEF Sums
    <2> QED BY <2>3
  <1>3. ASSUME NEW m \in Nat, m \in S PROVE m + 1 \in S
    <2>1. PICK sum : Sums(f, UpTo(f, m), sum)
      BY <1>3
    <2> DEFINE more == [s \in UpTo(f, m + 1) |->
                          IF s = {} THEN 0 ELSE f[First(s)] + sum[s \ {First(s)}]]
    <2>2. ASSUME NEW s \in UpTo(f, m + 1), s # {}
          PROVE  more[s \ {First(s)}] = sum[s \ {First(s)}]
      <3> DEFINE u == s \ {First(s)}
      <3>1. First(s) \in s /\ s \in SUBSET DOMAIN f /\ Cardinality(s) <= m + 1
        BY <2>2, FirstIs DEF UpTo
      <3>2. Cardinality(u) = Cardinality(s) - 1 /\ Cardinality(u) \in Nat /\ Cardinality(s) \in Nat
        BY <1>1, <3>1, OneLess
      <3>3. Cardinality(u) <= m /\ Cardinality(u) <= m + 1 /\ u \in SUBSET DOMAIN f
        BY <3>1, <3>2
      <3>4. u \in UpTo(f, m) /\ u \in UpTo(f, m + 1)
        BY <3>3 DEF UpTo
      <3>5. sum[u] = IF u = {} THEN 0 ELSE f[First(u)] + sum[u \ {First(u)}]
        BY <2>1, <3>4 DEF Sums
      <3> QED BY <3>4, <3>5
    <2>3. more = [s \in UpTo(f, m + 1) |->
                    IF s = {} THEN 0 ELSE f[First(s)] + more[s \ {First(s)}]]
      <3> HIDE DEF more
      <3>1. \A s \in UpTo(f, m + 1) :
               (IF s = {} THEN 0 ELSE f[First(s)] + sum[s \ {First(s)}])
                 = (IF s = {} THEN 0 ELSE f[First(s)] + more[s \ {First(s)}])
        BY <2>2
      <3>2. more = [s \in UpTo(f, m + 1) |->
                      IF s = {} THEN 0 ELSE f[First(s)] + sum[s \ {First(s)}]]
        BY DEF more
      <3> QED BY <3>1, <3>2
    <2>4. Sums(f, UpTo(f, m + 1), more)
      <3> HIDE DEF more
      <3> QED BY <2>3 DEF Sums
    <2> HIDE DEF more
    <2> QED BY <2>4
  <1> HIDE DEF S
  <1>4. n \in S
    BY <1>2, <1>3, SetInduction
  <1> QED BY <1>4 DEF S

LEMMA SumIs ==
    ASSUME NEW f, IsFiniteSet(DOMAIN f)
    PROVE  \E sum : Sums(f, SUBSET DOMAIN f, sum) /\ SumFunction(f) = sum[DOMAIN f]
  <1> DEFINE n == Cardinality(DOMAIN f)
             iter == CHOOSE sum : Sums(f, SUBSET DOMAIN f, sum)
  <1>1. n \in Nat
    BY FS_CardinalityType
  <1>2. \A s \in SUBSET DOMAIN f : Cardinality(s) <= n
    BY FS_Subset
  <1>3. UpTo(f, n) = SUBSET DOMAIN f
    BY <1>2 DEF UpTo
  <1>4. \E sum : Sums(f, SUBSET DOMAIN f, sum)
    <2>1. \E sum : Sums(f, UpTo(f, n), sum)
      BY <1>1, SumsUpToExist
    <2> QED BY <1>3, <2>1
  <1>5. Sums(f, SUBSET DOMAIN f, iter)
    BY <1>4
  <1>6. SumFunction(f) = iter[DOMAIN f]
    BY DEF SumFunction, SumFunctionOnSet, FoldFunctionOnSet, MapThenFoldSet, Sums, First
  <1> HIDE DEF iter
  <1> QED BY <1>5, <1>6

\* What the sums over the subsets are, and that they are numbers.
LEMMA SumsAre ==
    ASSUME NEW f, NEW sum, Sums(f, SUBSET DOMAIN f, sum)
    PROVE  /\ sum[{}] = 0
           /\ \A s \in SUBSET DOMAIN f :
                 s # {} => sum[s] = f[First(s)] + sum[s \ {First(s)}]
  BY DEF Sums

LEMMA SumsCount ==
    ASSUME NEW f, Counts(f), NEW sum, Sums(f, SUBSET DOMAIN f, sum)
    PROVE  \A s \in SUBSET DOMAIN f : sum[s] \in Int
  <1> DEFINE Good == {s \in SUBSET DOMAIN f : sum[s] \in Int}
  <1>1. {} \in Good
    <2>1. sum[{}] = 0
      BY SumsAre
    <2> QED BY <2>1
  <1>2. ASSUME NEW s \in SUBSET DOMAIN f, s # {}, \A x \in s : s \ {x} \in Good
        PROVE  s \in Good
    <2>1. First(s) \in s
      BY <1>2, FirstIs
    <2>2. f[First(s)] \in Int /\ sum[s \ {First(s)}] \in Int
      BY <1>2, <2>1 DEF Counts
    <2>3. sum[s] = f[First(s)] + sum[s \ {First(s)}]
      BY <1>2, SumsAre
    <2> QED BY <2>2, <2>3
  <1> HIDE DEF Good
  <1>3. \A s \in SUBSET DOMAIN f : s \in Good
    BY <1>1, <1>2, SubsetInduction DEF Counts
  <1> QED BY <1>3 DEF Good

\* Any element may be the one a sum begins with.
LEMMA AnyFirst ==
    ASSUME NEW f, Counts(f), NEW sum, Sums(f, SUBSET DOMAIN f, sum)
    PROVE  \A s \in SUBSET DOMAIN f : \A x \in s : sum[s] = f[x] + sum[s \ {x}]
  <1> DEFINE Good == {s \in SUBSET DOMAIN f : \A x \in s : sum[s] = f[x] + sum[s \ {x}]}
  <1>1. {} \in Good
    OBVIOUS
  <1>2. ASSUME NEW s \in SUBSET DOMAIN f, s # {}, \A x \in s : s \ {x} \in Good
        PROVE  s \in Good
    <2> SUFFICES ASSUME NEW x \in s PROVE sum[s] = f[x] + sum[s \ {x}]
      OBVIOUS
    <2> DEFINE c == First(s)
    <2>1. c \in s /\ sum[s] = f[c] + sum[s \ {c}]
      BY <1>2, FirstIs, SumsAre
    <2>2. CASE x = c
      BY <2>1, <2>2
    <2>3. CASE x # c
      <3> DEFINE rest == (s \ {x}) \ {c}
      <3>1. rest = (s \ {c}) \ {x} /\ x \in s \ {c} /\ c \in s \ {x}
        BY <2>1, <2>3
      <3>2. sum[s \ {c}] = f[x] + sum[rest]
        BY <1>2, <2>1, <3>1
      <3>3. sum[s \ {x}] = f[c] + sum[rest]
        BY <1>2, <3>1
      <3>4. f[x] \in Int /\ f[c] \in Int /\ sum[rest] \in Int
        BY <1>2, <2>1, SumsCount DEF Counts
      <3> HIDE DEF rest, c
      <3> QED BY <2>1, <3>2, <3>3, <3>4
    <2> QED BY <2>2, <2>3
  <1> HIDE DEF Good
  <1>3. \A s \in SUBSET DOMAIN f : s \in Good
    BY <1>1, <1>2, SubsetInduction DEF Counts
  <1> QED BY <1>3 DEF Good

\* Sums of the same numbers in another place are the same.
LEMMA SameSums ==
    ASSUME NEW f, Counts(f), NEW g, Counts(g),
           NEW h \in [DOMAIN f -> DOMAIN g],
           \A x, y \in DOMAIN f : h[x] = h[y] => x = y,
           \A y \in DOMAIN g : \E x \in DOMAIN f : h[x] = y,
           \A x \in DOMAIN f : f[x] = g[h[x]]
    PROVE  SumFunction(f) = SumFunction(g)
  <1>1. PICK left : Sums(f, SUBSET DOMAIN f, left) /\ SumFunction(f) = left[DOMAIN f]
    BY SumIs DEF Counts
  <1>2. PICK right : Sums(g, SUBSET DOMAIN g, right) /\ SumFunction(g) = right[DOMAIN g]
    BY SumIs DEF Counts
  <1> DEFINE Image(s) == {h[x] : x \in s}
             Good == {s \in SUBSET DOMAIN f : left[s] = right[Image(s)]}
  <1>3. {} \in Good
    BY <1>1, <1>2, SumsAre
  <1>4. ASSUME NEW s \in SUBSET DOMAIN f, s # {}, \A x \in s : s \ {x} \in Good
        PROVE  s \in Good
    <2>1. PICK x \in s : TRUE
      BY <1>4
    <2>2. left[s] = f[x] + left[s \ {x}]
      BY <1>1, <2>1, AnyFirst
    <2>3. Image(s) \in SUBSET DOMAIN g /\ h[x] \in Image(s)
      OBVIOUS
    <2>4. right[Image(s)] = g[h[x]] + right[Image(s) \ {h[x]}]
      BY <1>2, <2>3, AnyFirst
    <2>5. Image(s) \ {h[x]} = Image(s \ {x})
      OBVIOUS
    <2>6. left[s \ {x}] = right[Image(s \ {x})]
      BY <1>4
    <2> QED BY <2>2, <2>4, <2>5, <2>6
  <1>5. Image(DOMAIN f) = DOMAIN g
    OBVIOUS
  <1> HIDE DEF Good
  <1>6. \A s \in SUBSET DOMAIN f : s \in Good
    BY <1>3, <1>4, SubsetInduction DEF Counts
  <1>7. left[DOMAIN f] = right[Image(DOMAIN f)]
    <2> HIDE DEF Image
    <2>1. DOMAIN f \in Good
      BY <1>6
    <2> QED BY <2>1 DEF Good
  <1> HIDE DEF Image
  <1> QED BY <1>1, <1>2, <1>5, <1>7

\* The sum of differences is the difference of the sums.
LEMMA DifferenceOfSums ==
    ASSUME NEW f, Counts(f), NEW g, Counts(g), DOMAIN g = DOMAIN f,
           NEW d, Counts(d), DOMAIN d = DOMAIN f, \A x \in DOMAIN f : d[x] = f[x] - g[x]
    PROVE  /\ SumFunction(d) = SumFunction(f) - SumFunction(g)
           /\ SumFunction(f) \in Int /\ SumFunction(g) \in Int
  <1>1. PICK left : Sums(f, SUBSET DOMAIN f, left) /\ SumFunction(f) = left[DOMAIN f]
    BY SumIs DEF Counts
  <1>2. PICK right : Sums(g, SUBSET DOMAIN g, right) /\ SumFunction(g) = right[DOMAIN g]
    BY SumIs DEF Counts
  <1>3. PICK less : Sums(d, SUBSET DOMAIN d, less) /\ SumFunction(d) = less[DOMAIN d]
    BY SumIs DEF Counts
  <1>4. \A s \in SUBSET DOMAIN f : left[s] \in Int /\ right[s] \in Int /\ less[s] \in Int
    BY <1>1, <1>2, <1>3, SumsCount
  <1> DEFINE Good == {s \in SUBSET DOMAIN f : less[s] = left[s] - right[s]}
  <1>5. {} \in Good
    BY <1>1, <1>2, <1>3, SumsAre
  <1>6. ASSUME NEW s \in SUBSET DOMAIN f, s # {}, \A x \in s : s \ {x} \in Good
        PROVE  s \in Good
    <2>1. PICK x \in s : x = First(s)
      BY <1>6, FirstIs
    <2>2. left[s] = f[x] + left[s \ {x}]
      BY <1>1, <1>6, <2>1, SumsAre
    <2>3. right[s] = g[x] + right[s \ {x}]
      BY <1>2, <1>6, <2>1, SumsAre
    <2>4. less[s] = d[x] + less[s \ {x}]
      <3>1. s \in SUBSET DOMAIN d
        OBVIOUS
      <3> QED BY <1>3, <1>6, <2>1, <3>1, SumsAre
    <2>5. less[s \ {x}] = left[s \ {x}] - right[s \ {x}]
      BY <1>6
    <2>6. d[x] = f[x] - g[x] /\ f[x] \in Int /\ g[x] \in Int
      BY DEF Counts
    <2>7. left[s \ {x}] \in Int /\ right[s \ {x}] \in Int
      BY <1>4
    <2> QED BY <2>2, <2>3, <2>4, <2>5, <2>6, <2>7
  <1> HIDE DEF Good
  <1>7. \A s \in SUBSET DOMAIN f : s \in Good
    BY <1>5, <1>6, SubsetInduction DEF Counts
  <1> QED BY <1>1, <1>2, <1>3, <1>4, <1>7 DEF Good

----------------------------------------------------------------------------
(* What is staged when a report is made. *)

\* What each step leaves to the next: a lock validated on this machine, the two
\* evaluations as they were normalized, inputs that hold, and the receipts.
Tasks == Inputs.campaign.tasks
LockIsValidated ==
    lock = Validated /\ ValidatedTaskset(given.taskset, Inputs, given.engine)
ExecutedIsNormalized ==
    /\ executed = [v \in Variants |-> ExecutionOf(v)]
    /\ \A v \in Variants :
          /\ BuildsVariantResult(given.outputs[v], Validated)
          /\ VerifyVariantExecution(ExecutionOf(v), Inputs[v], Validated)
InputsHold == InputsVerify(Inputs) /\ lock.tasks = Tasks
ReceiptsAreBuilt ==
    receipts = [v \in Variants |-> ReceiptsOf(v)] /\ \A v \in Variants : BuildsVariant(v)

Staged ==
    /\ given \in Starts
    /\ LockIsValidated /\ ExecutedIsNormalized /\ InputsHold /\ ReceiptsAreBuilt

\* A lock the worker validated names only tasks whose checks passed.
LEMMA RowsWereValid ==
    ASSUME given \in Starts, LockIsValidated PROVE TasksWereValid
  <1> DEFINE rows  == given.taskset.rows
             found == Inputs.campaign.shared["taskset"].validation.evidence.tasks
  <1> SUFFICES ASSUME CanValidateLocally(given.taskset), NEW n \in DOMAIN Tasks
               PROVE  \E row \in Range(rows) :
                         /\ row.position = n - 1 /\ row.task = Tasks[n]
                         /\ row.gold = "valid" /\ row.setup = "valid"
    BY DEF TasksWereValid, Tasks
  <1>1. LocalVerifiersValidates(given.taskset, Inputs, given.engine.verified)
    BY DEF LockIsValidated, ValidatedTaskset, ValidatesTaskset
  <1>2. /\ Inputs.campaign.shared["taskset"].validation.status = "valid"
        /\ found = ByPosition(rows)
        /\ {rows[i].position : i \in DOMAIN rows} = 0 .. Len(rows) - 1
    BY <1>1 DEF LocalVerifiersValidates, TasksetReceipt, NormalizedEvidence, Normalizes
  <1>3. /\ n \in DOMAIN found /\ found[n].task = Tasks[n]
        /\ found[n].gold = "valid" /\ found[n].setup = "valid"
    BY <1>2, PublisherAssumption DEF Inputs, Tasks
  <1>4. rows \in Seq(Range(rows)) /\ Len(rows) \in Nat
    BY EvidenceAssumption
  <1> HIDE DEF rows
  <1>5. n \in 1 .. Len(rows) /\ found[n] = CHOOSE row \in Range(rows) : row.position = n - 1
    BY <1>2, <1>3 DEF ByPosition
  <1>6. n - 1 \in 0 .. Len(rows) - 1
    BY <1>4, <1>5
  <1>7. PICK i \in DOMAIN rows : rows[i].position = n - 1
    BY <1>2, <1>6
  <1>8. rows[i] \in Range(rows)
    BY DEF Range
  <1>9. found[n] \in Range(rows) /\ found[n].position = n - 1
    BY <1>5, <1>7, <1>8
  <1> QED BY <1>3, <1>9

\* The tasks measured are the Campaign's, each once.
LEMMA TasksAre ==
    ASSUME Staged
    PROVE  /\ Tasks \in Seq(Range(Tasks)) /\ lock.tasks = Tasks /\ Validated.tasks = Tasks
           /\ DOMAIN Tasks = 1 .. Len(Tasks) /\ Len(Tasks) \in Nat /\ Tasks # <<>>
           /\ \A m, n \in DOMAIN Tasks : Tasks[m] = Tasks[n] => m = n
  <1>1. Tasks \in Seq(Range(Tasks))
    BY CampaignAssumption DEF Staged, Tasks, Inputs
  <1>2. lock.tasks = Tasks /\ Validated.tasks = Tasks
    BY DEF Staged, LockIsValidated, InputsHold
  <1>3. CommittedMembership(Tasks)
    BY <1>2, Variation DEF Staged, ReceiptsAreBuilt, BuildsVariant, BuildsVariantReceipts
  <1> HIDE DEF Tasks
  <1>4. DOMAIN Tasks = 1 .. Len(Tasks) /\ Len(Tasks) \in Nat
    BY <1>1
  <1> QED BY <1>1, <1>2, <1>3, <1>4 DEF CommittedMembership, IsInjective

\* Where the record of a task is among those the evaluation left.
PlaceOf(v, task) == CHOOSE i \in DOMAIN Raw(v) : RawTask(v, i) = task
TraceOf(v, n) == Raw(v)[PlaceOf(v, Tasks[n])].traces[1]

\* An evaluation left one trace for each record, and one record for each task.
LEMMA RawIs ==
    ASSUME Staged, NEW v \in Variants
    PROVE  /\ Raw(v) \in Seq(Range(Raw(v))) /\ Raw(v) # <<>>
           /\ DOMAIN Raw(v) = 1 .. Len(Raw(v)) /\ Len(Raw(v)) \in Nat
           /\ \A i \in DOMAIN Raw(v) :
                 /\ Len(Raw(v)[i].traces) = 1
                 /\ Raw(v)[i].traces[1].reward \in Int /\ Raw(v)[i].traces[1].tokens \in Int
           /\ \A i, j \in DOMAIN Raw(v) : RawTask(v, i) = RawTask(v, j) => i = j
           /\ {RawTask(v, i) : i \in DOMAIN Raw(v)} = Range(Tasks)
  <1>1. BuildsVariantResult(given.outputs[v], Validated)
    BY DEF Staged, ExecutedIsNormalized
  <1>2. /\ Raw(v) # <<>>
        /\ \A i \in DOMAIN Raw(v) : NormalizesEpisode(Raw(v)[i])
        /\ OrdersByMembership(Raw(v), Tasks)
    BY <1>1, TasksAre DEF BuildsVariantResult, RequireOutputFiles, NormalizesOutput, Raw
  <1>3. Raw(v) \in Seq(Range(Raw(v)))
    BY EvidenceAssumption DEF Staged, Raw
  <1>4. DOMAIN Raw(v) = 1 .. Len(Raw(v)) /\ Len(Raw(v)) \in Nat
    BY <1>3
  <1>5. ASSUME NEW i \in DOMAIN Raw(v)
        PROVE  /\ Len(Raw(v)[i].traces) = 1
               /\ Raw(v)[i].traces[1].reward \in Int /\ Raw(v)[i].traces[1].tokens \in Int
    <2> DEFINE traces == Raw(v)[i].traces
    <2>1. Len(traces) = 1
      BY <1>2 DEF NormalizesEpisode
    <2>2. /\ traces \in Seq(Range(traces))
          /\ \A t \in Range(traces) : t.reward \in Int /\ t.tokens \in Int
      BY EvidenceAssumption DEF Staged, Raw
    <2> HIDE DEF traces
    <2>3. 1 \in DOMAIN traces
      BY <2>1, <2>2
    <2>4. traces[1] \in Range(traces)
      BY <2>3 DEF Range
    <2> QED BY <2>1, <2>2, <2>4 DEF traces
  <1>6. /\ \A i, j \in DOMAIN Raw(v) : RawTask(v, i) = RawTask(v, j) => i = j
        /\ {RawTask(v, i) : i \in DOMAIN Raw(v)} = Range(Tasks)
    BY <1>2 DEF OrdersByMembership, RawTask
  <1> QED BY <1>2, <1>3, <1>4, <1>5, <1>6

\* The places of the tasks among the raw records are all of them, each once.
LEMMA PlacesAre ==
    ASSUME Staged, NEW v \in Variants
    PROVE  /\ \A n \in DOMAIN Tasks :
                 PlaceOf(v, Tasks[n]) \in DOMAIN Raw(v) /\ RawTask(v, PlaceOf(v, Tasks[n])) = Tasks[n]
           /\ \A m, n \in DOMAIN Tasks : PlaceOf(v, Tasks[m]) = PlaceOf(v, Tasks[n]) => m = n
           /\ \A i \in DOMAIN Raw(v) : \E n \in DOMAIN Tasks : PlaceOf(v, Tasks[n]) = i
  <1>1. Range(Tasks) = {Tasks[n] : n \in DOMAIN Tasks}
    BY DEF Range
  <1>2. /\ \A i, j \in DOMAIN Raw(v) : RawTask(v, i) = RawTask(v, j) => i = j
        /\ {RawTask(v, i) : i \in DOMAIN Raw(v)} = Range(Tasks)
    BY RawIs
  <1>3. ASSUME NEW n \in DOMAIN Tasks
        PROVE  PlaceOf(v, Tasks[n]) \in DOMAIN Raw(v) /\ RawTask(v, PlaceOf(v, Tasks[n])) = Tasks[n]
    <2>1. \E i \in DOMAIN Raw(v) : RawTask(v, i) = Tasks[n]
      BY <1>1, <1>2
    <2> QED BY <2>1 DEF PlaceOf
  <1>4. ASSUME NEW i \in DOMAIN Raw(v) PROVE \E n \in DOMAIN Tasks : PlaceOf(v, Tasks[n]) = i
    <2>1. PICK n \in DOMAIN Tasks : RawTask(v, i) = Tasks[n]
      BY <1>1, <1>2
    <2> QED BY <1>2, <1>3, <2>1
  <1>5. \A m, n \in DOMAIN Tasks : PlaceOf(v, Tasks[m]) = PlaceOf(v, Tasks[n]) => m = n
    BY <1>3, TasksAre
  <1> QED BY <1>3, <1>4, <1>5

\* What the worker has of a task is its raw record.
LEMMA EpisodesAre ==
    ASSUME Staged, NEW v \in Variants
    PROVE  /\ DOMAIN executed[v].episodes = DOMAIN Tasks
           /\ \A n \in DOMAIN Tasks :
                 /\ executed[v].episodes[n]
                       = NormalizeEpisode(Raw(v)[PlaceOf(v, Tasks[n])], Inputs[v])
                 /\ executed[v].episodes[n].task = Tasks[n]
                 /\ executed[v].episodes[n].ok = Raw(v)[PlaceOf(v, Tasks[n])].ok
                 /\ executed[v].episodes[n].traces = <<NormalizeTrace(TraceOf(v, n), Inputs[v])>>
                 /\ executed[v].episodes[n].traces[1] = NormalizeTrace(TraceOf(v, n), Inputs[v])
  <1>1. executed[v] = ExecutionOf(v)
    BY DEF Staged, ExecutedIsNormalized
  <1>2. executed[v].episodes = OrderByMembership(Raw(v), Validated, Inputs[v])
    BY <1>1 DEF ExecutionOf, BuildVariantResult, Raw
  <1>3. executed[v].episodes =
          [n \in DOMAIN Tasks |-> NormalizeEpisode(Raw(v)[PlaceOf(v, Tasks[n])], Inputs[v])]
    <2>1. OrderByMembership(Raw(v), Validated, Inputs[v]) =
            [n \in DOMAIN Validated.tasks |->
                NormalizeEpisode(Raw(v)[PlaceOf(v, Validated.tasks[n])], Inputs[v])]
      BY DEF OrderByMembership, PlaceOf, RawTask
    <2>2. Validated.tasks = Tasks
      BY TasksAre
    <2> QED BY <1>2, <2>1, <2>2
  <1>4. ASSUME NEW n \in DOMAIN Tasks
        PROVE  /\ executed[v].episodes[n].task = Tasks[n]
               /\ executed[v].episodes[n].ok = Raw(v)[PlaceOf(v, Tasks[n])].ok
               /\ executed[v].episodes[n].traces = <<NormalizeTrace(TraceOf(v, n), Inputs[v])>>
    <2> DEFINE raw == Raw(v)[PlaceOf(v, Tasks[n])]
    <2>1. executed[v].episodes[n] = NormalizeEpisode(raw, Inputs[v])
      BY <1>3
    <2>2. raw.traces[1] = TraceOf(v, n) /\ raw.traces[1].task = Tasks[n]
      BY PlacesAre DEF RawTask, TraceOf
    <2> HIDE DEF raw
    <2>3. /\ NormalizeEpisode(raw, Inputs[v]).task = raw.traces[1].task
          /\ NormalizeEpisode(raw, Inputs[v]).ok = raw.ok
          /\ NormalizeEpisode(raw, Inputs[v]).traces = <<NormalizeTrace(raw.traces[1], Inputs[v])>>
      BY DEF NormalizeEpisode
    <2>4. /\ executed[v].episodes[n].task = Tasks[n] /\ executed[v].episodes[n].ok = raw.ok
          /\ executed[v].episodes[n].traces = <<NormalizeTrace(TraceOf(v, n), Inputs[v])>>
      BY <2>1, <2>2, <2>3
    <2> QED BY <2>4 DEF raw
  <1>5. DOMAIN executed[v].episodes = DOMAIN Tasks
    BY <1>3
  <1>6. ASSUME NEW n \in DOMAIN Tasks
        PROVE  executed[v].episodes[n] = NormalizeEpisode(Raw(v)[PlaceOf(v, Tasks[n])], Inputs[v])
    BY <1>3
  <1>7. ASSUME NEW n \in DOMAIN Tasks
        PROVE  executed[v].episodes[n].traces[1] = NormalizeTrace(TraceOf(v, n), Inputs[v])
    <2> DEFINE trace == NormalizeTrace(TraceOf(v, n), Inputs[v])
    <2>1. executed[v].episodes[n].traces = <<trace>>
      BY <1>4
    <2> HIDE DEF trace
    <2>2. executed[v].episodes[n].traces[1] = trace
      BY <2>1
    <2> QED BY <2>2 DEF trace
  <1> QED BY <1>4, <1>5, <1>6, <1>7

\* The traces of a variant are those of its raw records.
LEMMA TracesAre ==
    ASSUME Staged, NEW v \in Variants
    PROVE  TracesOf(executed[v]) = {NormalizeTrace(TraceOf(v, n), Inputs[v]) : n \in DOMAIN Tasks}
  <1> DEFINE traces(n) == executed[v].episodes[n].traces
             trace(n)  == NormalizeTrace(TraceOf(v, n), Inputs[v])
  <1>1. ASSUME NEW n \in DOMAIN Tasks PROVE Range(traces(n)) = {trace(n)}
    <2>1. traces(n) = <<trace(n)>>
      BY EpisodesAre
    <2> HIDE DEF traces, trace
    <2> QED BY <2>1 DEF Range
  <1>2. TracesOf(executed[v]) = UNION {Range(traces(n)) : n \in DOMAIN Tasks}
    BY EpisodesAre DEF TracesOf
  <1> HIDE DEF traces, trace
  <1>3. TracesOf(executed[v]) = {trace(n) : n \in DOMAIN Tasks}
    BY <1>1, <1>2
  <1> QED BY <1>3 DEF trace

\* A receipt carries the reward of the raw record of its task.
LEMMA ReceiptsAre ==
    ASSUME Staged, NEW v \in Variants
    PROVE  /\ DOMAIN receipts[v] = DOMAIN Tasks
           /\ \A n \in DOMAIN Tasks :
                 /\ receipts[v][n].task = Tasks[n]
                 /\ receipts[v][n].reward = TraceOf(v, n).reward
                 /\ RewardOf(receipts[v], Tasks[n]) = TraceOf(v, n).reward
  <1>1. receipts[v] = VariantReceipts(Inputs.request, v, Inputs[v], executed[v], Tasks)
    BY TasksAre DEF Staged, ReceiptsAreBuilt, ReceiptsOf
  <1>2. receipts[v] =
          [n \in DOMAIN Tasks |-> BuildEpisodeReceipt(Inputs.request, v, Inputs[v],
                                                     EpisodeFor(executed[v], Tasks[n]))]
    BY <1>1 DEF VariantReceipts
  <1>3. ASSUME NEW n \in DOMAIN Tasks
        PROVE  EpisodeFor(executed[v], Tasks[n]) = executed[v].episodes[n]
    <2> DEFINE at == CHOOSE i \in DOMAIN executed[v].episodes : executed[v].episodes[i].task = Tasks[n]
    <2>1. n \in DOMAIN executed[v].episodes /\ executed[v].episodes[n].task = Tasks[n]
      BY EpisodesAre
    <2>2. at \in DOMAIN executed[v].episodes /\ executed[v].episodes[at].task = Tasks[n]
      BY <2>1
    <2> HIDE DEF at
    <2>3. at = n
      BY <2>2, EpisodesAre, TasksAre
    <2> QED BY <2>3 DEF EpisodeFor, at
  <1>4. ASSUME NEW n \in DOMAIN Tasks
        PROVE  receipts[v][n].task = Tasks[n] /\ receipts[v][n].reward = TraceOf(v, n).reward
    <2>1. receipts[v][n] = BuildEpisodeReceipt(Inputs.request, v, Inputs[v], executed[v].episodes[n])
      BY <1>2, <1>3
    <2>2. receipts[v][n].task = executed[v].episodes[n].task
          /\ receipts[v][n].reward = executed[v].episodes[n].traces[1].reward
      BY <2>1 DEF BuildEpisodeReceipt
    <2>3. /\ executed[v].episodes[n].task = Tasks[n]
          /\ executed[v].episodes[n].traces[1] = NormalizeTrace(TraceOf(v, n), Inputs[v])
      BY EpisodesAre
    <2>4. NormalizeTrace(TraceOf(v, n), Inputs[v]).reward = TraceOf(v, n).reward
      BY DEF NormalizeTrace
    <2> QED BY <2>2, <2>3, <2>4
  <1>5. ASSUME NEW n \in DOMAIN Tasks
        PROVE  RewardOf(receipts[v], Tasks[n]) = TraceOf(v, n).reward
    <2> DEFINE at == CHOOSE i \in DOMAIN receipts[v] : receipts[v][i].task = Tasks[n]
    <2>1. DOMAIN receipts[v] = DOMAIN Tasks
      BY <1>2
    <2>2. at \in DOMAIN receipts[v] /\ receipts[v][at].task = Tasks[n]
      BY <1>4, <2>1
    <2> HIDE DEF at
    <2>3. at = n
      BY <1>4, <2>1, <2>2, TasksAre
    <2> QED BY <1>4, <2>3 DEF RewardOf, at
  <1> QED BY <1>2, <1>4, <1>5

----------------------------------------------------------------------------
(* What a report tells of the raw evidence. *)

\* A report is made of what is staged.
Reported == Staged /\ Reportable(Inputs, Compare, receipts, Sets)

\* Lists, and sets whose elements match one to one, are of the same size.
LEMMA SizeOfAList ==
    ASSUME NEW n \in Nat PROVE IsFiniteSet(1 .. n) /\ Cardinality(1 .. n) = n
  <1>1. 1 \in Int /\ n \in Int /\ (IF 1 > n THEN 0 ELSE n - 1 + 1) = n
    OBVIOUS
  <1>2. IsFiniteSet(1 .. n) /\ Cardinality(1 .. n) = (IF 1 > n THEN 0 ELSE n - 1 + 1)
    BY <1>1, FS_Interval, Zenon
  <1> QED BY <1>1, <1>2

LEMMA SameSizes ==
    ASSUME NEW S, IsFiniteSet(S), NEW T, NEW h \in [S -> T],
           \A x, y \in S : h[x] = h[y] => x = y, \A y \in T : \E x \in S : h[x] = y
    PROVE  IsFiniteSet(T) /\ Cardinality(T) = Cardinality(S)
  <1>1. h \in Bijection(S, T)
    BY DEF Bijection, Injection, Surjection, IsInjective
  <1>2. ExistsBijection(S, T)
    BY <1>1 DEF ExistsBijection
  <1> QED BY <1>2, FS_Bijection

\* Each record the worker has of a rollout was let through by every gate.
LEMMA RolloutsPassed ==
    ASSUME Staged, NEW v \in Variants, NEW n \in DOMAIN Tasks
    PROVE  /\ Raw(v)[PlaceOf(v, Tasks[n])].ok
           /\ TraceOf(v, n).ok
           /\ NormalizeTrace(TraceOf(v, n), Inputs[v]) \in TracesOf(executed[v])
  <1> DEFINE trace == NormalizeTrace(TraceOf(v, n), Inputs[v])
  <1>1. VerifyVariantExecution(executed[v], Inputs[v], Validated)
    BY DEF Staged, ExecutedIsNormalized
  <1>2. executed[v].episodes[n].ok
    <2>1. MembershipChecks(executed[v], Validated)
      BY <1>1 DEF VerifyVariantExecution
    <2>2. n \in DOMAIN executed[v].episodes
      BY EpisodesAre
    <2> QED BY <2>1, <2>2 DEF MembershipChecks
  <1>3. Raw(v)[PlaceOf(v, Tasks[n])].ok
    BY <1>2, EpisodesAre
  <1>4. trace \in TracesOf(executed[v])
    BY TracesAre
  <1>5. trace.ok = TraceOf(v, n).ok
    BY DEF NormalizeTrace
  <1> HIDE DEF trace
  <1>6. trace.ok
    BY <1>1, <1>4 DEF VerifyVariantExecution, TraceChecks
  <1> QED BY <1>3, <1>4, <1>5, <1>6 DEF trace

\* The rewards a report is made of are numbers, none below zero.
LEMMA RewardsAre ==
    ASSUME Reported, NEW v \in Variants, NEW n \in DOMAIN Tasks
    PROVE  TraceOf(v, n).reward \in Int /\ TraceOf(v, n).reward >= 0
  <1>1. PairsRewards(receipts[v], Compare.tasks)
    BY DEF Reported, Reportable
  <1>2. \A i \in DOMAIN receipts[v] : receipts[v][i].reward >= 0
    BY <1>1 DEF PairsRewards
  <1>3. n \in DOMAIN receipts[v] /\ receipts[v][n].reward = TraceOf(v, n).reward
    BY ReceiptsAre DEF Reported
  <1>4. PlaceOf(v, Tasks[n]) \in DOMAIN Raw(v)
    BY PlacesAre DEF Reported
  <1>5. TraceOf(v, n).reward \in Int
    BY <1>4, RawIs DEF TraceOf, Reported
  <1> QED BY <1>2, <1>3, <1>5

\* Either side ran each task once and scored it.
LEMMA TasksWereScored == ASSUME Reported PROVE EveryTaskScoredOnce
  <1> SUFFICES ASSUME NEW v \in Variants
               PROVE  /\ \A i \in DOMAIN Raw(v) :
                            /\ Raw(v)[i].ok /\ Len(Raw(v)[i].traces) = 1
                            /\ Raw(v)[i].traces[1].ok /\ Raw(v)[i].traces[1].reward >= 0
                      /\ \A task \in Range(Tasks) :
                            Cardinality({i \in DOMAIN Raw(v) : RawTask(v, i) = task}) = 1
                      /\ Len(Raw(v)) = Len(Tasks)
    BY DEF EveryTaskScoredOnce, Tasks
  <1> DEFINE place == [n \in DOMAIN Tasks |-> PlaceOf(v, Tasks[n])]
  <1>1. Staged
    BY DEF Reported
  <1>2. /\ place \in [DOMAIN Tasks -> DOMAIN Raw(v)]
        /\ \A m, n \in DOMAIN Tasks : place[m] = place[n] => m = n
        /\ \A i \in DOMAIN Raw(v) : \E n \in DOMAIN Tasks : place[n] = i
    BY <1>1, PlacesAre
  <1>3. ASSUME NEW i \in DOMAIN Raw(v)
        PROVE  /\ Raw(v)[i].ok /\ Len(Raw(v)[i].traces) = 1
               /\ Raw(v)[i].traces[1].ok /\ Raw(v)[i].traces[1].reward >= 0
    <2>1. PICK n \in DOMAIN Tasks : PlaceOf(v, Tasks[n]) = i
      BY <1>1, PlacesAre
    <2>2. TraceOf(v, n) = Raw(v)[i].traces[1]
      BY <2>1 DEF TraceOf
    <2>3. Raw(v)[i].ok /\ TraceOf(v, n).ok
      BY <1>1, <2>1, RolloutsPassed
    <2>4. TraceOf(v, n).reward >= 0
      BY RewardsAre
    <2>5. Len(Raw(v)[i].traces) = 1
      BY <1>1, RawIs
    <2> QED BY <2>2, <2>3, <2>4, <2>5
  <1>4. ASSUME NEW task \in Range(Tasks)
        PROVE  Cardinality({i \in DOMAIN Raw(v) : RawTask(v, i) = task}) = 1
    <2>1. PICK n \in DOMAIN Tasks : Tasks[n] = task
      BY DEF Range
    <2> DEFINE found == {i \in DOMAIN Raw(v) : RawTask(v, i) = task}
               at    == PlaceOf(v, Tasks[n])
    <2>2. at \in DOMAIN Raw(v) /\ RawTask(v, at) = task
      BY <1>1, <2>1, PlacesAre
    <2>3. \A i \in found : i = at
      BY <1>1, <2>2, RawIs
    <2> HIDE DEF at
    <2>4. found = {at}
      BY <2>2, <2>3
    <2> HIDE DEF found
    <2>5. Cardinality(found) = 1
      BY <2>4, FS_Singleton, Zenon
    <2> QED BY <2>5 DEF found
  <1> HIDE DEF place
  <1>5. Len(Raw(v)) = Len(Tasks)
    <2>1. /\ DOMAIN Tasks = 1 .. Len(Tasks) /\ Len(Tasks) \in Nat
          /\ DOMAIN Raw(v) = 1 .. Len(Raw(v)) /\ Len(Raw(v)) \in Nat
      BY <1>1, TasksAre, RawIs
    <2>2. IsFiniteSet(DOMAIN Tasks) /\ Cardinality(DOMAIN Tasks) = Len(Tasks)
          /\ Cardinality(DOMAIN Raw(v)) = Len(Raw(v))
      BY <2>1, SizeOfAList
    <2>3. Cardinality(DOMAIN Raw(v)) = Cardinality(DOMAIN Tasks)
      BY <1>2, <2>2, SameSizes
    <2> QED BY <2>2, <2>3
  <1> QED BY <1>3, <1>4, <1>5

\* What the comparison sees of a side.
ObservedOf(v) == ObserveVariant(executed[v])

\* A comparison that is controlled passed every check.
LEMMA ChecksPassed ==
    ASSUME Reported
    PROVE  /\ MutationCheck(Inputs.campaign, Inputs.baseline, Inputs.candidate)
           /\ CompareManifests(Inputs.baseline, Inputs.candidate, Inputs.campaign).controlled
           /\ \A f \in TraceFields :
                 ObservedOf("baseline").config[f] = ObservedOf("candidate").config[f]
           /\ ObservedOf("baseline").platform = ObservedOf("candidate").platform
           /\ RuntimePinned(Inputs.campaign, ObservedOf("baseline"), ObservedOf("candidate"))
           /\ DeclaredToObserved(Inputs.baseline, ObservedOf("baseline"))
           /\ DeclaredToObserved(Inputs.candidate, ObservedOf("candidate"))
           /\ ToolSurface(ObservedOf("baseline"), ObservedOf("candidate"))
  <1> DEFINE campaign == Inputs.campaign
             left  == ObservedOf("baseline")
             right == ObservedOf("candidate")
             declared == DeclaredChecks(campaign, Inputs.baseline, Inputs.candidate,
                                        Inputs.comparison, lock)
             observed == ObservedChecks(campaign, Inputs.baseline, Inputs.candidate, left, right)
             paired == [paired |-> \A v \in Variants : PairsReceipts(receipts[v], lock.tasks)]
             groups == <<declared, observed, paired>>
  <1>1. Controlled(ComparisonStatus(groups, ~campaign.revision))
    BY DEF Reported, Reportable, Compare, CompareRealVariants, ObservedOf
  <1> HIDE DEF groups
  <1>2. \A i \in DOMAIN groups : \A c \in DOMAIN groups[i] : groups[i][c]
    BY <1>1 DEF Controlled, ComparisonStatus
  <1>3. 1 \in DOMAIN groups /\ 2 \in DOMAIN groups /\ groups[1] = declared /\ groups[2] = observed
    <2> HIDE DEF declared, observed, paired
    <2> QED BY DEF groups
  <1>4. /\ \A c \in DOMAIN declared : declared[c]
        /\ \A c \in DOMAIN observed : observed[c]
    <2> HIDE DEF declared, observed
    <2> QED BY <1>2, <1>3
  <1>5. /\ MutationCheck(campaign, Inputs.baseline, Inputs.candidate)
        /\ ManifestComparisonChecks(Inputs.comparison,
              CompareManifests(Inputs.baseline, Inputs.candidate, campaign))
    <2>1. /\ "declared_mutation" \in DOMAIN declared /\ "declared_comparison" \in DOMAIN declared
          /\ declared["declared_mutation"]
                = MutationCheck(campaign, Inputs.baseline, Inputs.candidate)
          /\ declared["declared_comparison"]
                = ManifestComparisonChecks(Inputs.comparison,
                     CompareManifests(Inputs.baseline, Inputs.candidate, campaign))
      BY DEF DeclaredChecks
    <2> HIDE DEF declared
    <2> QED BY <1>4, <2>1
  <1>6. /\ \A f \in TraceFields : left.config[f] = right.config[f]
        /\ left.platform = right.platform
        /\ RuntimePinned(campaign, left, right)
        /\ DeclaredToObserved(Inputs.baseline, left)
        /\ DeclaredToObserved(Inputs.candidate, right)
        /\ ToolSurface(left, right)
    <2>1. /\ {"observed_shared", "observed_pins", "observed_baseline", "observed_candidate",
              "observed_tools"} \subseteq DOMAIN observed
          /\ observed["observed_shared"]
                = (/\ \A f \in TraceFields : left.config[f] = right.config[f]
                   /\ left.platform = right.platform)
          /\ observed["observed_pins"] = RuntimePinned(campaign, left, right)
          /\ observed["observed_baseline"] = DeclaredToObserved(Inputs.baseline, left)
          /\ observed["observed_candidate"] = DeclaredToObserved(Inputs.candidate, right)
          /\ observed["observed_tools"] = ToolSurface(left, right)
      BY DEF ObservedChecks
    <2> HIDE DEF observed
    <2> QED BY <1>4, <2>1
  <1> QED BY <1>5, <1>6 DEF ManifestComparisonChecks

\* The rollouts of a variant are one configuration, the one it is observed by.
LEMMA OneConfiguration ==
    ASSUME Staged, NEW v \in Variants
    PROVE  /\ \A n \in DOMAIN Tasks : TraceOf(v, n).config = ObservedOf(v).config
           /\ \A n \in DOMAIN Tasks : TraceOf(v, n).config["build"] = "declared"
           /\ 1 \in DOMAIN Tasks /\ ObservedOf(v).tools = TraceOf(v, 1).tools
           /\ \A n \in DOMAIN Tasks :
                 DOMAIN TraceOf(v, n).tools = DOMAIN ObservedOf(v).tools
           /\ ObservedOf(v).skills = given.outputs[v].resolved.skills
           /\ ObservedOf(v).platform = given.images[v].platform
  <1> DEFINE execution == executed[v]
             some  == {i \in DOMAIN execution.episodes : execution.episodes[i].traces # <<>>}
             first == Min(some)
             trace(n) == NormalizeTrace(TraceOf(v, n), Inputs[v])
  <1>1. BuildsVariant(v)
    BY DEF Staged, ReceiptsAreBuilt
  <1>2. NoDrift(TracesOf(execution))
    BY <1>1 DEF BuildsVariant, Observes
  <1>3. first = 1 /\ first \in DOMAIN Tasks
    <2>1. /\ DOMAIN execution.episodes = 1 .. Len(Tasks) /\ Len(Tasks) \in Nat
          /\ DOMAIN Tasks = 1 .. Len(Tasks) /\ Tasks # <<>>
      BY EpisodesAre, TasksAre
    <2>2. 1 \in DOMAIN Tasks
      <3>1. Len(Tasks) # 0
        BY <2>1, TasksAre
      <3> QED BY <2>1, <3>1
    <2>3. execution.episodes[1].traces # <<>>
      <3> DEFINE one == NormalizeTrace(TraceOf(v, 1), Inputs[v])
      <3>1. execution.episodes[1].traces = <<one>>
        BY <2>2, EpisodesAre
      <3> HIDE DEF one
      <3> QED BY <3>1
    <2>4. 1 \in some /\ some \subseteq 1 .. Len(Tasks)
      BY <2>1, <2>2, <2>3
    <2> HIDE DEF some
    <2>5. \A y \in some : 1 <= y /\ (y <= 1 => y = 1)
      BY <2>1, <2>4
    <2>6. Min(some) = 1
      BY <2>4, <2>5 DEF Min
    <2> QED BY <2>2, <2>6
  <1>4. ReferenceTrace(execution) = trace(first)
    <2>1. ReferenceTrace(execution) = execution.episodes[first].traces[1]
      BY DEF ReferenceTrace
    <2> HIDE DEF first
    <2> QED BY <1>3, <2>1, EpisodesAre
  <1>5. \A n \in DOMAIN Tasks : trace(n) \in TracesOf(execution)
    BY RolloutsPassed
  <1>6. \A n \in DOMAIN Tasks :
          trace(n).config = TraceOf(v, n).config /\ trace(n).tools = TraceOf(v, n).tools
    BY DEF NormalizeTrace
  <1>7. /\ ObservedOf(v).config = ReferenceTrace(execution).config
        /\ ObservedOf(v).tools = ReferenceTrace(execution).tools
    BY DEF ObservedOf, ObserveVariant
  <1>8. PinCheck(execution)
    BY DEF Staged, ExecutedIsNormalized, VerifyVariantExecution
  <1>9. /\ ObservedOf(v).skills = given.outputs[v].resolved.skills
        /\ ObservedOf(v).platform = given.images[v].platform
    <2>1. /\ ObservedOf(v).skills = execution.resolved.skills
          /\ ObservedOf(v).platform = execution.image.platform
      BY DEF ObservedOf, ObserveVariant
    <2>2. execution = ExecutionOf(v)
      BY DEF Staged, ExecutedIsNormalized
    <2>3. /\ ExecutionOf(v).resolved = given.outputs[v].resolved
          /\ ExecutionOf(v).image.platform = given.images[v].platform
      BY DEF ExecutionOf, BuildVariantResult
    <2> QED BY <2>1, <2>2, <2>3
  <1> HIDE DEF first, trace, execution
  <1>10. ASSUME NEW n \in DOMAIN Tasks
         PROVE  TraceOf(v, n).config = ObservedOf(v).config
    <2>1. trace(n).config = trace(first).config
      BY <1>2, <1>3, <1>5 DEF NoDrift
    <2> QED BY <1>4, <1>6, <1>7, <2>1
  <1>11. ASSUME NEW n \in DOMAIN Tasks
         PROVE  TraceOf(v, n).config["build"] = "declared"
    <2>1. trace(n).config["build"] = "declared"
      BY <1>5, <1>8 DEF PinCheck
    <2> QED BY <1>6, <2>1
  <1>12. 1 \in DOMAIN Tasks /\ ObservedOf(v).tools = TraceOf(v, 1).tools
    BY <1>3, <1>4, <1>6, <1>7
  <1>13. ASSUME NEW n \in DOMAIN Tasks
         PROVE  DOMAIN TraceOf(v, n).tools = DOMAIN ObservedOf(v).tools
    <2>1. DOMAIN trace(n).tools = DOMAIN trace(first).tools
      BY <1>2, <1>3, <1>5 DEF NoDrift, ToolNames
    <2> QED BY <1>3, <1>6, <1>12, <2>1
  <1> QED BY <1>9, <1>10, <1>11, <1>12, <1>13

\* Of two configurations only the Skills may differ where only they are allowed
\* to.
LEMMA NothingElseDiffers ==
    ASSUME Reported
    PROVE  Inputs.baseline.configuration.shared = Inputs.candidate.configuration.shared
  <1> DEFINE left  == Inputs.baseline.configuration
             right == Inputs.candidate.configuration
             differences == DiffValues(left, right)
  <1>1. PointerViolations(differences, Inputs.campaign.allowed) = {}
    BY ChecksPassed DEF CompareManifests
  <1>2. Inputs.campaign.allowed = {SkillRoot}
    BY CampaignAssumption DEF Reported, Staged, Inputs, CampaignContract, MutationContract
  <1> HIDE DEF left, right
  <1>3. ASSUME NEW f \in Fields PROVE left.shared[f] = right.shared[f]
    <2> SUFFICES ASSUME left.shared[f] # right.shared[f] PROVE FALSE
      OBVIOUS
    <2>1. PointerOf(f) \in differences
      BY DEF DiffValues
    <2>2. ~PointerIsWithin(PointerOf(f), SkillRoot)
      <3>1. Len(SkillRoot) = 4 /\ Len(PointerOf(f)) = 1
        BY DEF SkillRoot, PointerOf
      <3> QED BY <3>1 DEF PointerIsWithin, IsPrefix
    <2> HIDE DEF differences
    <2> QED BY <1>1, <1>2, <2>1, <2>2 DEF PointerViolations
  <1>4. left.shared = [f \in Fields |-> left.shared[f]] /\ right.shared = [f \in Fields |-> right.shared[f]]
    BY CampaignAssumption, Variation DEF Reported, Staged, Inputs, left, right
  <1>5. left.shared = right.shared
    BY <1>3, <1>4
  <1> QED BY <1>5 DEF left, right

\* The tools of the first task's rollouts were compared, and those of the others
\* by name.
LEMMA OneToolSurfaceOffered == ASSUME Reported PROVE OneToolSurface
  <1>1. Staged
    BY DEF Reported
  <1>2. /\ ToolSurface(ObservedOf("baseline"), ObservedOf("candidate"))
        /\ Variants = {"baseline", "candidate"}
    BY ChecksPassed DEF Variants
  <1>3. ASSUME NEW v \in Variants
        PROVE  /\ DOMAIN ObservedOf(v).tools = DOMAIN PinnedTools
               /\ \A name \in DOMAIN PinnedTools :
                     ObservedOf(v).tools[name].schema = PinnedTools[name]
    BY <1>2 DEF ToolSurface, Conforms
  <1>4. ASSUME NEW t \in RawTraces PROVE ToolNames(t) = DOMAIN PinnedTools
    <2>1. PICK v \in Variants : \E i \in DOMAIN Raw(v) : t = Raw(v)[i].traces[1]
      BY DEF RawTraces
    <2>2. PICK i \in DOMAIN Raw(v) : t = Raw(v)[i].traces[1]
      BY <2>1
    <2>3. PICK n \in DOMAIN Tasks : PlaceOf(v, Tasks[n]) = i
      BY <1>1, PlacesAre
    <2>4. TraceOf(v, n) = t
      BY <2>2, <2>3 DEF TraceOf
    <2> QED BY <1>1, <1>3, <2>4, OneConfiguration DEF ToolNames
  <1>5. ASSUME NEW v \in Variants
        PROVE  RawTrace(v, Inputs.campaign.tasks[1]).tools = ObservedOf(v).tools
    <2>1. RawTrace(v, Inputs.campaign.tasks[1]) = TraceOf(v, 1)
      BY DEF RawTrace, TraceOf, PlaceOf, Tasks
    <2> QED BY <1>1, <2>1, OneConfiguration
  <1> DEFINE offered == [v \in Variants |-> RawTrace(v, Inputs.campaign.tasks[1]).tools]
  <1>6. \A v \in Variants : offered[v] = ObservedOf(v).tools
    BY <1>5
  <1> HIDE DEF offered
  <1>7. \A name \in DOMAIN PinnedTools :
          /\ \A v \in Variants : offered[v][name].schema = PinnedTools[name]
          /\ offered["baseline"][name].text = offered["candidate"][name].text
               \/ name = SkillIndexTool
    <2>1. \A name \in DOMAIN PinnedTools :
            \/ ObservedOf("baseline").tools[name].text
                  = ObservedOf("candidate").tools[name].text
            \/ name = SkillIndexTool
      BY <1>2 DEF ToolSurface, Conforms
    <2> QED BY <1>2, <1>3, <1>6, <2>1
  <1> QED BY <1>4, <1>7 DEF OneToolSurface, offered

\* The raw evidence of the sides differs in what the Campaign mutates, no more,
\* as far as it is looked at.
LEMMA OnlyTheSkillsDiffered == ASSUME Reported PROVE OneControlledDifference
  <1>1. Staged
    BY DEF Reported
  <1>2. Variants = {"baseline", "candidate"}
    BY DEF Variants
  <1>3. ASSUME NEW v \in Variants, NEW i \in DOMAIN Raw(v)
        PROVE  /\ Raw(v)[i].traces[1].config = ObservedOf(v).config
               /\ Raw(v)[i].traces[1].config["build"] = "declared"
    <2>1. PICK n \in DOMAIN Tasks : PlaceOf(v, Tasks[n]) = i
      BY <1>1, PlacesAre
    <2>2. TraceOf(v, n) = Raw(v)[i].traces[1]
      BY <2>1 DEF TraceOf
    <2> QED BY <1>1, <2>2, OneConfiguration
  <1>4. ASSUME NEW v \in Variants
        PROVE  /\ DeclaredToObserved(Inputs[v], ObservedOf(v))
               /\ ObservedOf(v).config["index"] = Inputs.campaign.runtime.index
    BY <1>2, ChecksPassed DEF RuntimePinned
  <1>5. ASSUME NEW v \in Variants, NEW i \in DOMAIN Raw(v), NEW f \in TraceFields \ {"rewards"}
        PROVE  Raw(v)[i].traces[1].config[f] = Declared(v)[f]
    <2> DEFINE config == Raw(v)[i].traces[1].config
               shared == Inputs[v].configuration.shared
    <2>1. /\ config["model"] = shared["model"] /\ config["sampling"] = shared["sampling"]
          /\ config["harness"] = shared["harness"] /\ config["version"] = shared["harness"]
          /\ config["bundled"] = shared["harness"] /\ config["kind"] = shared["runtime"]
          /\ config["image"] = shared["runtime"]
          /\ config["index"] = Inputs.campaign.runtime.index /\ config["build"] = "declared"
      BY <1>3, <1>4 DEF DeclaredToObserved
    <2>2. f \in {"model", "sampling", "harness", "version", "bundled", "kind", "image",
                 "index", "build"}
      BY DEF TraceFields
    <2> HIDE DEF config
    <2>3. config[f] = Declared(v)[f]
      BY <2>1, <2>2 DEF Declared
    <2> QED BY <2>3 DEF config
  <1>6. ASSUME NEW t \in RawTraces, NEW u \in RawTraces
        PROVE  t.config["rewards"] = u.config["rewards"]
    <2>1. PICK v \in Variants : \E i \in DOMAIN Raw(v) : t = Raw(v)[i].traces[1]
      BY DEF RawTraces
    <2>2. PICK w \in Variants : \E i \in DOMAIN Raw(w) : u = Raw(w)[i].traces[1]
      BY DEF RawTraces
    <2>3. t.config = ObservedOf(v).config /\ u.config = ObservedOf(w).config
      BY <1>3, <2>1, <2>2
    <2>4. "rewards" \in TraceFields
      BY DEF TraceFields
    <2>5. ObservedOf("baseline").config["rewards"] = ObservedOf("candidate").config["rewards"]
      BY <2>4, ChecksPassed
    <2> QED BY <1>2, <2>3, <2>5
  <1>7. ASSUME NEW v \in Variants
        PROVE  given.outputs[v].resolved.skills = Inputs[v].configuration.skills
    BY <1>1, <1>4, OneConfiguration DEF DeclaredToObserved
  <1>8. Inputs.baseline.configuration.skills # Inputs.candidate.configuration.skills
    <2>1. MutationCheck(Inputs.campaign, Inputs.baseline, Inputs.candidate)
      BY ChecksPassed
    <2>2. PICK left, right : left = Inputs.baseline.configuration.skills
                             /\ right = Inputs.candidate.configuration.skills
      OBVIOUS
    <2>3. (left = <<>> /\ Len(right) = 1) \/ left # right
      BY <2>1, <2>2 DEF MutationCheck
    <2>4. Len(<<>>) = 0
      OBVIOUS
    <2>5. left # right
      <3> SUFFICES ASSUME left = <<>>, Len(right) = 1, left = right PROVE FALSE
        BY <2>3
      <3>1. Len(left) = 0
        BY <2>4, Zenon
      <3> QED BY <3>1
    <2> QED BY <2>2, <2>5
  <1>9. given.images.baseline.platform = given.images.candidate.platform
    BY <1>1, ChecksPassed, OneConfiguration, Variation
  <1> QED BY <1>5, <1>6, <1>7, <1>8, <1>9, NothingElseDiffers, OneToolSurfaceOffered
          DEF OneControlledDifference

\* The worker decides on the raw rewards, added up in the order of the tasks.
LEMMA RewardsAdded ==
    ASSUME Reported
    PROVE  LET primary == PrimaryResult(TaskDeltas(receipts, Compare.tasks))
           IN  /\ primary.delta \in Int
               /\ primary.delta
                    = SumFunction([task \in Range(Tasks) |->
                         RawReward("candidate", task) - RawReward("baseline", task)])
  <1> DEFINE deltas == TaskDeltas(receipts, Tasks)
             side(v) == [n \in DOMAIN Tasks |-> TraceOf(v, n).reward]
             less == [n \in DOMAIN Tasks |->
                        TraceOf("candidate", n).reward - TraceOf("baseline", n).reward]
             gain == [task \in Range(Tasks) |->
                        RawReward("candidate", task) - RawReward("baseline", task)]
             place == [n \in DOMAIN Tasks |-> Tasks[n]]
  <1>1. Staged /\ Compare.tasks = Tasks
    BY TasksAre DEF Reported, Compare, CompareRealVariants
  <1>2. /\ DOMAIN deltas = DOMAIN Tasks
        /\ \A n \in DOMAIN Tasks :
              /\ deltas[n]["candidate"] = TraceOf("candidate", n).reward
              /\ deltas[n]["baseline"] = TraceOf("baseline", n).reward
    <2>1. DOMAIN deltas = DOMAIN Tasks
      BY DEF TaskDeltas
    <2>2. ASSUME NEW n \in DOMAIN Tasks
          PROVE  /\ deltas[n]["candidate"] = RewardOf(receipts["candidate"], Tasks[n])
                 /\ deltas[n]["baseline"] = RewardOf(receipts["baseline"], Tasks[n])
      BY DEF TaskDeltas
    <2> HIDE DEF deltas
    <2> QED BY <1>1, <2>1, <2>2, ReceiptsAre, Variation
  <1>3. PrimaryResult(deltas).delta = SumFunction(side("candidate")) - SumFunction(side("baseline"))
    <2>1. PrimaryResult(deltas).delta =
            SumFunction([n \in DOMAIN deltas |-> deltas[n]["candidate"]])
              - SumFunction([n \in DOMAIN deltas |-> deltas[n]["baseline"]])
      BY DEF PrimaryResult
    <2> HIDE DEF deltas
    <2>2. [n \in DOMAIN deltas |-> deltas[n]["candidate"]] = side("candidate")
      BY <1>2
    <2>3. [n \in DOMAIN deltas |-> deltas[n]["baseline"]] = side("baseline")
      BY <1>2
    <2> QED BY <2>1, <2>2, <2>3
  <1>4. /\ DOMAIN Tasks = 1 .. Len(Tasks) /\ Len(Tasks) \in Nat
        /\ \A m, n \in DOMAIN Tasks : Tasks[m] = Tasks[n] => m = n
        /\ Range(Tasks) = {Tasks[n] : n \in DOMAIN Tasks}
    BY <1>1, TasksAre DEF Range
  <1>5. IsFiniteSet(DOMAIN Tasks)
    BY <1>4, SizeOfAList
  <1>6. /\ place \in [DOMAIN Tasks -> Range(Tasks)]
        /\ \A m, n \in DOMAIN Tasks : place[m] = place[n] => m = n
        /\ \A task \in Range(Tasks) : \E n \in DOMAIN Tasks : place[n] = task
    BY <1>4
  <1>7. IsFiniteSet(Range(Tasks))
    <2> HIDE DEF place
    <2> QED BY <1>5, <1>6, SameSizes
  <1>8. \A v \in Variants : \A n \in DOMAIN Tasks : TraceOf(v, n).reward \in Int
    BY RewardsAre
  <1>9. /\ Counts(side("candidate")) /\ Counts(side("baseline")) /\ Counts(less)
        /\ DOMAIN less = DOMAIN Tasks
        /\ \A n \in DOMAIN Tasks : less[n] = side("candidate")[n] - side("baseline")[n]
    BY <1>5, <1>8, Variation DEF Counts
  <1>10. \A v \in Variants : \A n \in DOMAIN Tasks : RawReward(v, Tasks[n]) = TraceOf(v, n).reward
    BY DEF RawReward, RawTrace, TraceOf, PlaceOf
  <1>11. \A n \in DOMAIN Tasks : less[n] = gain[Tasks[n]] /\ gain[Tasks[n]] \in Int
    BY <1>4, <1>8, <1>10, Variation
  <1>12. Counts(gain)
    <2>1. DOMAIN gain = Range(Tasks)
      OBVIOUS
    <2> HIDE DEF gain
    <2> QED BY <1>4, <1>7, <1>11, <2>1 DEF Counts
  <1>13. DOMAIN side("candidate") = DOMAIN Tasks /\ DOMAIN side("baseline") = DOMAIN Tasks
         /\ DOMAIN gain = Range(Tasks) /\ \A n \in DOMAIN Tasks : less[n] = gain[place[n]]
    BY <1>11
  <1>14. PICK left, right : left = side("candidate") /\ right = side("baseline")
    OBVIOUS
  <1> HIDE DEF side, less, gain, place, deltas
  <1>15. /\ SumFunction(less) = SumFunction(left) - SumFunction(right)
         /\ SumFunction(left) \in Int /\ SumFunction(right) \in Int
    BY <1>9, <1>13, <1>14, DifferenceOfSums
  <1>16. SumFunction(less) = SumFunction(gain)
    BY <1>6, <1>9, <1>12, <1>13, SameSums
  <1> QED BY <1>1, <1>3, <1>14, <1>15, <1>16 DEF deltas, gain

\* The decision is what the scoring rule says of the raw rewards.
LEMMA DecisionsFollow ==
    ASSUME Reported
    PROVE  DecisionFollows(DecideUplift(Inputs.campaign.scoring, Compare.status,
                               PrimaryResult(TaskDeltas(receipts, Compare.tasks)),
                               Compare.tasks))
  <1> DEFINE scoring == Inputs.campaign.scoring
             primary == PrimaryResult(TaskDeltas(receipts, Compare.tasks))
             decision == DecideUplift(scoring, Compare.status, primary, Compare.tasks)
             gain == SumFunction([task \in Range(Tasks) |->
                        RawReward("candidate", task) - RawReward("baseline", task)])
  <1>1. Staged /\ Compare.tasks = Tasks /\ Controlled(Compare.status)
    BY TasksAre DEF Reported, Reportable, Compare, CompareRealVariants
  <1>2. primary.delta = gain /\ gain \in Int
    BY RewardsAdded
  <1>3. Cardinality(Range(Tasks)) = Len(Tasks) /\ Len(Tasks) \in Nat
    <2> DEFINE place == [n \in DOMAIN Tasks |-> Tasks[n]]
    <2>1. /\ DOMAIN Tasks = 1 .. Len(Tasks) /\ Len(Tasks) \in Nat
          /\ \A m, n \in DOMAIN Tasks : Tasks[m] = Tasks[n] => m = n
          /\ Range(Tasks) = {Tasks[n] : n \in DOMAIN Tasks}
      BY <1>1, TasksAre DEF Range
    <2>2. /\ place \in [DOMAIN Tasks -> Range(Tasks)]
          /\ \A m, n \in DOMAIN Tasks : place[m] = place[n] => m = n
          /\ \A task \in Range(Tasks) : \E n \in DOMAIN Tasks : place[n] = task
      BY <2>1
    <2>3. IsFiniteSet(DOMAIN Tasks) /\ Cardinality(DOMAIN Tasks) = Len(Tasks)
      BY <2>1, SizeOfAList
    <2> HIDE DEF place
    <2>4. Cardinality(Range(Tasks)) = Cardinality(DOMAIN Tasks)
      BY <2>2, <2>3, SameSizes
    <2> QED BY <2>1, <2>3, <2>4
  <1>4. scoring.above \in BOOLEAN /\ scoring.minimum \in Nat
    BY <1>1, CampaignAssumption DEF Staged, Inputs
  <1>5. PICK least : least = scoring.minimum * Len(Tasks)
    OBVIOUS
  <1>6. least \in Int
    BY <1>3, <1>4, <1>5
  <1>7. decision = IF ~scoring.above /\ scoring.minimum = 0 THEN "inconclusive"
                   ELSE IF (scoring.above /\ gain <= 0) \/ gain < least
                        THEN "rejected" ELSE "accepted"
    <2>1. decision = IF ~scoring.above /\ scoring.minimum = 0 THEN "inconclusive"
                     ELSE IF (scoring.above /\ primary.delta <= 0) \/ primary.delta < least
                          THEN "rejected" ELSE "accepted"
      <3> HIDE DEF primary, scoring
      <3>1. (~scoring.above /\ scoring.minimum = 0) \/ scoring.above \/ scoring.minimum > 0
        BY <1>4
      <3>2. ~(scoring.minimum = 0 /\ scoring.minimum > 0)
        BY <1>4
      <3> QED BY <1>1, <1>4, <1>5, <3>1, <3>2 DEF DecideUplift
    <2> QED BY <1>2, <2>1
  <1> HIDE DEF decision, primary, gain
  <1>8. /\ decision = "accepted" =>
              /\ scoring.above => gain > 0
              /\ gain >= least
              /\ scoring.above \/ scoring.minimum > 0
        /\ decision = "rejected" => (scoring.above /\ gain <= 0) \/ gain < least
    <2> HIDE DEF scoring
    <2> QED BY <1>2, <1>4, <1>6, <1>7
  <1>9. least = scoring.minimum * Cardinality(Range(Tasks))
    BY <1>3, <1>5
  <1> QED BY <1>8, <1>9 DEF DecisionFollows, decision, primary, gain, scoring, Tasks

----------------------------------------------------------------------------
(* What is staged stays as it is once a report was made. *)

\* The steps at which a worker has the lock, the evaluations, the inputs and
\* the receipts its report is made of.
Paired   == {"compare", "report"}
Admitted == {"key", "publish_key", "receipts"} \cup Paired
Measured == {"inputs"} \cup Admitted
Planned  == {"plan", "run", "normalize"} \cup Measured

Staging ==
    /\ pc \in {"preflight", "validate"} => lock = Nothing
    /\ pc \in Planned => LockIsValidated
    /\ pc \in Measured => ExecutedIsNormalized
    /\ pc \in Admitted => InputsHold
    /\ pc \in Paired => ReceiptsAreBuilt

\* The report of what is staged, the proof it is written into, and whether the
\* machine attests to it.
ReportOf(attested) == BuildUpliftReport(Inputs, Compare, receipts, attested)
Attested ==
    AssessLocalAttestation(Inputs, lock, ExecutorIdentity(Key), Envelopes, Compare.status,
                           SummarizeScores(receipts))
ProofOf(attested) ==
    [key |-> Key, inputs |-> Inputs, lock |-> lock, receipts |-> receipts, sets |-> Sets,
     report |-> ReportOf(attested),
     record |-> ExecutionRecord(Inputs.request, executed, given.children)]

\* What is staged stays as it was once a report was made of it.
ReportStands ==
    /\ proof # Nothing /\ ~IsFake => Reported /\ proof = ProofOf(Attested)
    /\ proof # Nothing /\ IsFake =>
          /\ report = DevelopmentReport(Inputs, receipts)
          /\ AggregatesFakeResults(receipts, Inputs.campaign.tasks)

\* The result a run records is the report of its proof.
ResultStands ==
    /\ pc \in {"record", "complete"} => proof # Nothing
    /\ pc = "complete" => result = report
    /\ phase = "completed" => ~Working /\ proof # Nothing /\ result = report

StageInv == Inv /\ Staging /\ ReportStands /\ ResultStands

\* What is staged is made of these four.
LEMMA Framed ==
    ASSUME UNCHANGED <<given, lock, executed, receipts>>
    PROVE  /\ LockIsValidated <=> LockIsValidated'
           /\ ExecutedIsNormalized <=> ExecutedIsNormalized'
           /\ InputsHold <=> InputsHold'
           /\ ReceiptsAreBuilt <=> ReceiptsAreBuilt'
           /\ Reported <=> Reported'
           /\ ProofOf(Attested)' = ProofOf(Attested)
           /\ IsFake' = IsFake /\ Inputs' = Inputs
  <1>1. Inputs' = Inputs /\ Validated' = Validated /\ IsFake' = IsFake /\ Tasks' = Tasks
    BY DEF Inputs, Validated, IsFake, Tasks
  <1>2. \A v \in Variants : ExecutionOf(v)' = ExecutionOf(v) /\ ReceiptsOf(v)' = ReceiptsOf(v)
    BY <1>1 DEF ExecutionOf, ReceiptsOf
  <1>3. \A v \in Variants : SetOf(v)' = SetOf(v) /\ (BuildsVariant(v)' <=> BuildsVariant(v))
    BY <1>1, <1>2 DEF SetOf, BuildsVariant
  <1>4. Compare' = Compare /\ Sets' = Sets
    BY <1>1, <1>3 DEF Compare, Sets
  <1>5. LockIsValidated <=> LockIsValidated'
    BY <1>1 DEF LockIsValidated
  <1>6. ExecutedIsNormalized <=> ExecutedIsNormalized'
    BY <1>1, <1>2 DEF ExecutedIsNormalized
  <1>7. InputsHold <=> InputsHold'
    BY <1>1 DEF InputsHold
  <1>8. ReceiptsAreBuilt <=> ReceiptsAreBuilt'
    BY <1>1, <1>2, <1>3 DEF ReceiptsAreBuilt
  <1>9. Reported <=> Reported'
    BY <1>1, <1>4, <1>5, <1>6, <1>7, <1>8 DEF Reported, Staged
  <1>10. ProofOf(Attested)' = ProofOf(Attested)
    <2>1. Attested' = Attested
      BY <1>1, <1>4 DEF Attested, Envelopes
    <2> QED BY <1>1, <1>4, <2>1 DEF ProofOf, ReportOf
  <1> QED BY <1>1, <1>5, <1>6, <1>7, <1>8, <1>9, <1>10

\* A step that leaves what is staged alone, and asks no more of it.
LEMMA StagingStays ==
    ASSUME Staging, UNCHANGED <<given, lock, executed, receipts>>,
           \/ pc' = pc
           \/ pc' \notin Planned \cup {"preflight", "validate"}
           \/ <<pc, pc'>> \in {<<"preflight", "validate">>, <<"plan", "run">>,
                               <<"run", "normalize">>, <<"key", "publish_key">>,
                               <<"publish_key", "key">>, <<"key", "receipts">>,
                               <<"compare", "report">>}
    PROVE  Staging'
  <1>1. /\ pc' \in Planned => pc \in Planned
        /\ pc' \in Measured => pc \in Measured
        /\ pc' \in Admitted => pc \in Admitted
        /\ pc' \in Paired => pc \in Paired
        /\ pc' \in {"preflight", "validate"} => pc \in {"preflight", "validate"}
    BY DEF Planned, Measured, Admitted, Paired
  <1> QED BY <1>1, Framed DEF Staging

\* So does the report, and the proof it is in.
LEMMA ReportStays ==
    ASSUME ReportStands, UNCHANGED <<given, lock, executed, receipts, proof>>
    PROVE  ReportStands' /\ report' = report
  <1>1. report' = report
    BY DEF report
  <1>2. /\ Reported <=> Reported'
        /\ ProofOf(Attested)' = ProofOf(Attested)
        /\ IsFake' = IsFake /\ Inputs' = Inputs
    BY Framed
  <1> QED BY <1>1, <1>2 DEF ReportStands

\* A step of a worker that makes no report and records none.
LEMMA StageMoves ==
    ASSUME StageInv, Inv', Staging', UNCHANGED proof,
           UNCHANGED <<given, lock, executed, receipts>> \/ pc \in Early,
           Working, phase' # "completed", pc' \notin {"record", "complete"}
    PROVE  StageInv'
  <1>1. ReportStands'
    <2>1. CASE pc \in Early
      BY <2>1 DEF StageInv, Inv, ProofOK, ReportStands
    <2>2. CASE UNCHANGED <<given, lock, executed, receipts>>
      BY <2>2, ReportStays DEF StageInv
    <2> QED BY <2>1, <2>2
  <1>2. ResultStands'
    BY DEF ResultStands
  <1> QED BY <1>1, <1>2 DEF StageInv

\* A run does not complete while its worker works; a step that refuses ends it.
LEMMA NeverCompleted ==
    ASSUME StageInv, Working PROVE phase # "completed"
  BY DEF StageInv, ResultStands

LEMMA StageRefuses ==
    ASSUME StageInv, Working, NEW step, Refuses(step) \/ Cancels(step), Keeps
    PROVE  StageInv'
  <1>1. /\ pc' = "exited" /\ phase' # "completed"
        /\ UNCHANGED <<given, lock, executed, receipts, proof>>
    BY NeverCompleted DEF Refuses, Cancels, Keeps, work, Ended
  <1>2. Inv'
    BY Refusing DEF StageInv
  <1>3. Staging'
    BY <1>1, StagingStays DEF StageInv, Planned, Measured, Admitted, Paired
  <1> QED BY <1>1, <1>2, <1>3, StageMoves

\* The steps of the worker, one at a time.
LEMMA StageRealMoves ==
    ASSUME StageInv, Inv',
           \/ Preflight \/ PlanPair \/ RunChildren \/ EnsureIdentity \/ PublishKey
           \/ VerifyComparison
    PROVE  StageInv'
  <1>1. identity \in {"none", "half", "whole"}
    BY DEF StageInv, Inv, GivenOK
  <1>2. /\ Working /\ UNCHANGED <<given, lock, executed, receipts, proof>>
        /\ phase' # "completed" \/ phase' = phase
        /\ \/ pc' = "exited"
           \/ <<pc, pc'>> \in {<<"preflight", "validate">>, <<"plan", "run">>,
                               <<"run", "normalize">>, <<"key", "publish_key">>,
                               <<"publish_key", "key">>, <<"key", "receipts">>,
                               <<"compare", "report">>}
    <2>1. CASE Preflight
      BY <2>1 DEF Preflight, Refuses, Enters, Keeps, work, Working
    <2>2. CASE PlanPair
      BY <2>2 DEF PlanPair, Refuses, Keeps, work, Working
    <2>3. CASE RunChildren
      BY <2>3 DEF RunChildren, Enters, Keeps, work, Working
    <2>4. CASE EnsureIdentity
      BY <1>1, <2>4 DEF EnsureIdentity, Refuses, Enters, Keeps, work, Working
    <2>5. CASE PublishKey
      BY <2>5 DEF PublishKey, Keeps, work, Working
    <2>6. CASE VerifyComparison
      BY <2>6 DEF VerifyComparison, Enters, Keeps, work, Working
    <2> QED BY <2>1, <2>2, <2>3, <2>4, <2>5, <2>6
  <1>3. phase' # "completed"
    BY <1>2, NeverCompleted
  <1>4. Staging'
    BY <1>2, StagingStays DEF StageInv, Planned, Measured, Admitted, Paired
  <1> QED BY <1>2, <1>3, <1>4, StageMoves

LEMMA StageValidates ==
    ASSUME StageInv, Inv', ValidateTaskset PROVE StageInv'
  <1>1. pc = "validate" /\ Keeps /\ Working
    BY DEF ValidateTaskset, Working
  <1>2. CASE ~ValidatedTaskset(given.taskset, Inputs, given.engine)
    BY <1>1, <1>2, StageRefuses DEF ValidateTaskset
  <1>3. CASE ValidatedTaskset(given.taskset, Inputs, given.engine)
    <2>1. /\ lock' = Validated /\ pc' = "plan"
          /\ UNCHANGED <<given, phase, executed, receipts, proof>>
      BY <1>1, <1>3 DEF ValidateTaskset, Keeps, StageInv, Staging
    <2>2. Inputs' = Inputs /\ Validated' = Validated
      BY <2>1 DEF Inputs, Validated
    <2>3. LockIsValidated'
      BY <1>3, <2>1, <2>2 DEF LockIsValidated
    <2>4. Staging'
      BY <2>1, <2>3 DEF Staging, Measured, Admitted, Paired
    <2>5. pc \in Early
      BY <1>1 DEF StageInv, Inv, GivenOK, Early, Late, RealSteps, FakeSteps
    <2> QED BY <1>1, <2>1, <2>4, <2>5, StageMoves, NeverCompleted
  <1> QED BY <1>2, <1>3

LEMMA StageNormalizes ==
    ASSUME StageInv, Inv', Normalize PROVE StageInv'
  <1> DEFINE usable == \A v \in Variants :
                /\ BuildsVariantResult(given.outputs[v], Validated)
                /\ VerifyVariantExecution(ExecutionOf(v), Inputs[v], Validated)
  <1>1. pc = "normalize" /\ Keeps /\ Working
    BY DEF Normalize, Working
  <1>2. CASE ~usable
    BY <1>1, <1>2, StageRefuses DEF Normalize
  <1>3. CASE usable
    <2>1. /\ executed' = [v \in Variants |-> ExecutionOf(v)] /\ pc' = "inputs"
          /\ UNCHANGED <<given, phase, lock, receipts, proof>>
      BY <1>1, <1>3 DEF Normalize, Keeps
    <2>2. /\ Inputs' = Inputs /\ Validated' = Validated
          /\ \A v \in Variants : ExecutionOf(v)' = ExecutionOf(v)
      BY <2>1 DEF Inputs, Validated, ExecutionOf
    <2>3. ExecutedIsNormalized'
      BY <1>3, <2>1, <2>2 DEF ExecutedIsNormalized
    <2>4. LockIsValidated
      BY <1>1 DEF StageInv, Staging, Planned
    <2>5. LockIsValidated'
      BY <2>1, <2>2, <2>4 DEF LockIsValidated
    <2>6. Staging'
      BY <2>1, <2>3, <2>5 DEF Staging, Measured, Admitted, Paired
    <2>7. pc \in Early
      BY <1>1 DEF StageInv, Inv, GivenOK, Early, Late, RealSteps, FakeSteps
    <2> QED BY <1>1, <2>1, <2>6, <2>7, StageMoves, NeverCompleted
  <1> QED BY <1>2, <1>3

LEMMA StageReads ==
    ASSUME StageInv, Inv', ReadInputs PROVE StageInv'
  <1>1. pc = "inputs" /\ Keeps /\ Working
    BY DEF ReadInputs, Working
  <1>2. CASE Refuses("inputs") \/ Cancels("inputs")
    BY <1>1, <1>2, StageRefuses
  <1>3. CASE ~(Refuses("inputs") \/ Cancels("inputs"))
    <2>1. /\ InputsVerify(Inputs) /\ lock.tasks = Inputs.campaign.tasks
          /\ pc' = "key" /\ UNCHANGED <<given, phase, lock, executed, receipts, proof>>
      BY <1>1, <1>3 DEF ReadInputs, Keeps, work
    <2>2. InputsHold /\ LockIsValidated /\ ExecutedIsNormalized
      BY <1>1, <2>1 DEF StageInv, Staging, Planned, Measured, InputsHold, Tasks
    <2>3. InputsHold' /\ LockIsValidated' /\ ExecutedIsNormalized'
      BY <2>1, <2>2, Framed
    <2>4. Staging'
      BY <2>1, <2>3 DEF Staging, Paired
    <2> QED BY <1>1, <2>1, <2>4, StageMoves, NeverCompleted
  <1> QED BY <1>2, <1>3

LEMMA StageBuildsReceipts ==
    ASSUME StageInv, Inv', BuildReceipts PROVE StageInv'
  <1>1. pc = "receipts" /\ Keeps /\ Working
    BY DEF BuildReceipts, Working
  <1>2. CASE ~(\A v \in Variants : BuildsVariant(v))
    BY <1>1, <1>2, StageRefuses DEF BuildReceipts
  <1>3. CASE \A v \in Variants : BuildsVariant(v)
    <2>1. /\ receipts' = [v \in Variants |-> ReceiptsOf(v)] /\ pc' = "compare"
          /\ UNCHANGED <<given, phase, lock, executed, proof>>
      BY <1>1, <1>3 DEF BuildReceipts, Keeps
    <2>2. /\ Inputs' = Inputs /\ Validated' = Validated /\ Tasks' = Tasks
          /\ \A v \in Variants : ExecutionOf(v)' = ExecutionOf(v) /\ ReceiptsOf(v)' = ReceiptsOf(v)
      BY <2>1 DEF Inputs, Validated, ExecutionOf, ReceiptsOf, Tasks
    <2>3. \A v \in Variants : BuildsVariant(v)' <=> BuildsVariant(v)
      BY <2>1, <2>2 DEF BuildsVariant
    <2>4. ReceiptsAreBuilt'
      BY <1>3, <2>1, <2>2, <2>3 DEF ReceiptsAreBuilt
    <2>5. LockIsValidated /\ ExecutedIsNormalized /\ InputsHold
      BY <1>1 DEF StageInv, Staging, Planned, Measured, Admitted
    <2>6. LockIsValidated' /\ ExecutedIsNormalized' /\ InputsHold'
      BY <2>1, <2>2, <2>5 DEF LockIsValidated, ExecutedIsNormalized, InputsHold
    <2>7. Staging'
      BY <2>1, <2>4, <2>6 DEF Staging
    <2>8. pc \in Early
      BY <1>1 DEF StageInv, Inv, GivenOK, Early, Late, RealSteps, FakeSteps
    <2> QED BY <1>1, <2>1, <2>7, <2>8, StageMoves, NeverCompleted
  <1> QED BY <1>2, <1>3

LEMMA StageReports ==
    ASSUME StageInv, Inv', BuildReport PROVE StageInv'
  <1>1. pc = "report" /\ Keeps /\ Working
    BY DEF BuildReport, Working
  <1>2. CASE Refuses("report")
    BY <1>1, <1>2, StageRefuses
  <1>3. CASE ~Refuses("report")
    <2>1. /\ Reportable(Inputs, Compare, receipts, Sets)
          /\ pc' = "write" /\ phase' = "building_report"
          /\ UNCHANGED <<given, lock, executed, receipts>>
          /\ proof' = ProofOf(Attested)
      BY <1>1, <1>3 DEF BuildReport, Keeps, ProofOf, ReportOf, Attested
    <2>2. Staged
      BY <1>1 DEF StageInv, Inv, GivenOK, Staging, Planned, Measured, Admitted, Paired, Staged
    <2>3. Reported
      BY <2>1, <2>2 DEF Reported
    <2>4. Reported' /\ proof' = ProofOf(Attested)'
      BY <2>1, <2>3, Framed
    <2>5. ~IsFake'
      <3>1. ~IsFake
        BY <1>1 DEF StageInv, Inv, GivenOK, Early, Late, RealSteps, FakeSteps
      <3> QED BY <2>1, <3>1, Framed
    <2>6. ReportStands'
      BY <2>4, <2>5 DEF ReportStands
    <2>7. ResultStands' /\ Staging'
      BY <2>1 DEF ResultStands, Staging, Planned, Measured, Admitted, Paired
    <2> QED BY <2>6, <2>7 DEF StageInv
  <1> QED BY <1>2, <1>3

LEMMA StageReportsFake ==
    ASSUME StageInv, Inv', ReportFake PROVE StageInv'
  <1>1. pc = "report_fake" /\ Keeps /\ Working
    BY DEF ReportFake, Working
  <1>2. CASE Refuses("report_fake")
    BY <1>1, <1>2, StageRefuses
  <1>3. CASE ~Refuses("report_fake")
    <2>1. /\ AggregatesFakeResults(receipts, Inputs.campaign.tasks)
          /\ pc' = "record" /\ UNCHANGED <<given, phase, lock, executed, receipts>>
          /\ proof' = [report |-> DevelopmentReport(Inputs, receipts)]
      BY <1>1, <1>3 DEF ReportFake, Keeps
    <2>2. "kind" \notin DOMAIN proof' /\ proof' # Nothing
      BY <2>1, IsNothing
    <2>3. report' = DevelopmentReport(Inputs, receipts)
      BY <2>1, <2>2 DEF report
    <2>4. IsFake' /\ Inputs' = Inputs
      <3>1. IsFake
        BY <1>1 DEF StageInv, Inv, GivenOK, Early, Late, RealSteps, FakeSteps
      <3> QED BY <2>1, <3>1, Framed
    <2>5. ReportStands'
      BY <2>1, <2>3, <2>4 DEF ReportStands
    <2>6. phase' # "completed"
      BY <1>1, <2>1, NeverCompleted
    <2>7. ResultStands' /\ Staging'
      BY <2>1, <2>2, <2>6 DEF ResultStands, Staging, Planned, Measured, Admitted, Paired
    <2> QED BY <2>5, <2>7 DEF StageInv
  <1> QED BY <1>2, <1>3

\* The steps of the development executor.
LEMMA StageFakeMoves ==
    ASSUME StageInv, Inv', FakePreflight \/ ValidateFake \/ EnterNext \/ ReadReceipts \/ Recompute
    PROVE  StageInv'
  <1>1. /\ Working /\ UNCHANGED <<given, lock, executed, receipts, proof>>
        /\ phase' # "completed" \/ phase' = phase
        /\ pc' \in FakeSteps \cup {"exited"} /\ pc' # "preflight"
    <2>1. CASE FakePreflight
      BY <2>1 DEF FakePreflight, Refuses, Enters, Keeps, work, Working, FakeSteps
    <2>2. CASE ValidateFake
      BY <2>2 DEF ValidateFake, LooksAfter, Cancels, Refuses, Keeps, work, Working, FakeSteps
    <2>3. CASE EnterNext
      BY <2>3 DEF EnterNext, Enters, FakePath, Keeps, work, Working, FakeSteps
    <2>4. CASE ReadReceipts
      BY <2>4 DEF ReadReceipts, LooksAfter, Cancels, Refuses, Keeps, work, Working, FakeSteps
    <2>5. CASE Recompute
      BY <2>5 DEF Recompute, LooksAfter, Cancels, Refuses, Keeps, work, Working, FakeSteps
    <2> QED BY <2>1, <2>2, <2>3, <2>4, <2>5
  <1>2. phase' # "completed"
    BY <1>1, NeverCompleted
  <1>3. pc' \notin Planned \cup {"preflight", "validate"} /\ pc' \notin {"record", "complete"}
    BY <1>1 DEF FakeSteps, Planned, Measured, Admitted, Paired
  <1>4. Staging'
    BY <1>1, <1>3, StagingStays DEF StageInv
  <1> QED BY <1>1, <1>2, <1>3, <1>4, StageMoves

LEMMA StageScores ==
    ASSUME StageInv, Inv', NEW v \in Variants, ScoreNext(v) PROVE StageInv'
  <1>1. pc \in {"score_baseline", "score_candidate"} /\ Working
    BY DEF ScoreNext, Working
  <1>2. Keeps /\ pc \in Early
    BY ScoringIs DEF StageInv
  <1>3. CASE Cancels(pc)
    BY <1>1, <1>2, <1>3, StageRefuses
  <1>4. CASE ~Cancels(pc)
    <2>1. /\ pc' \in {"enter_candidate", "enter_receipts", "score_baseline", "score_candidate"}
          /\ UNCHANGED <<phase, proof>>
      BY <1>1, <1>4, ScoringIs DEF StageInv, work
    <2>2. Staging'
      BY <2>1 DEF Staging, Planned, Measured, Admitted, Paired
    <2> QED BY <1>1, <1>2, <2>1, <2>2, StageMoves, NeverCompleted
  <1> QED BY <1>3, <1>4

\* The steps that write the proof down and record the result.
LEMMA StageWrites ==
    ASSUME StageInv, Inv', WriteBundleFile \/ SealBundle \/ VerifyBundle PROVE StageInv'
  <1>1. Keeps /\ Working /\ pc \in {"write", "seal", "verify"}
    BY DEF WriteBundleFile, SealBundle, VerifyBundle, Working
  <1>2. CASE Refuses("verify")
    BY <1>1, <1>2, StageRefuses
  <1>3. CASE ~Refuses("verify")
    <2>1. /\ UNCHANGED <<given, phase, lock, executed, receipts, proof>>
          /\ pc' \in {"write", "seal", "verify", "record"}
      BY <1>1, <1>3 DEF WriteBundleFile, SealBundle, VerifyBundle, Keeps, work
    <2>2. proof # Nothing
      BY <1>1 DEF StageInv, Inv, ProofOK
    <2>3. Staging'
      BY <2>1 DEF Staging, Planned, Measured, Admitted, Paired
    <2>4. ReportStands'
      BY <2>1, ReportStays DEF StageInv
    <2>5. ResultStands'
      BY <1>1, <2>1, <2>2, NeverCompleted DEF ResultStands
    <2> QED BY <2>3, <2>4, <2>5 DEF StageInv
  <1> QED BY <1>2, <1>3

LEMMA StageEnds ==
    ASSUME StageInv, Inv', WriteResult \/ Complete PROVE StageInv'
  <1>1. Keeps /\ Working /\ pc \in {"record", "complete"}
    BY DEF WriteResult, Complete, Working
  <1>2. CASE Refuses("record")
    BY <1>1, <1>2, StageRefuses
  <1>3. CASE ~Refuses("record")
    <2>1. UNCHANGED <<given, lock, executed, receipts, proof>>
      BY <1>1, <1>3 DEF WriteResult, Complete, Keeps, work
    <2>2. ReportStands' /\ report' = report
      BY <2>1, ReportStays DEF StageInv
    <2>3. proof # Nothing /\ phase # "completed"
      BY <1>1, NeverCompleted DEF StageInv, ResultStands
    <2>4. \/ pc' = "complete" /\ result' = report /\ phase' = phase
          \/ /\ pc' = "exited" /\ result' = result
             /\ phase' = "completed" => result = report
      <3>1. CASE WriteResult
        BY <1>3, <3>1 DEF WriteResult
      <3>2. CASE Complete
        BY <3>2 DEF Complete, Enters, work, StageInv, ResultStands
      <3> QED BY <3>1, <3>2
    <2>5. ResultStands' /\ Staging'
      BY <2>1, <2>2, <2>3, <2>4 DEF ResultStands, Working, Staging, Planned, Measured,
                                    Admitted, Paired
    <2> QED BY <2>2, <2>5 DEF StageInv
  <1> QED BY <1>2, <1>3

\* What others do to a run leaves what is staged alone.
LEMMA StageOthers ==
    ASSUME StageInv, Inv',
           \/ WorkerDies \/ RequestCancel \/ Disturb \/ DeriveFromRun \/ PlanPublication
           \/ Submit \/ FileReceipt \/ UNCHANGED vars
    PROVE  StageInv'
  <1>1. /\ UNCHANGED <<given, lock, executed, receipts, proof, result>>
        /\ pc' = pc \/ pc' = "dead"
        /\ phase' = phase \/ phase' = "cancel_requested"
    <2>1. CASE WorkerDies
      BY <2>1 DEF WorkerDies, work
    <2>2. CASE RequestCancel
      BY <2>2 DEF RequestCancel, work
    <2>3. CASE Disturb
      BY <2>3 DEF Disturb
    <2>4. CASE DeriveFromRun
      BY <2>4 DEF DeriveFromRun, work
    <2>5. CASE PlanPublication
      BY <2>5 DEF PlanPublication, work
    <2>6. CASE Submit \/ FileReceipt
      BY <2>6 DEF Submit, FileReceipt, work
    <2>7. CASE UNCHANGED vars
      BY <2>7 DEF vars
    <2> QED BY <2>1, <2>2, <2>3, <2>4, <2>5, <2>6, <2>7
  <1>2. ReportStands' /\ report' = report
    BY <1>1, ReportStays DEF StageInv
  <1>3. Staging'
    BY <1>1, StagingStays DEF StageInv, Planned, Measured, Admitted, Paired
  <1>4. ResultStands'
    BY <1>1, <1>2 DEF StageInv, ResultStands, Working
  <1> QED BY <1>2, <1>3, <1>4 DEF StageInv

LEMMA InitStage == Init => StageInv
  <1> SUFFICES ASSUME Init PROVE StageInv
    OBVIOUS
  <1>1. Inv
    BY InitInv
  <1>2. Staging /\ ReportStands /\ ResultStands
    BY DEF Init, Staging, ReportStands, ResultStands, Planned, Measured, Admitted, Paired
  <1> QED BY <1>1, <1>2 DEF StageInv

LEMMA StepStage == StageInv /\ [Next]_vars => StageInv'
  <1> SUFFICES ASSUME StageInv, [Next]_vars PROVE StageInv'
    OBVIOUS
  <1>1. Inv'
    BY StepInv DEF StageInv
  <1>2. CASE \/ Preflight \/ PlanPair \/ RunChildren \/ EnsureIdentity \/ PublishKey
             \/ VerifyComparison
    BY <1>1, <1>2, StageRealMoves
  <1>3. CASE ValidateTaskset \/ Normalize \/ ReadInputs \/ BuildReceipts
    BY <1>1, <1>3, StageValidates, StageNormalizes, StageReads, StageBuildsReceipts
  <1>4. CASE BuildReport \/ ReportFake
    BY <1>1, <1>4, StageReports, StageReportsFake
  <1>5. CASE FakePreflight \/ ValidateFake \/ EnterNext \/ ReadReceipts \/ Recompute
    BY <1>1, <1>5, StageFakeMoves
  <1>6. ASSUME NEW v \in Variants, ScoreNext(v) PROVE StageInv'
    BY <1>1, <1>6, StageScores
  <1>7. CASE WriteBundleFile \/ SealBundle \/ VerifyBundle \/ WriteResult \/ Complete
    BY <1>1, <1>7, StageWrites, StageEnds
  <1>8. CASE \/ WorkerDies \/ RequestCancel \/ Disturb \/ DeriveFromRun \/ PlanPublication
             \/ Submit \/ FileReceipt \/ UNCHANGED vars
    BY <1>1, <1>8, StageOthers
  <1> QED BY <1>2, <1>3, <1>4, <1>5, <1>6, <1>7, <1>8 DEF Next

\* Whatever a worker is interrupted by, and whatever becomes of its files, a
\* report stands on what was staged when it was made: the lock, the evaluations
\* and the receipts are as the worker's steps left them, and a result that is
\* recorded is that report (RealVerifiersExecutor.execute,
\* RealUpliftReportService.complete).
THEOREM ReportsStand == Spec => []StageInv
  <1>1. Init => StageInv
    BY InitStage
  <1>2. StageInv /\ [Next]_vars => StageInv'
    BY StepStage
  <1> QED BY <1>1, <1>2, PTL DEF Spec

\* A report of grade P1 is one of the real executor, whose every task was
\* validated on this machine, ran once on either side and was scored, whose
\* sides are one configuration and were offered the pinned tools (of every rollout
\* the names, of the first task's the schemas and descriptions too), but for what
\* the Campaign mutates, and whose decision the scoring rule gives for the
\* rewards in the raw evidence (build_uplift_report, proof_grade_for,
\* decide_uplift).
THEOREM AcceptedReportsAreEarned == Spec => []AcceptedIsEarned
  <1>1. StageInv => AcceptedIsEarned
    <2> SUFFICES ASSUME StageInv, proof # Nothing, report.grade = "P1"
                 PROVE  /\ ~IsFake /\ TasksWereValid /\ EveryTaskScoredOnce
                        /\ OneControlledDifference /\ DecisionFollows(report.decision)
      BY DEF AcceptedIsEarned, report
    <2>1. ~IsFake
      BY DEF StageInv, ReportStands, DevelopmentReport
    <2>2. Reported
      BY <2>1 DEF StageInv, ReportStands
    <2>3. PICK attested : proof = ProofOf(attested)
      BY <2>1 DEF StageInv, ReportStands
    <2>4. report = ReportOf(attested)
      BY <2>3 DEF report, ProofOf
    <2>5. report.decision = DecideUplift(Inputs.campaign.scoring, Compare.status,
                               PrimaryResult(TaskDeltas(receipts, Compare.tasks)),
                               Compare.tasks)
      BY <2>4 DEF ReportOf, BuildUpliftReport
    <2>6. TasksWereValid
      BY <2>2, RowsWereValid DEF Reported, Staged
    <2>7. EveryTaskScoredOnce /\ OneControlledDifference
      BY <2>2, TasksWereScored, OnlyTheSkillsDiffered
    <2>8. DecisionFollows(report.decision)
      BY <2>2, <2>5, DecisionsFollow
    <2> QED BY <2>1, <2>6, <2>7, <2>8
  <1> QED BY <1>1, ReportsStand, PTL

----------------------------------------------------------------------------
(* What is shown of a result. *)

\* The record of execution is a file of every real proof, read as written.
LEMMA RecordIs ==
    ASSUME NEW c
    PROVE  /\ RecordFile \in DOMAIN SealedBundle(c)
           /\ SealedBundle(c)[RecordFile].payload = c.record
  <1> DEFINE named == {IdentityFile, CampaignFile, PolicyFile, LockFile, ValidationFile,
                       ReportFile, RecordFile}
             experiments == {ExperimentFile(v) : v \in Variants}
             sets        == {ReceiptSetFile(v) : v \in Variants}
             listed == UNION {{ReceiptFile(v, n) : n \in DOMAIN c.receipts[v]} : v \in Variants}
  <1>1. /\ RecordFile # IdentityFile /\ RecordFile # CampaignFile /\ RecordFile # PolicyFile
        /\ RecordFile # LockFile /\ RecordFile # ValidationFile /\ RecordFile # ReportFile
        /\ RecordFile \notin experiments /\ RecordFile \notin sets /\ RecordFile \notin listed
    BY DEF IdentityFile, CampaignFile, PolicyFile, LockFile, ValidationFile, ReportFile,
           RecordFile, ExperimentFile, ReceiptSetFile, ReceiptFile
  <1>2. RecordFile \in DOMAIN BundleFiles(c)
    BY DEF BundleFiles
  <1>3. BundleFiles(c)[RecordFile] = Sign(c.key, c.record)
    <2>1. RecordFile \in named
      OBVIOUS
    <2> HIDE DEF experiments, sets, listed
    <2>2. BundleFiles(c)[RecordFile] =
            CASE RecordFile = IdentityFile     -> ExecutorIdentity(c.key)
              [] RecordFile = CampaignFile     -> c.inputs.campaign
              [] RecordFile = PolicyFile       -> c.inputs.policy
              [] RecordFile = LockFile         -> c.lock
              [] RecordFile = ValidationFile   -> c.inputs.validation
              [] RecordFile = ReportFile       -> Sign(c.key, c.report)
              [] RecordFile = RecordFile       -> Sign(c.key, c.record)
              [] RecordFile \in experiments    -> c.inputs[RecordFile[2]]
              [] RecordFile \in sets           -> c.sets[RecordFile[2]]
              [] RecordFile \in listed -> Sign(c.key, c.receipts[RecordFile[2]][RecordFile[3]])
      BY <2>1 DEF BundleFiles, experiments, sets, listed
    <2> QED BY <1>1, <2>2
  <1>4. SealedBundle(c)[RecordFile] = Sign(c.key, c.record)
    BY <1>2, <1>3, SealedIs
  <1>5. RecordFile \in DOMAIN SealedBundle(c)
    BY <1>2, SealedIs
  <1>6. SealedBundle(c)[RecordFile].payload = c.record
    BY <1>4 DEF Sign
  <1> QED BY <1>5, <1>6

\* A task is won, lost or tied, one of the three.
LEMMA OutcomesAre ==
    ASSUME NEW delta, delta["baseline"] \in Int, delta["candidate"] \in Int
    PROVE  /\ TaskOutcome(delta) = "win" <=> delta["candidate"] > delta["baseline"]
           /\ TaskOutcome(delta) = "loss" <=> delta["candidate"] < delta["baseline"]
           /\ TaskOutcome(delta) = "tie" <=> delta["candidate"] = delta["baseline"]
           /\ TaskOutcome(delta) \in {"win", "loss", "tie"}
  <1>1. PICK left, right : left = delta["baseline"] /\ right = delta["candidate"]
    OBVIOUS
  <1>2. TaskOutcome(delta) = CASE right > left -> "win" [] right < left -> "loss"
                               [] right = left -> "tie"
    BY <1>1 DEF TaskOutcome
  <1> QED BY <1>1, <1>2

\* The headline of a report whose rewards are numbers agrees with its table.
LEMMA TableAgrees ==
    ASSUME NEW r, NEW campaign, NEW record, NEW verification, NEW evidence, NEW prices,
           NEW n \in Nat, DOMAIN r.deltas = 1 .. n, r.primary = PrimaryResult(r.deltas),
           \A i \in 1 .. n :
              r.deltas[i]["baseline"] \in Int /\ r.deltas[i]["candidate"] \in Int
    PROVE  ValidPresentation(BuildUpliftPresentation(r, campaign, record, verification,
                                                     evidence, prices))
  <1> DEFINE shown  == BuildUpliftPresentation(r, campaign, record, verification, evidence, prices)
             deltas == r.deltas
             rows   == [i \in DOMAIN deltas |-> TaskOutcome(deltas[i])]
             derived == DerivedCost(campaign, Economics(record), prices)
             reason == CostUnavailableReason(campaign, record, prices)
  <1>1. /\ shown.rows = rows /\ shown.primary = r.primary /\ shown.derived = derived
        /\ shown.missing = (IF derived # NoCost THEN "nothing" ELSE reason)
        /\ shown.full = TasksScoredFull(deltas)
    BY DEF BuildUpliftPresentation
  <1>2. reason # "nothing"
    BY DEF CostUnavailableReason
  <1>3. /\ r.primary.wins = Cardinality({i \in DOMAIN deltas : deltas[i].candidate > deltas[i].baseline})
        /\ r.primary.losses = Cardinality({i \in DOMAIN deltas : deltas[i].candidate < deltas[i].baseline})
        /\ r.primary.ties = Cardinality({i \in DOMAIN deltas : deltas[i].candidate = deltas[i].baseline})
    BY DEF PrimaryResult
  <1>4. \A i \in 1 .. n :
           /\ TaskOutcome(deltas[i]) = "win" <=> deltas[i]["candidate"] > deltas[i]["baseline"]
           /\ TaskOutcome(deltas[i]) = "loss" <=> deltas[i]["candidate"] < deltas[i]["baseline"]
           /\ TaskOutcome(deltas[i]) = "tie" <=> deltas[i]["candidate"] = deltas[i]["baseline"]
           /\ TaskOutcome(deltas[i]) \in {"win", "loss", "tie"}
    BY OutcomesAre
  <1>5. DOMAIN rows = 1 .. n /\ \A i \in 1 .. n : rows[i] = TaskOutcome(deltas[i])
    OBVIOUS
  <1>6. Len(rows) = n
    <2>1. rows \in Seq({"win", "loss", "tie"})
      BY <1>4, <1>5
    <2> HIDE DEF rows
    <2> QED BY <1>5, <2>1
  <1> HIDE DEF rows, shown, derived, reason
  <1>7. /\ {i \in DOMAIN rows : rows[i] = "win"}
             = {i \in DOMAIN deltas : deltas[i].candidate > deltas[i].baseline}
        /\ {i \in DOMAIN rows : rows[i] = "loss"}
             = {i \in DOMAIN deltas : deltas[i].candidate < deltas[i].baseline}
        /\ {i \in DOMAIN rows : rows[i] = "tie"}
             = {i \in DOMAIN deltas : deltas[i].candidate = deltas[i].baseline}
    BY <1>4, <1>5
  <1>8. ASSUME TasksScoredFull(deltas) # Nothing, NEW v \in Variants
        PROVE  TasksScoredFull(deltas)[v] \in 0 .. n
    <2> DEFINE scored == {i \in DOMAIN deltas : deltas[i][v] = FullScore}
    <2>1. TasksScoredFull(deltas)[v] = Cardinality(scored)
      BY <1>8 DEF TasksScoredFull
    <2>2. IsFiniteSet(1 .. n) /\ Cardinality(1 .. n) = n /\ scored \in SUBSET (1 .. n)
      BY SizeOfAList
    <2> HIDE DEF scored
    <2>3. Cardinality(scored) \in Nat /\ Cardinality(scored) <= n
      BY <2>2, FS_Subset, FS_CardinalityType
    <2> QED BY <2>1, <2>3
  <1>9. /\ Cardinality({i \in DOMAIN shown.rows : shown.rows[i] = "win"}) = shown.primary.wins
        /\ Cardinality({i \in DOMAIN shown.rows : shown.rows[i] = "loss"}) = shown.primary.losses
        /\ Cardinality({i \in DOMAIN shown.rows : shown.rows[i] = "tie"}) = shown.primary.ties
    BY <1>1, <1>3, <1>7
  <1>10. (shown.derived = NoCost) <=> (shown.missing # "nothing")
    BY <1>1, <1>2
  <1>11. shown.full # Nothing => \A v \in Variants : shown.full[v] \in 0 .. Len(shown.rows)
    BY <1>1, <1>6, <1>8
  <1>12. ValidPresentation(shown)
    BY <1>9, <1>10, <1>11 DEF ValidPresentation
  <1> QED BY <1>12 DEF shown

\* A recorded result is of numbers, one pair for each task.
LEMMA ResultCounts ==
    ASSUME StageInv, phase = "completed"
    PROVE  /\ Len(Tasks) \in Nat /\ DOMAIN result.deltas = 1 .. Len(Tasks)
           /\ result.primary = PrimaryResult(result.deltas)
           /\ \A i \in 1 .. Len(Tasks) :
                 result.deltas[i]["baseline"] \in Int /\ result.deltas[i]["candidate"] \in Int
  <1> DEFINE deltas == TaskDeltas(receipts, Tasks)
  <1>1. proof # Nothing /\ result = report /\ given \in Starts
    BY DEF StageInv, ResultStands, Inv, GivenOK
  <1>2. DOMAIN Tasks = 1 .. Len(Tasks) /\ Len(Tasks) \in Nat
    <2>1. Tasks \in Seq(Range(Tasks))
      BY <1>1, CampaignAssumption DEF Tasks, Inputs
    <2> QED BY <2>1
  <1>3. /\ DOMAIN deltas = DOMAIN Tasks
        /\ \A n \in DOMAIN Tasks :
              /\ deltas[n]["baseline"] = RewardOf(receipts["baseline"], Tasks[n])
              /\ deltas[n]["candidate"] = RewardOf(receipts["candidate"], Tasks[n])
    BY DEF TaskDeltas
  <1>4. CASE ~IsFake
    <2>1. Reported /\ \E attested : proof = ProofOf(attested)
      BY <1>1, <1>4 DEF StageInv, ReportStands
    <2>2. PICK attested : proof = ProofOf(attested)
      BY <2>1
    <2>3. Staged /\ Compare.tasks = Tasks
      BY <2>1, TasksAre DEF Reported, Compare, CompareRealVariants
    <2>4. result.deltas = deltas /\ result.primary = PrimaryResult(deltas)
      BY <1>1, <2>2, <2>3 DEF report, ProofOf, ReportOf, BuildUpliftReport
    <2>5. \A v \in Variants : \A n \in DOMAIN Tasks : RewardOf(receipts[v], Tasks[n]) \in Int
      BY <2>1, <2>3, ReceiptsAre, RewardsAre
    <2> HIDE DEF deltas
    <2> QED BY <1>2, <1>3, <2>4, <2>5, Variation
  <1>5. CASE IsFake
    <2>1. /\ report = DevelopmentReport(Inputs, receipts)
          /\ AggregatesFakeResults(receipts, Tasks)
      BY <1>1, <1>5 DEF StageInv, ReportStands, Tasks
    <2>2. result.deltas = deltas /\ result.primary = PrimaryResult(deltas)
      BY <1>1, <2>1 DEF DevelopmentReport, Tasks
    <2>3. ASSUME NEW v \in Variants, NEW n \in DOMAIN Tasks
          PROVE  RewardOf(receipts[v], Tasks[n]) \in Int
      <3> DEFINE at == CHOOSE i \in DOMAIN receipts[v] : receipts[v][i].task = Tasks[n]
      <3>1. {receipts[v][i].task : i \in DOMAIN receipts[v]} = Range(Tasks)
        BY <2>1 DEF AggregatesFakeResults, PairsReceipts
      <3>2. \E i \in DOMAIN receipts[v] : receipts[v][i].task = Tasks[n]
        BY <3>1 DEF Range
      <3>3. at \in DOMAIN receipts[v]
        BY <3>2
      <3>4. PICK made : receipts[v] \in Seq(made) /\ \A r \in made : r.reward \in Int
        BY <1>5 DEF StageInv, Inv, MadeUp
      <3> HIDE DEF at
      <3>5. receipts[v][at].reward \in Int
        BY <3>3, <3>4
      <3> QED BY <3>5 DEF RewardOf, at
    <2> HIDE DEF deltas
    <2> QED BY <1>2, <1>3, <2>2, <2>3, Variation
  <1> QED BY <1>4, <1>5

\* The tokens the worker told of a variant are those of its raw records.
LEMMA TokensAre ==
    ASSUME Staged, NEW v \in Variants, VariantUsage(executed[v]).tokens # NoTokens
    PROVE  VariantUsage(executed[v]).tokens = ToldTokens(v)
  <1> DEFINE episodes == executed[v].episodes
             told == {n \in DOMAIN episodes : episodes[n].traces[1].tokens # NoTokens}
             raw  == {i \in DOMAIN Raw(v) : Raw(v)[i].traces[1].tokens # NoTokens}
             left == [n \in told |-> episodes[n].traces[1].tokens]
             right == [i \in raw |-> Raw(v)[i].traces[1].tokens]
             place == [n \in told |-> PlaceOf(v, Tasks[n])]
  <1>1. VariantUsage(executed[v]).tokens = SumFunction(left)
    BY DEF VariantUsage
  <1>2. ToldTokens(v) = SumFunction(right)
    BY DEF ToldTokens
  <1>3. DOMAIN episodes = DOMAIN Tasks
    BY EpisodesAre
  <1>4. ASSUME NEW n \in DOMAIN Tasks
        PROVE  episodes[n].traces[1].tokens = Raw(v)[PlaceOf(v, Tasks[n])].traces[1].tokens
    <2>1. episodes[n].traces[1] = NormalizeTrace(TraceOf(v, n), Inputs[v])
      BY EpisodesAre
    <2>2. NormalizeTrace(TraceOf(v, n), Inputs[v]).tokens = TraceOf(v, n).tokens
      BY DEF NormalizeTrace
    <2> QED BY <2>1, <2>2 DEF TraceOf
  <1>5. /\ told \subseteq DOMAIN Tasks
        /\ \A n \in DOMAIN Tasks : n \in told <=> PlaceOf(v, Tasks[n]) \in raw
    <2> HIDE DEF episodes
    <2>1. \A n \in DOMAIN Tasks : PlaceOf(v, Tasks[n]) \in DOMAIN Raw(v)
      BY PlacesAre
    <2> QED BY <1>3, <1>4, <2>1
  <1> HIDE DEF told
  <1>6. /\ place \in [told -> raw]
        /\ \A m, n \in told : place[m] = place[n] => m = n
        /\ \A i \in raw : \E n \in told : place[n] = i
    <2>1. \A m, n \in told : place[m] = place[n] => m = n
      BY <1>5, PlacesAre
    <2>2. ASSUME NEW i \in raw PROVE \E n \in told : place[n] = i
      <3>1. PICK n \in DOMAIN Tasks : PlaceOf(v, Tasks[n]) = i
        BY PlacesAre
      <3> QED BY <1>5, <3>1
    <2> HIDE DEF raw
    <2> QED BY <1>5, <2>1, <2>2
  <1>7. \A i \in raw : Raw(v)[i].traces[1].tokens \in Int
    BY RawIs
  <1>8. IsFiniteSet(told) /\ IsFiniteSet(raw)
    <2>1. IsFiniteSet(DOMAIN Tasks) /\ IsFiniteSet(DOMAIN Raw(v))
      BY TasksAre, RawIs, SizeOfAList
    <2> QED BY <1>5, <2>1, FS_Subset
  <1> HIDE DEF raw
  <1>9. \A n \in told : left[n] = right[place[n]]
    BY <1>4, <1>5, <1>6
  <1>10. Counts(right)
    <2>1. DOMAIN right = raw /\ \A i \in raw : right[i] \in Int
      BY <1>7
    <2> HIDE DEF right
    <2> QED BY <1>8, <2>1 DEF Counts
  <1>11. Counts(left)
    <2>1. DOMAIN left = told
      OBVIOUS
    <2>2. \A n \in told : place[n] \in raw
      BY <1>6
    <2>3. \A n \in told : right[place[n]] \in Int
      BY <1>7, <2>2
    <2> HIDE DEF left, right, place
    <2> QED BY <1>8, <1>9, <2>1, <2>3 DEF Counts
  <1>12. DOMAIN left = told /\ DOMAIN right = raw
    OBVIOUS
  <1> HIDE DEF left, right, place
  <1>13. SumFunction(left) = SumFunction(right)
    BY <1>6, <1>9, <1>10, <1>11, <1>12, SameSums
  <1> QED BY <1>1, <1>2, <1>13

\* What is shown says of a report what the report says of itself.
LEMMA ShownIs ==
    ASSUME NEW r, NEW campaign, NEW record, NEW verification, NEW evidence, NEW prices
    PROVE  LET shown == BuildUpliftPresentation(r, campaign, record, verification,
                                                evidence, prices)
           IN  /\ shown.verification = verification /\ shown.decision = r.decision
               /\ shown.evidence = evidence /\ shown.tokens = Economics(record).tokens
               /\ verification = "verification_failed" =>
                     "proof_verification_failed" \in shown.caveats
               /\ verification = "not_verified" /\ r.grade = "P1" =>
                     "proof_not_verified" \in shown.caveats
               /\ "publish_run" \in shown.offers =>
                     /\ r.grade # "development_only" /\ verification = "verified_offline"
                     /\ r.eligible
  <1> DEFINE shown == BuildUpliftPresentation(r, campaign, record, verification, evidence, prices)
             economics == Economics(record)
             derived == DerivedCost(campaign, economics, prices)
  <1>1. /\ shown.verification = verification /\ shown.decision = r.decision
        /\ shown.evidence = evidence /\ shown.tokens = Economics(record).tokens
        /\ shown.caveats = Caveats(r, verification, economics, derived, evidence)
        /\ shown.offers = NextActions(r, verification)
    BY DEF BuildUpliftPresentation
  <1> HIDE DEF shown, economics, derived
  <1>2. verification = "verification_failed" =>
           "proof_verification_failed" \in Caveats(r, verification, economics, derived, evidence)
    BY DEF Caveats
  <1>3. verification = "not_verified" /\ r.grade = "P1" =>
           "proof_not_verified" \in Caveats(r, verification, economics, derived, evidence)
    BY DEF Caveats
  <1>4. "publish_run" \in NextActions(r, verification) =>
           r.grade # "development_only" /\ verification = "verified_offline" /\ r.eligible
    BY DEF NextActions
  <1> QED BY <1>1, <1>2, <1>3, <1>4 DEF shown

\* What is shown of the verification is what verifying the directory says.
LEMMA VerificationIs ==
    ASSUME NEW r, NEW b, NEW asked \in BOOLEAN
    PROVE  /\ VerificationStatus(r, b, asked) = "verified_offline" =>
                 r.grade # "development_only" /\ VerifyLocalBundle(b)
           /\ VerificationStatus(r, b, asked) \in
                 {"not_verified", "verified_offline", "verification_failed"}
  <1>1. CASE ~asked \/ r.grade = "development_only"
    <2>1. VerificationStatus(r, b, asked) = "not_verified"
      BY <1>1 DEF VerificationStatus
    <2> QED BY <2>1
  <1>2. CASE asked /\ r.grade # "development_only"
    <2>1. VerificationStatus(r, b, asked)
             = IF VerifyLocalBundle(b) THEN "verified_offline" ELSE "verification_failed"
      BY <1>2 DEF VerificationStatus
    <2> QED BY <1>2, <2>1
  <1> QED BY <1>1, <1>2

\* What a report claims of itself.
LEMMA ClaimsAre ==
    ASSUME StageInv, phase = "completed"
    PROVE  /\ result.grade # "development_only" => ~IsFake
           /\ result.decision = "accepted" => result.grade = "P1"
           /\ result.eligible => result.grade = "P1" /\ result.policy.report = "public"
  <1>1. proof # Nothing /\ result = report
    BY DEF StageInv, ResultStands
  <1>2. CASE IsFake
    <2>1. /\ report.grade = "development_only" /\ report.decision = "development_only"
          /\ report.eligible = FALSE
      BY <1>1, <1>2 DEF StageInv, ReportStands, DevelopmentReport
    <2> QED BY <1>1, <2>1
  <1>3. CASE ~IsFake
    <2>1. PICK attested : proof = ProofOf(attested)
      BY <1>1, <1>3 DEF StageInv, ReportStands
    <2>2. Inputs.request.policy = Inputs.policy
      BY <1>1, <1>3 DEF StageInv, ReportStands, Reported, Reportable
    <2>3. report = ReportOf(attested)
      BY <1>1, <2>1 DEF report, ProofOf
    <2> DEFINE grade == ProofGrade(attested, Compare.status, SummarizeScores(receipts))
               publication == PublicationStatusFor(Inputs.policy)
    <2>4. /\ report.grade = grade
          /\ report.decision = (IF grade = "P1"
                THEN DecideUplift(Inputs.campaign.scoring, Compare.status,
                        PrimaryResult(TaskDeltas(receipts, Compare.tasks)), Compare.tasks)
                ELSE "development_only")
          /\ report.eligible = PublicationEligible(grade, publication)
          /\ report.policy = Inputs.request.policy
      BY <2>3 DEF ReportOf, BuildUpliftReport
    <2> HIDE DEF grade
    <2>5. report.decision = "accepted" => report.grade = "P1"
      BY <2>4
    <2>6. report.eligible => report.grade = "P1" /\ report.policy.report = "public"
      BY <2>2, <2>4 DEF PublicationEligible, PublicationStatusFor
    <2> QED BY <1>1, <1>3, <2>5, <2>6
  <1> QED BY <1>2, <1>3

\* A proof of the run's own that verifies tells what was measured.
LEMMA OwnProofTells ==
    ASSUME StageInv, phase = "completed", ~IsFake, Whole, NEW kept \in BOOLEAN
    PROVE  LET record == ReadExecutionRecord(bundle)
               stored == [v \in Variants |->
                            IF kept /\ ~IsFake THEN executed[v].episodes ELSE <<>>]
           IN  /\ bundle[ReportFile].payload = result
               /\ \A v \in Variants : Economics(record).tokens[v] # NoTokens =>
                     Economics(record).tokens[v] = ToldTokens(v)
               /\ kept => ReadRecordedEvidence(record, stored) # Nothing
  <1> DEFINE record == ReadExecutionRecord(bundle)
             stored == [v \in Variants |-> IF kept /\ ~IsFake THEN executed[v].episodes ELSE <<>>]
  <1>1. proof # Nothing /\ result = report /\ bundle = SealedBundle(proof)
    BY DEF StageInv, ResultStands, Whole
  <1>2. Staged
    BY <1>1 DEF StageInv, ReportStands, Reported
  <1>3. PICK attested : proof = ProofOf(attested)
    BY <1>1 DEF StageInv, ReportStands
  <1>4. bundle[ReportFile].payload = result
    <2>1. bundle[ReportFile].payload = proof.report
      BY <1>1, SealedIs
    <2> QED BY <1>1, <2>1 DEF report
  <1>5. record = ExecutionRecord(Inputs.request, executed, given.children)
    <2>1. record = proof.record
      BY <1>1, RecordIs DEF ReadExecutionRecord, Present
    <2> QED BY <1>3, <2>1 DEF ProofOf
  <1> HIDE DEF record
  <1>6. /\ record.kind = "execution-record"
        /\ record.sides = [v \in Variants |-> VariantSummary(executed[v])]
    BY <1>5 DEF ExecutionRecord
  <1>7. record # Nothing
    <2>1. Nothing.kind = "nothing"
      BY DEF Nothing
    <2> QED BY <1>6, <2>1
  <1>8. ASSUME NEW v \in Variants
        PROVE  /\ record.sides[v].usage.tokens = VariantUsage(executed[v]).tokens
               /\ record.sides[v].episodes = executed[v].episodes
    BY <1>6 DEF VariantSummary
  <1>9. ASSUME NEW v \in Variants, Economics(record).tokens[v] # NoTokens
        PROVE  Economics(record).tokens[v] = ToldTokens(v)
    <2>1. Economics(record).tokens[v] = VariantUsage(executed[v]).tokens
      BY <1>7, <1>8 DEF Economics
    <2> QED BY <1>2, <1>9, <2>1, TokensAre
  <1>10. ASSUME kept PROVE ReadRecordedEvidence(record, stored) # Nothing
    <2>1. \A v \in Variants : stored[v] = record.sides[v].episodes
      BY <1>8, <1>10
    <2> HIDE DEF stored
    <2> DEFINE done == \A v \in Variants :
                  /\ stored[v] # <<>>
                  /\ \A n \in DOMAIN stored[v] : stored[v][n].traces[1].ok
    <2>2. ReadRecordedEvidence(record, stored) = [completed |-> done]
      BY <1>7, <2>1 DEF ReadRecordedEvidence
    <2> HIDE DEF done
    <2>3. "kind" \notin DOMAIN ReadRecordedEvidence(record, stored)
      BY <2>2
    <2> QED BY <2>3, IsNothing
  <1> QED BY <1>4, <1>9, <1>10 DEF record

\* What the owner of a completed run is shown is one coherent payload, and what
\* it says of the proof is so, whatever became of the files
\* (result_run_command, build_uplift_presentation).
THEOREM ScreensStandOnProof == Spec => []ShownStandsOnProof
  <1>1. StageInv => ShownStandsOnProof
    <2> SUFFICES ASSUME StageInv, phase = "completed",
                        NEW asked \in BOOLEAN, NEW kept \in BOOLEAN
                 PROVE  LET shown == Screen(asked, kept)
                        IN  /\ ValidPresentation(shown)
                            /\ shown.verification = "verified_offline" =>
                                  \/ bundle \in OtherBundles
                                  \/ /\ bundle[ReportFile].payload = result
                                     /\ \A v \in Variants : shown.tokens[v] # NoTokens =>
                                            shown.tokens[v] = ToldTokens(v)
                                     /\ kept => shown.evidence # Nothing
                            /\ shown.decision = "accepted"
                               /\ shown.verification # "verified_offline" =>
                                  {"proof_not_verified", "proof_verification_failed"}
                                      \cap shown.caveats # {}
                            /\ "publish_run" \in shown.offers =>
                                  /\ VerifyLocalBundle(bundle)
                                  /\ result.grade = "P1" /\ result.policy.report = "public"
      BY DEF ShownStandsOnProof, IsShowable
    <2> DEFINE record == ReadExecutionRecord(bundle)
               stored == [v \in Variants |->
                            IF kept /\ ~IsFake THEN executed[v].episodes ELSE <<>>]
               verification == VerificationStatus(result, bundle, asked)
               evidence == ReadRecordedEvidence(record, stored)
               prices == given.machine.prices
               campaign == Inputs.campaign
               shown == Screen(asked, kept)
    <2>1. shown = BuildUpliftPresentation(result, campaign, record, verification, evidence, prices)
      BY DEF Screen
    <2>2. /\ verification = "verified_offline" =>
                result.grade # "development_only" /\ VerifyLocalBundle(bundle)
          /\ verification \in {"not_verified", "verified_offline", "verification_failed"}
      BY VerificationIs
    <2>3. verification = "verified_offline" /\ bundle \notin OtherBundles =>
            /\ bundle[ReportFile].payload = result
            /\ \A v \in Variants : Economics(record).tokens[v] # NoTokens =>
                  Economics(record).tokens[v] = ToldTokens(v)
            /\ kept => evidence # Nothing
      <3> SUFFICES ASSUME verification = "verified_offline", bundle \notin OtherBundles
                   PROVE  /\ bundle[ReportFile].payload = result
                          /\ \A v \in Variants : Economics(record).tokens[v] # NoTokens =>
                                Economics(record).tokens[v] = ToldTokens(v)
                          /\ kept => evidence # Nothing
        OBVIOUS
      <3>1. ~IsFake /\ VerifyLocalBundle(bundle)
        BY <2>2, ClaimsAre
      <3>2. Whole
        BY <3>1 DEF StageInv, Inv, BundleOK
      <3> QED BY <3>1, <3>2, OwnProofTells
    <2>4. ValidPresentation(shown)
      <3>1. /\ Len(Tasks) \in Nat /\ DOMAIN result.deltas = 1 .. Len(Tasks)
            /\ result.primary = PrimaryResult(result.deltas)
            /\ \A i \in 1 .. Len(Tasks) :
                  result.deltas[i]["baseline"] \in Int /\ result.deltas[i]["candidate"] \in Int
        BY ResultCounts
      <3> HIDE DEF record, verification, evidence, prices, campaign, shown
      <3> QED BY <2>1, <3>1, TableAgrees
    <2> HIDE DEF record, stored, verification, evidence, prices, campaign, shown
    <2>5. /\ shown.verification = verification /\ shown.decision = result.decision
          /\ shown.evidence = evidence /\ shown.tokens = Economics(record).tokens
          /\ verification = "verification_failed" =>
                "proof_verification_failed" \in shown.caveats
          /\ verification = "not_verified" /\ result.grade = "P1" =>
                "proof_not_verified" \in shown.caveats
          /\ "publish_run" \in shown.offers =>
                /\ result.grade # "development_only" /\ verification = "verified_offline"
                /\ result.eligible
      BY <2>1, ShownIs
    <2>6. shown.decision = "accepted" /\ shown.verification # "verified_offline" =>
             {"proof_not_verified", "proof_verification_failed"} \cap shown.caveats # {}
      <3>1. result.decision = "accepted" => result.grade = "P1"
        BY ClaimsAre
      <3> QED BY <2>2, <2>5, <3>1
    <2>7. "publish_run" \in shown.offers =>
             /\ VerifyLocalBundle(bundle)
             /\ result.grade = "P1" /\ result.policy.report = "public"
      <3>1. result.eligible => result.grade = "P1" /\ result.policy.report = "public"
        BY ClaimsAre
      <3> QED BY <2>2, <2>5, <3>1
    <2>8. shown.verification = "verified_offline" =>
             \/ bundle \in OtherBundles
             \/ /\ bundle[ReportFile].payload = result
                /\ \A v \in Variants : shown.tokens[v] # NoTokens =>
                       shown.tokens[v] = ToldTokens(v)
                /\ kept => shown.evidence # Nothing
      BY <2>3, <2>5
    <2> QED BY <2>4, <2>6, <2>7, <2>8 DEF shown
  <1> QED BY <1>1, ReportsStand, PTL
=============================================================================
