---------------------------- MODULE Presentation ----------------------------
(***************************************************************************)
(* What is shown of a finished run, and what it is offered to do next      *)
(* (presentation/build.py, presentation/evidence.py, cli/commands/run.py,  *)
(* presentation/sanitize.py).  Wording, labels and layout are left out; a  *)
(* caveat or an offer is its code.                                         *)
(*                                                                         *)
(* No run of this release records a cost the provider reported, and none   *)
(* records tokens in its receipts, so the execution record is all a cost   *)
(* can be worked out from.  Input and output tokens are reported together, *)
(* so one count stands for both.                                           *)
(***************************************************************************)
EXTENDS ProofBundle

Nothing == [kind |-> "nothing"]

NoTime == -1
NoCost == -1
FullScore == 1

----------------------------------------------------------------------------
(* What the run directory still tells. *)

\* The record is read without a look at its signature.
ReadExecutionRecord(b) ==
    IF Present(b, RecordFile) THEN b[RecordFile].payload ELSE Nothing

\* The records of each variant's evaluation count only while they are the ones
\* the execution record committed to, and only both together.
ReadRecordedEvidence(record, stored) ==
    IF record = Nothing \/ \E v \in Variants : stored[v] # record.sides[v].episodes
    THEN Nothing
    ELSE [completed |-> \A v \in Variants :
             /\ stored[v] # <<>>
             /\ \A n \in DOMAIN stored[v] : stored[v][n].traces[1].ok]

Economics(record) ==
    IF record = Nothing
    THEN [source  |-> "unavailable", tokens |-> [v \in Variants |-> NoTokens],
          seconds |-> [v \in Variants |-> NoTime]]
    ELSE [source  |-> "record",
          tokens  |-> [v \in Variants |-> record.sides[v].usage.tokens],
          seconds |-> [v \in Variants |-> record.sides[v].seconds]]

TokensKnown(economics) == \A v \in Variants : economics.tokens[v] # NoTokens

DerivedCost(campaign, economics, prices) ==
    IF /\ economics.source = "record" /\ TokensKnown(economics)
       /\ campaign.subject.model \in DOMAIN prices
    THEN (economics.tokens["baseline"] + economics.tokens["candidate"])
            * (prices[campaign.subject.model].input + prices[campaign.subject.model].output)
    ELSE NoCost

\* Which of the things a cost needs is missing.
CostUnavailableReason(campaign, record, prices) ==
    CASE record = Nothing -> "no_record"
      [] record # Nothing /\ campaign.subject.model \notin DOMAIN prices -> "no_prices"
      [] OTHER -> "no_tokens"

\* A saving is stated only of what both sides recorded, and differ in.
Savings(economics) ==
    {what \in {"tokens", "seconds"} :
        /\ \A v \in Variants : economics[what][v] >= 0
        /\ economics[what]["baseline"] # economics[what]["candidate"]}

----------------------------------------------------------------------------
(* The result. *)

TaskOutcome(delta) ==
    CASE delta.candidate > delta.baseline -> "win"
      [] delta.candidate < delta.baseline -> "loss"
      [] delta.candidate = delta.baseline -> "tie"

\* How many tasks each side got right, when every reward is all or nothing.
TasksScoredFull(deltas) ==
    IF deltas # <<>> /\ \A i \in DOMAIN deltas : \A v \in Variants :
                            deltas[i][v] \in {0, FullScore}
    THEN [v \in Variants |-> Cardinality({i \in DOMAIN deltas : deltas[i][v] = FullScore})]
    ELSE Nothing

\* A development-only report never claimed a proof.
VerificationStatus(report, b, asked) ==
    CASE ~asked \/ report.grade = "development_only"  -> "not_verified"
      [] asked /\ report.grade # "development_only" ->
            IF VerifyLocalBundle(b) THEN "verified_offline" ELSE "verification_failed"

Standing == {"no_independent_reproduction", "introductory_task_family",
             "no_server_upload", "no_external_evidence_service"}

Caveats(report, verification, economics, derived, evidence) ==
    LET If(condition, code) == IF condition THEN {code} ELSE {}
    IN  Standing
        \cup If(report.grade = "development_only", "development_only_result")
        \cup If(verification = "verification_failed", "proof_verification_failed")
        \cup If(verification = "not_verified" /\ report.grade = "P1", "proof_not_verified")
        \cup If(report.comparison = "controlled_with_warnings",
                "comparison_controlled_with_warnings")
        \cup If(report.grade = "P1", "local_participant_attestation")
        \cup If(report.decision = "rejected", "rejected_is_evidence")
        \cup If(evidence # Nothing, "provider_rate_limiting")
        \cup If(economics.source = "unavailable", "operational_evidence_unavailable")
        \cup If(economics.source = "record" /\ derived # NoCost,
                "cost_derived_while_rendering")
        \cup If(economics.source = "record" /\ derived = NoCost, "cost_unavailable")

\* Mutant of NextActions: what the report is allowed is offered, checked or not.
OfferWhatIsAllowed(report, verification) ==
    {"inspect_tasks", "verify_proof", "improvement_context", "prepare_replacement"}
    \cup (IF report.eligible THEN {"publish_run"} ELSE {})

\* Nothing is offered that would be refused: a development-only report can only
\* be looked at, and publishing is for a proof that was checked just now.
NextActions(report, verification) ==
    IF report.grade = "development_only" THEN {"inspect_tasks"}
    ELSE {"inspect_tasks", "verify_proof", "improvement_context", "prepare_replacement"}
         \cup (IF verification = "verified_offline" /\ report.eligible
               THEN {"publish_run"} ELSE {})

BuildUpliftPresentation(report, campaign, record, verification, evidence, prices) ==
    LET economics == Economics(record)
        derived   == DerivedCost(campaign, economics, prices)
    IN  [primary |-> report.primary, deltas |-> report.deltas,
         rows |-> [i \in DOMAIN report.deltas |-> TaskOutcome(report.deltas[i])],
         full |-> TasksScoredFull(report.deltas),
         tokens |-> economics.tokens, seconds |-> economics.seconds,
         savings |-> Savings(economics), evidence |-> evidence,
         derived |-> derived,
         missing |-> IF derived # NoCost THEN "nothing"
                     ELSE CostUnavailableReason(campaign, record, prices),
         decision |-> report.decision, grade |-> report.grade,
         verification |-> verification,
         caveats |-> Caveats(report, verification, economics, derived, evidence),
         offers |-> NextActions(report, verification)]

\* The payload is refused when its table and its headline disagree, or when it
\* gives no figure and no reason.
ValidPresentation(shown) ==
    LET rows(outcome) == Cardinality({i \in DOMAIN shown.rows : shown.rows[i] = outcome})
    IN  /\ rows("win") = shown.primary.wins
        /\ rows("loss") = shown.primary.losses
        /\ rows("tie") = shown.primary.ties
        /\ (shown.derived = NoCost) <=> (shown.missing # "nothing")
        /\ shown.full # Nothing =>
              \A v \in Variants : shown.full[v] \in 0 .. Len(shown.rows)

----------------------------------------------------------------------------
(* What may not be shown. *)

\* The files are checked in the order of their names, after the manifest.
SortsAfterReceipts == {LockFile, ValidationFile, ReportFile}

FailedArtifacts(b, manifest) ==
    {f \in DOMAIN manifest.artifacts : ~(Present(b, f) /\ b[f] = manifest.artifacts[f])}

\* The first check that failed, which a screen quotes, names an episode receipt.
QuotesAReceipt(b) ==
    /\ Present(b, ManifestFile)
    /\ LET manifest == b[ManifestFile].payload
           failed   == FailedArtifacts(b, manifest)
       IN  /\ VerifySigned(manifest.identity, b[ManifestFile])
           /\ \E f \in failed : f[1] = "receipts"
           /\ \A f \in failed : f[1] = "receipts" \/ f \in SortsAfterReceipts

\* A file two directories down is named the way an absolute path is, and a
\* payload that names one is refused.
NoHiddenTaskMaterial(shown, b) ==
    shown.verification = "verification_failed" => ~QuotesAReceipt(b)

=============================================================================
