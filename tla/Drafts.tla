------------------------------- MODULE Drafts -------------------------------
(***************************************************************************)
(* A prepared draft: the files of its directory, what preparation puts     *)
(* into them (skills/service.py, drafts/store.py), and the checks a draft  *)
(* must pass on its own, with no catalog at hand.  The inputs of a run are *)
(* the same files, checked against the request (runs/artifacts.py).        *)
(*                                                                         *)
(* The files are a function from their names to their contents; a Skill's  *)
(* directory is one file here, the staged Skill.                           *)
(***************************************************************************)
EXTENDS Manifests, Skills

Nothing == [kind |-> "nothing"]

\* A Skill as the manifest builder is handed it.
SkillReference(artifact) ==
    [size |-> artifact.size, listed |-> artifact.listed, root |-> artifact.root]

(* Where a draft's Campaign comes from: a Climb, or another run's Campaign. *)

SourceFromClimb(climb, campaign) ==
    [climb |-> climb, campaign |-> campaign, policy |-> campaign.shared["policy"],
     validation |-> campaign.shared["taskset"].validation]
LocalSource(campaign, policy, validation) ==
    [climb |-> Nothing, campaign |-> campaign, policy |-> policy,
     validation |-> validation]
PublicContext(source) == source.climb

\* What the person who starts the run will have accepted is the data policy.
BuildDraft(id, source, artifact, baseline, candidate) ==
    [id |-> id, campaign |-> source.campaign, context |-> PublicContext(source),
     policy |-> source.policy, accepts |-> source.policy, skill |-> artifact,
     baseline |-> baseline, candidate |-> candidate,
     included |-> DOMAIN artifact.listed]

\* A draft that can be written down at all.
DraftIsWellFormed(draft) ==
    /\ draft.accepts = draft.policy
    /\ draft.baseline # draft.candidate
    /\ draft.included = DOMAIN draft.skill.listed

----------------------------------------------------------------------------
(* The files. *)

DocumentNames == {"draft.json", "comparison.json", "climb.json", "campaign.json",
                  "policy.json", "validation.json", "evidence.json",
                  "baseline.json", "candidate.json"}
SkillNames == {"skill", "baseline-skill"}

\* A local draft has no Climb, and an insertion no baseline Skill.
DraftFiles(draft, source, evidence, comparison, staged, replaced) ==
    LET written ==
          [f \in DocumentNames \cup SkillNames |->
            CASE f = "draft.json"      -> draft
              [] f = "comparison.json" -> comparison
              [] f = "climb.json"      -> source.climb
              [] f = "campaign.json"   -> source.campaign
              [] f = "policy.json"     -> source.policy
              [] f = "validation.json" -> source.validation
              [] f = "evidence.json"   -> evidence
              [] f = "baseline.json"   -> draft.baseline
              [] f = "candidate.json"  -> draft.candidate
              [] f = "skill"           -> CopySkill(draft.skill, staged)
              [] OTHER                 -> IF replaced = Nothing THEN Nothing
                                          ELSE CopySkill(replaced.artifact, replaced)]
    IN  Restrict(written, {f \in DOMAIN written : written[f] # Nothing})

\* The Campaign's source is read back from the files; a Climb among them must
\* still describe them.
SourceOf(files) ==
    [climb |-> IF "climb.json" \in DOMAIN files THEN files["climb.json"] ELSE Nothing,
     campaign |-> files["campaign.json"], policy |-> files["policy.json"],
     validation |-> files["validation.json"]]

ReadsSource(files) ==
    LET source == SourceOf(files)
    IN  /\ (DocumentNames \ {"climb.json"}) \cup {"skill"} \subseteq DOMAIN files
        /\ source.climb # Nothing =>
              /\ source.climb.campaign = source.campaign
              /\ source.campaign.shared["policy"] = source.policy
              /\ source.campaign.shared["taskset"].validation = source.validation

DeclaredBaselineSkill(files) == files["baseline.json"].configuration.skills

----------------------------------------------------------------------------
(* What a draft must say of itself. *)

VerifiesPublicContext(files) ==
    files["draft.json"].context = PublicContext(SourceOf(files))

VerifiesManifests(files) ==
    LET comparison == files["comparison.json"]
    IN  /\ files["baseline.json"] = files["draft.json"].baseline
        /\ files["candidate.json"] = files["draft.json"].candidate
        /\ comparison.baseline = files["baseline.json"].configuration
        /\ comparison.candidate = files["candidate.json"].configuration
        /\ comparison.controlled

VerifiesBaselineSkill(files) ==
    IF DeclaredBaselineSkill(files) = <<>>
    THEN "baseline-skill" \notin DOMAIN files
    ELSE /\ "baseline-skill" \in DOMAIN files
         /\ VerifySkill(files["baseline-skill"])
         /\ files["baseline-skill"].artifact.root = DeclaredBaselineSkill(files)[1]

VerifiesEvidence(files) ==
    /\ files["validation.json"] = files["campaign.json"].shared["taskset"].validation
    /\ files["validation.json"].evidence # Nothing
    /\ files["evidence.json"] = files["validation.json"].evidence

VerifySnapshot(files) ==
    LET draft == files["draft.json"]
    IN  /\ ReadsSource(files)
        /\ VerifiesPublicContext(files)
        /\ files["campaign.json"] = draft.campaign
        /\ files["policy.json"] = files["campaign.json"].shared["policy"]
        /\ files["policy.json"] = draft.policy /\ draft.accepts = files["policy.json"]
        /\ VerifiesEvidence(files)
        /\ VerifiesManifests(files)
        /\ VerifySkill(files["skill"])
        /\ draft.included = DOMAIN files["skill"].artifact.listed
        /\ draft.skill = files["skill"].artifact
        /\ VerifiesBaselineSkill(files)

\* The inputs of a run are checked against the draft its request names.
VerifyInputs(files, request) ==
    LET draft == files["draft.json"]
    IN  /\ ReadsSource(files)
        /\ draft = request
        /\ files["campaign.json"] = draft.campaign
        /\ files["policy.json"] = draft.policy
        /\ files["policy.json"] = files["campaign.json"].shared["policy"]
        /\ VerifiesPublicContext(files)
        /\ VerifiesEvidence(files)
        /\ VerifiesManifests(files)
        /\ draft.skill = files["skill"].artifact /\ VerifySkill(files["skill"])
        /\ VerifiesBaselineSkill(files)
=============================================================================
