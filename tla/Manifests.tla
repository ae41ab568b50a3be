----------------------------- MODULE Manifests -----------------------------
(***************************************************************************)
(* The two experiment manifests of a run: how manifests/builder.py derives *)
(* them from a Campaign and one Skill, and how manifests/compare.py finds  *)
(* where they differ.                                                      *)
(*                                                                         *)
(* A document is a record and stands for its own digest: two documents     *)
(* have one digest exactly when they are equal.  The parts of a subject or *)
(* a configuration that are only ever compared are members of Fields.      *)
(***************************************************************************)
EXTENDS Naturals, Sequences, FiniteSets, SequencesExt

\* What a configuration says beside its Skills.  "contract" stands for the
\* execution, scoring, evidence and budget parts together; "role" for the
\* agents' names.
Fields == {"policy", "outcome", "backend", "taskset", "environment", "model",
           "sampling", "harness", "runtime", "contract", "mutation", "role"}

SkillRoot == <<"agents", "subject", "harness", "skills">>
PointerOf(field) == <<field>>

\* Where two lists differ, index by index, from the end of the shorter on.
DiffArrays(left, right, root) ==
    {Append(root, i) : i \in
        {n \in 1 .. (IF Len(left) > Len(right) THEN Len(left) ELSE Len(right)) :
            IF n > Len(left) \/ n > Len(right) THEN TRUE ELSE left[n] # right[n]}}

DiffValues(left, right) ==
    {PointerOf(f) : f \in {g \in Fields : left.shared[g] # right.shared[g]}}
    \cup DiffArrays(left.skills, right.skills, SkillRoot)

PointerIsWithin(pointer, root) == IsPrefix(root, pointer)

----------------------------------------------------------------------------
(* The builder. *)

BuildExperimentConfiguration(campaign) ==
    [shared |-> campaign.shared, skills |-> campaign.skills]

\* A Skill's reference is its root digest; a Skill that lists no content, or
\* whose files are not the ones its root was computed from, has none.
BuildsSkillReference(skill) == skill.size > 0 /\ skill.listed = skill.root

\* The baseline of an insertion carries no Skill, of a replacement one.
CampaignBaseline(campaign) ==
    Len(campaign.skills) = IF campaign.mutation = "insertion" THEN 0 ELSE 1

\* The only difference a Campaign may allow is the one in the subject's Skills.
MutationContract(campaign) ==
    /\ campaign.minimumSkills <= campaign.maximumSkills
    /\ campaign.allowed = {SkillRoot}

\* What a Campaign that can be read keeps to; a number of agents, of rollouts or
\* a backend other than the one this release has is not expressible here.
CampaignContract(campaign) ==
    /\ MutationContract(campaign)
    /\ CampaignBaseline(campaign) /\ ~campaign.subject.bundled

FinalizeManifest(campaign, variant, configuration) ==
    [kind |-> "manifest", variant |-> variant, campaign |-> campaign,
     context |-> campaign.context, configuration |-> configuration]

BuildBaselineManifest(campaign) ==
    FinalizeManifest(campaign, "baseline", BuildExperimentConfiguration(campaign))

BuildCandidateManifest(campaign, skill) ==
    FinalizeManifest(campaign, "candidate",
        [BuildExperimentConfiguration(campaign) EXCEPT !.skills = <<skill.root>>])

\* What both builders assert of what they built: nothing but the target's
\* Skills may differ from the Campaign.
ManifestMatchesCampaign(manifest, campaign) ==
    /\ manifest.campaign = campaign
    /\ manifest.context = campaign.context
    /\ manifest.configuration.shared = campaign.shared

BuildsCandidate(campaign, skill) ==
    /\ CampaignBaseline(campaign)
    /\ BuildsSkillReference(skill)
    /\ campaign.mutation = "replacement" => campaign.skills[1] # skill.root
    /\ campaign.minimumSkills <= 1 /\ 1 <= campaign.maximumSkills
    /\ ManifestMatchesCampaign(BuildBaselineManifest(campaign), campaign)
    /\ ManifestMatchesCampaign(BuildCandidateManifest(campaign, skill), campaign)

----------------------------------------------------------------------------
(* The comparison. *)

VariantViolations(baseline, candidate) ==
    (IF baseline.variant # "baseline" THEN {"baseline_side"} ELSE {})
    \cup (IF candidate.variant # "candidate" THEN {"candidate_side"} ELSE {})

SharedFieldViolations(baseline, candidate) ==
    {label \in {"campaign", "context"} : baseline[label] # candidate[label]}
    \cup {f \in {"policy", "outcome", "backend"} :
            baseline.configuration.shared[f] # candidate.configuration.shared[f]}

SkillCountViolations(baseline, candidate, mutation) ==
    LET left  == baseline.configuration.skills
        right == candidate.configuration.skills
    IN  (IF Len(left) # (IF mutation = "insertion" THEN 0 ELSE 1)
         THEN {"baseline_skills"} ELSE {})
        \cup (IF Len(right) # 1 THEN {"candidate_skills"} ELSE {})
        \cup (IF /\ mutation = "replacement"
                 /\ Len(left) = 1 /\ Len(right) = 1
                 /\ left = right
              THEN {"same_skill"} ELSE {})

PointerViolations(differences, allowed) ==
    {d \in differences : \A root \in allowed : ~PointerIsWithin(d, root)}

CompareManifests(baseline, candidate, campaign) ==
    LET differences == DiffValues(baseline.configuration, candidate.configuration)
    IN  [kind        |-> "comparison",
         baseline    |-> baseline.configuration,
         candidate   |-> candidate.configuration,
         differences |-> differences,
         controlled  |->
            /\ VariantViolations(baseline, candidate) = {}
            /\ SharedFieldViolations(baseline, candidate) = {}
            /\ SkillCountViolations(baseline, candidate, campaign.mutation) = {}
            /\ differences # {}
            /\ PointerViolations(differences, campaign.allowed) = {}]
=============================================================================
