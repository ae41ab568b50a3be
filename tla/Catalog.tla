------------------------------ MODULE Catalog ------------------------------
(***************************************************************************)
(* The Climbs a build ships: how a reference is resolved and how the       *)
(* objects behind it are read (catalog/repository.py), and whether what    *)
(* they say agrees and this machine can run it (catalog/service.py,        *)
(* models/climb.py).                                                       *)
(*                                                                         *)
(* A document stands for its own digest.  A catalog is [climbs, objects]:  *)
(* climbs lists [reference, digest, held], objects maps a digest to        *)
(* [kind, held], and held is the document found at the path of either.     *)
(***************************************************************************)
EXTENDS Preflight, FiniteSets, SequencesExt, FiniteSetsExt

\* A reference names a Climb by its slug and version, by its slug alone (the
\* version is 0), or by its identifier.
ClimbEntries(catalog, reference) ==
    LET entries  == Range(catalog.climbs)
        exact    == {e \in entries : e.reference = reference}
        bySlug   == {e \in entries : reference.version = 0 /\ e.reference.slug = reference.slug}
        newest   == {e \in bySlug : \A other \in bySlug :
                         other.reference.version <= e.reference.version}
        hasId(n) == reference.version = 0 /\ catalog.climbs[n].held.id = reference.slug
        firstId  == {n \in DOMAIN catalog.climbs : hasId(n) /\ \A m \in 1 .. n - 1 : ~hasId(m)}
    IN  CASE exact # {}  -> exact
          [] bySlug # {} -> newest
          [] OTHER       -> {catalog.climbs[n] : n \in firstId}

\* What a catalog holds under a digest is read only if it is that document,
\* and of the kind asked for.
LoadsObject(catalog, digest, kind) ==
    /\ digest \in DOMAIN catalog.objects
    /\ catalog.objects[digest].kind = kind
    /\ catalog.objects[digest].held = digest

LoadsClimb(entry) ==
    /\ entry.held = entry.digest
    /\ [slug |-> entry.held.slug, version |-> entry.held.version] = entry.reference

ClimbPolicyConsistent(climb, policy) ==
    /\ climb.skill = "public" => policy.release # "prohibited"
    /\ climb.skill = "private" => policy.release # "required_for_climb"
    /\ climb.report = "public" => policy.report = "public"

\* A resolved Climb is a graph: each object names the next by its digest.
ResolvedClimbHolds(climb, campaign, policy, validation) ==
    /\ climb.campaign = campaign
    /\ campaign.shared["policy"] = policy
    /\ campaign.shared["taskset"].validation = validation
    /\ campaign.mutation = "insertion"
    /\ climb.minimumSkills = campaign.minimumSkills
    /\ climb.maximumSkills = campaign.maximumSkills
    /\ ClimbPolicyConsistent(climb, policy)

\* A Climb's publisher validated exactly the tasks its Campaign commits to.
ValidationEvidenceAgrees(catalog, campaign, validation) ==
    \/ validation.evidence.kind = "nothing"
    \/ /\ LoadsObject(catalog, validation.evidence, "evidence")
       /\ validation.evidence.lock = validation.lock
       /\ [n \in DOMAIN validation.evidence.tasks |-> validation.evidence.tasks[n].task]
            = campaign.tasks

PublicPolicyHolds(climb, policy) ==
    /\ ClimbPolicyConsistent(climb, policy)
    /\ (climb.status = "development") <=> (climb.grade = "development_only")

GetsClimb(catalog, entry) ==
    LET climb      == entry.held
        campaign   == climb.campaign
        policy     == campaign.shared["policy"]
        validation == campaign.shared["taskset"].validation
    IN  /\ LoadsClimb(entry)
        /\ LoadsObject(catalog, campaign, "campaign")
        /\ LoadsObject(catalog, policy, "policy")
        /\ LoadsObject(catalog, validation, "validation")
        /\ ResolvedClimbHolds(climb, campaign, policy, validation)
        /\ ValidationEvidenceAgrees(catalog, campaign, validation)
        /\ PublicPolicyHolds(climb, policy)

----------------------------------------------------------------------------
(* What keeps this machine from running a Climb. *)

EngineStatus(engine) ==
    IF ~engine.installed THEN "not_installed"
    ELSE IF engine.verified THEN "verified" ELSE "installed_unverified"

\* An engine that was installed but not checked since only warns.
BlockingIssues(machine, campaign) ==
    (IF machine.hostSupported THEN {} ELSE {"host_unsupported"})
    \cup (IF EngineStatus(machine.engine) = "not_installed"
          THEN {"engine_not_installed"} ELSE {})
    \cup (IF campaign.shared["backend"] \in SupportedBackends
          THEN {} ELSE {"evaluation_backend_unsupported"})
=============================================================================
