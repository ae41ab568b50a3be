---------------------------- MODULE Preparation ----------------------------
(***************************************************************************)
(* From a directory someone is still editing to the inputs of a run.  A    *)
(* command takes a Climb of the catalog, or a finished run whose Skill is  *)
(* to be replaced, scans the directory, copies what it scanned, and leaves *)
(* a draft (skills/service.py, drafts/store.py).  A start stages the draft *)
(* as the inputs of a run (runs/service.py, runs/artifacts.py); when the   *)
(* run has ended, its Skill may be shown and revised (uplift/service.py).  *)
(*                                                                         *)
(* Meanwhile the directory is edited, the build and its catalog are        *)
(* upgraded, commands are interrupted or killed, and a file of a draft or  *)
(* of a run's inputs is damaged.  What runs between the staging and the    *)
(* report is RunControl and ReportStage; here a run has an ending.         *)
(***************************************************************************)
EXTENDS Catalog, Improvement, Approval

CONSTANTS
    Commands,     \* the commands that prepare; each one's draft has its name
    Catalogs,     \* the catalogs of the builds, from the first to the last
    References,   \* what a person may ask for
    Machine,      \* this machine, for what a Climb needs of it
    FirstTree,    \* the directory before the first edit
    Endings,      \* how a run may end: [phase, grade, backends, verified, deltas,
                  \* receipts]
    Bounds        \* bounds, one of which holds from the beginning to the end:
                  \* [commands, runs, damage, edits, edit, starts] says how many
                  \* commands prepare, runs end, files are damaged and edits are
                  \* made, what an edit may leave behind ([path, left], Absent
                  \* included), and how a start may be asked for

Absent == [type |-> "absent"]

\* Every file has a version, by which an edit can be told from what was there.
ASSUME VersionAssumption ==
    /\ \A p \in DOMAIN FirstTree : FirstTree[p].version = 1
    /\ \A b \in Bounds : \A edit \in b.edit :
          edit.left # Absent => "version" \in DOMAIN edit.left

\* There is always a build in use, and a Campaign that can be read names its backend.
ASSUME CatalogAssumption ==
    /\ Len(Catalogs) \in Nat \ {0} /\ DOMAIN Catalogs = 1 .. Len(Catalogs)
    /\ \A b \in DOMAIN Catalogs : \A entry \in Range(Catalogs[b].climbs) :
          /\ "shared" \in DOMAIN entry.held.campaign
          /\ "backend" \in DOMAIN entry.held.campaign.shared

\* A task's reward and its change are numbers.
ASSUME EndingAssumption ==
    \A ending \in Endings :
        /\ Len(ending.deltas) \in Nat /\ DOMAIN ending.deltas = 1 .. Len(ending.deltas)
        /\ \A i \in DOMAIN ending.deltas :
              ending.deltas[i].delta \in Int /\ ending.deltas[i].reward \in Int

VARIABLES
    tree,       \* the Skill's directory
    edits,      \* how often it was edited
    build,      \* the build in use, as a place in Catalogs
    pc,         \* the next step of each command
    command,    \* what each command works from and has made so far
    drafts,     \* the drafts directory: the files of each draft
    prepared,   \* the Skills each command verified before it placed them
    claimed,    \* of the drafts a start has read, the approval it carries
    requests,   \* the request of each draft's run
    inputs,     \* the inputs staged for each draft's run
    endings,    \* how each draft's run ended
    opened,     \* the runs whose Skill is about to be read for a person
    shown,      \* what a person was shown last of a run: [run, text] or
                \* [run, context], or nothing
    damaged,    \* files damaged
    bound       \* the member of Bounds that holds

vars == <<tree, edits, build, pc, command, drafts, prepared, claimed,
          requests, inputs, endings, opened, shown, damaged, bound>>
disk == <<drafts, prepared, claimed, requests, inputs, endings, opened, shown,
          damaged, bound>>

NoFiles == [p \in {} |-> Absent]
With(f, x, v) == [y \in DOMAIN f \cup {x} |-> IF y = x THEN v ELSE f[y]]
\* moments is history: the directory as it was at any time since the listing.
Idle == [source |-> Nothing, report |-> Nothing, replaced |-> Nothing, files |-> {},
         file |-> "none", scanned |-> NoFiles, copied |-> NoFiles,
         staged |-> NoFiles, moments |-> {}]

UnderWay(c) == pc[c] \notin {"idle", "done", "failed"}

----------------------------------------------------------------------------
(* A command that prepares.  One that fails removes what it has staged. *)

Goes(c, step, changed) ==
    /\ pc' = [pc EXCEPT ![c] = step]
    /\ command' = [command EXCEPT ![c] = changed]
    /\ UNCHANGED <<tree, edits, build>>

Stops(c, step) ==
    Goes(c, step, [Idle EXCEPT !.report = command[c].report])

\* Commands share no state but the directory, which none of them writes: one
\* prepares at a time here.
Begins(c) ==
    /\ pc[c] = "idle" /\ \A other \in Commands : ~UnderWay(other)
    /\ Cardinality({other \in Commands : pc[other] # "idle"}) < bound.commands

\* A Climb is prepared for only while it is open, by a machine that can run
\* it, and with the evidence a draft must carry.
Preparable(catalog, entry) ==
    /\ GetsClimb(catalog, entry)
    /\ entry.held.campaign.shared["taskset"].validation.evidence # Nothing
    /\ entry.held.status \in {"open", "development"}
    /\ BlockingIssues(Machine, entry.held.campaign) = {}

PrepareForClimb(c) ==
    /\ Begins(c)
    /\ \E reference \in References :
         LET entries == ClimbEntries(Catalogs[build], reference)
             entry   == CHOOSE e \in entries : TRUE
             climb   == entry.held
         IN  IF entries # {} /\ Preparable(Catalogs[build], entry)
             THEN Goes(c, "list",
                       [Idle EXCEPT !.source = SourceFromClimb(climb, climb.campaign)])
             ELSE Goes(c, "failed", Idle)
    /\ UNCHANGED disk

\* Nothing is derived from a run that did not complete, was not evaluated for
\* real, or whose inputs or proof no longer verify.
CompletedRealRun(d) ==
    /\ d \in DOMAIN endings
    /\ endings[d].phase = "completed"
    /\ VerifyInputs(inputs[d], drafts[d]["draft.json"])
    /\ endings[d].grade # "development_only"
    /\ endings[d].backends = {"verifiers"}
    /\ endings[d].verified

ReportOf(d) == [run |-> d, campaign |-> inputs[d]["campaign.json"],
                deltas |-> endings[d].deltas]

\* The Skill to be replaced is the one the run was given, whatever has become
\* of the directory it once came from.
PrepareReplacement(c) ==
    /\ Begins(c)
    /\ \E d \in DOMAIN inputs :
         IF CompletedRealRun(d)
         THEN Goes(c, "list",
                   [Idle EXCEPT !.source = SourceOf(inputs[d]), !.report = ReportOf(d),
                                !.replaced = inputs[d]["skill"].artifact])
         ELSE Goes(c, "failed", Idle)
    /\ UNCHANGED disk

ListFiles(c) ==
    /\ pc[c] = "list"
    /\ \E named \in {"directory", EntryFile} :
         IF ResolvesSkillRoot(tree, named) /\ EnumeratesFiles(tree)
         THEN Goes(c, "check",
                   [command[c] EXCEPT !.files = DOMAIN tree, !.moments = {tree}])
         ELSE Stops(c, "failed")
    /\ UNCHANGED disk

\* The files are scanned in the order of their paths; which order that is
\* makes no difference here.
CheckFile(c) ==
    /\ pc[c] = "check" /\ command[c].files # {}
    /\ LET path == CHOOSE p \in command[c].files : TRUE
       IN  IF ValidatesFile(tree, path)
           THEN Goes(c, "read", [command[c] EXCEPT !.file = path])
           ELSE Stops(c, "failed")
    /\ UNCHANGED disk

\* The file may have been changed since it was checked.
ReadFile(c) ==
    /\ pc[c] = "read"
    /\ LET path == command[c].file
       IN  IF path \in DOMAIN tree /\ ReadsFile(command[c].scanned, tree[path])
           THEN Goes(c, "check",
                     [command[c] EXCEPT !.files = @ \ {path}, !.file = "none",
                                        !.scanned = With(@, path, tree[path])])
           ELSE Stops(c, "failed")
    /\ UNCHANGED disk

AcceptsCandidate(c) ==
    LET source == command[c].source
    IN  /\ Cardinality(DOMAIN command[c].scanned) <= SkillPolicy.files
        /\ command[c].report = Nothing =>
              /\ source.climb.minimumSkills <= 1 /\ 1 <= source.climb.maximumSkills
              /\ source.policy.release # "prohibited"

EndScan(c) ==
    /\ pc[c] = "check" /\ command[c].files = {}
    /\ IF ScanIsASkill(command[c].scanned) /\ AcceptsCandidate(c)
       THEN Goes(c, "copy", [command[c] EXCEPT !.files = DOMAIN command[c].scanned])
       ELSE Stops(c, "failed")
    /\ UNCHANGED disk

\* Mutant of CopyFile: a file is copied as it is found.
CopyAsFound(c) ==
    /\ pc[c] = "copy" /\ command[c].files # {}
    /\ LET path == CHOOSE p \in command[c].files : TRUE
       IN  IF path \in DOMAIN tree
           THEN Goes(c, "copy", [command[c] EXCEPT !.files = @ \ {path},
                                   !.copied = With(@, path, tree[path])])
           ELSE Stops(c, "failed")
    /\ UNCHANGED disk

\* A file is copied only as it was scanned.
CopyFile(c) ==
    /\ pc[c] = "copy" /\ command[c].files # {}
    /\ LET path == CHOOSE p \in command[c].files : TRUE
       IN  IF path \in DOMAIN tree /\ tree[path] = command[c].scanned[path]
           THEN Goes(c, "copy", [command[c] EXCEPT !.files = @ \ {path},
                                   !.copied = With(@, path, tree[path])])
           ELSE Stops(c, "failed")
    /\ UNCHANGED disk

----------------------------------------------------------------------------
(* The draft is made of the copies alone. *)

Candidate(c) ==
    ArtifactOf(command[c].copied,
               IF command[c].report = Nothing THEN Nothing ELSE command[c].replaced.root)

DraftCampaign(c) ==
    IF command[c].report = Nothing THEN command[c].source.campaign
    ELSE DeriveReplacementCampaign(command[c].source.campaign, command[c].replaced)

DraftSource(c) ==
    IF command[c].report = Nothing THEN command[c].source
    ELSE LocalSource(DraftCampaign(c), command[c].source.policy, command[c].source.validation)

\* The Skill of a run's inputs is read where the run keeps it.
StagedBaseline(c) ==
    IF command[c].report = Nothing THEN Nothing
    ELSE [inputs[command[c].report.run]["skill"] EXCEPT !.artifact = command[c].replaced]

Comparison(c) ==
    CompareManifests(BuildBaselineManifest(DraftCampaign(c)),
                     BuildCandidateManifest(DraftCampaign(c), SkillReference(Candidate(c))),
                     DraftCampaign(c))

DraftOf(c) ==
    BuildDraft(c, DraftSource(c), Candidate(c), BuildBaselineManifest(DraftCampaign(c)),
               BuildCandidateManifest(DraftCampaign(c), SkillReference(Candidate(c))))

BuildsDraft(c) ==
    /\ command[c].report # Nothing =>
          DerivesReplacement(command[c].source.campaign, command[c].report,
                             command[c].replaced, Candidate(c))
    /\ BuildsCandidate(DraftCampaign(c), SkillReference(Candidate(c)))
    /\ Comparison(c).controlled
    /\ DraftIsWellFormed(DraftOf(c))

\* Every file is written into a staging directory of the command's own, which
\* nobody else reads: a command that ends among them is one that ended before.
MakeDraft(c) ==
    /\ pc[c] = "copy" /\ command[c].files = {}
    /\ IF BuildsDraft(c)
       THEN LET draft == DraftOf(c)
            IN  Goes(c, "place", [command[c] EXCEPT !.staged =
                    DraftFiles(draft, DraftSource(c), DraftSource(c).validation.evidence,
                               Comparison(c),
                               StagedSkill(draft.skill, draft.skill.archive, command[c].copied),
                               StagedBaseline(c))])
       ELSE Stops(c, "failed")
    /\ UNCHANGED disk

\* What was staged is verified whole; then one rename makes it the draft.
Place(c) ==
    /\ pc[c] = "place"
    /\ IF VerifySnapshot(command[c].staged)
       THEN /\ drafts' = With(drafts, c, command[c].staged)
            /\ prepared' = With(prepared, c,
                             Restrict(command[c].staged,
                                      SkillNames \cap DOMAIN command[c].staged))
            /\ Goes(c, "placed", [command[c] EXCEPT !.staged = NoFiles])
       ELSE Stops(c, "failed") /\ UNCHANGED <<drafts, prepared>>
    /\ UNCHANGED <<claimed, requests, inputs, endings, opened, shown, damaged, bound>>

Finish(c) ==
    /\ pc[c] = "placed"
    /\ Stops(c, "done")
    /\ UNCHANGED disk

\* A full disk, an interrupt or a kill ends a command at any step, after the
\* rename too.  What a killed command had staged stays where it is, under a
\* name no other command looks for.
Interrupt(c) == UnderWay(c) /\ Stops(c, "failed") /\ UNCHANGED disk

----------------------------------------------------------------------------
(* The start of a run, its ending, and what follows from it. *)

elsewhere == <<tree, edits, build, pc, command, drafts, prepared, bound>>

Unclaimed == DOMAIN drafts \ (DOMAIN claimed \cup DOMAIN inputs)

\* Mutant of MayClaim: the Climb must still be in the catalog.
MayClaimListed(d, start) ==
    /\ Approves(start)
    /\ VerifySnapshot(drafts[d])
    /\ \E e \in Range(Catalogs[build].climbs) : e.held = SourceOf(drafts[d]).climb

\* Whether a start that reads the draft may have it: somebody approves of it,
\* and all of it is checked.
MayClaim(d, start) ==
    LET draft == drafts[d]["draft.json"]
    IN  /\ Approves(start)
        /\ VerifySnapshot(drafts[d])
        /\ Startable(draft, drafts[d]["campaign.json"], drafts[d]["comparison.json"],
                     ApprovalOf(start, draft))

\* The start keeps the documents it has checked, which nothing here changes.
ClaimDraft(d) ==
    /\ d \in Unclaimed
    /\ \E start \in bound.starts :
          /\ MayClaim(d, start)
          /\ claimed' = With(claimed, d, ApprovalOf(start, drafts[d]["draft.json"]))
    /\ UNCHANGED <<elsewhere, requests, inputs, endings, opened, shown, damaged>>

\* The Skills are copied from the draft's directory as it is by now.
StagedInputs(d) ==
    [f \in DOMAIN drafts[d] |->
        IF f \in SkillNames THEN CopySkill(drafts[d][f].artifact, drafts[d][f])
        ELSE drafts[d][f]]

RequestOf(d) ==
    IF d \in DOMAIN requests THEN requests[d]
    ELSE RequestFor(drafts[d]["draft.json"], drafts[d]["campaign.json"], claimed[d])

\* Mutant of StageInputs: what was copied is not verified.
StageUnverified(d) ==
    /\ d \in DOMAIN claimed
    /\ claimed' = Restrict(claimed, DOMAIN claimed \ {d})
    /\ requests' = With(requests, d, RequestOf(d))
    /\ inputs' = With(inputs, d, StagedInputs(d))
    /\ UNCHANGED <<elsewhere, endings, opened, shown, damaged>>

\* The request is written first, and stays if the inputs cannot be staged.
StageInputs(d) ==
    /\ d \in DOMAIN claimed
    /\ claimed' = Restrict(claimed, DOMAIN claimed \ {d})
    /\ requests' = With(requests, d, RequestOf(d))
    /\ inputs' = IF VerifyInputs(StagedInputs(d), drafts[d]["draft.json"])
                 THEN With(inputs, d, StagedInputs(d)) ELSE inputs
    /\ UNCHANGED <<elsewhere, endings, opened, shown, damaged>>

RunEnds(d) ==
    /\ d \in DOMAIN inputs \ DOMAIN endings /\ Cardinality(DOMAIN endings) < bound.runs
    /\ \E ending \in Endings : endings' = With(endings, d, ending)
    /\ UNCHANGED <<elsewhere, claimed, requests, inputs, opened, shown, damaged>>

ShowContext(d) ==
    /\ CompletedRealRun(d) /\ BuildsContext(ReportOf(d), inputs[d]["campaign.json"])
    /\ shown' = [run |-> d, context |-> ImprovementContext(ReportOf(d), endings[d].receipts,
                                                inputs[d]["skill"].artifact)]
    /\ UNCHANGED <<elsewhere, claimed, requests, inputs, endings, opened, damaged>>

OpenSource(d) ==
    /\ d \notin opened /\ CompletedRealRun(d)
    /\ opened' = opened \cup {d}
    /\ UNCHANGED <<elsewhere, claimed, requests, inputs, endings, shown, damaged>>

\* Every file is held against the artifact again as it is read.
ReadSource(d) ==
    /\ d \in opened
    /\ opened' = opened \ {d}
    /\ shown' = IF ReadsSourceSkill(inputs[d]["skill"])
                THEN [run |-> d, text |-> inputs[d]["skill"].files[EntryFile]]
                ELSE shown
    /\ UNCHANGED <<elsewhere, claimed, requests, inputs, endings, damaged>>

----------------------------------------------------------------------------
(* What happens around them. *)

\* Every edit leaves something new: no edit puts back what was there before.
\* An edit while nobody reads the directory is one before the next listing.
Edit ==
    /\ edits < bound.edits
    /\ \E c \in Commands : pc[c] \in {"list", "check", "read", "copy"}
    /\ edits' = edits + 1
    /\ \E edit \in bound.edit :
          IF edit.left = Absent
          THEN edit.path \in DOMAIN tree /\ tree' = Restrict(tree, DOMAIN tree \ {edit.path})
          ELSE tree' = With(tree, edit.path, [edit.left EXCEPT !.version = edits + 2])
    /\ command' = [c \in Commands |->
                     IF pc[c] \in {"check", "read", "copy"}
                     THEN [command[c] EXCEPT !.moments = @ \cup {tree'}] ELSE command[c]]
    /\ UNCHANGED <<build, pc, disk>>

Upgrade ==
    /\ build < Len(Catalogs)
    /\ build' = build + 1
    /\ UNCHANGED <<tree, edits, pc, command, disk>>

\* A byte of a Skill's file is not what it was; what is read is another file.
Spoiled(skill) ==
    [skill EXCEPT !.files = [p \in DOMAIN @ |->
        IF p = EntryFile THEN [@[p] EXCEPT !.version = @ + 10] ELSE @[p]]]

Damage ==
    /\ damaged < bound.damage
    /\ damaged' = damaged + 1
    /\ \/ \E d \in DOMAIN drafts : \E f \in SkillNames \cap DOMAIN drafts[d] :
             drafts' = [drafts EXCEPT ![d][f] = Spoiled(@)] /\ UNCHANGED inputs
       \/ \E d \in DOMAIN inputs : \E f \in SkillNames \cap DOMAIN inputs[d] :
             inputs' = [inputs EXCEPT ![d][f] = Spoiled(@)] /\ UNCHANGED drafts
    /\ UNCHANGED <<tree, edits, build, pc, command, prepared, claimed, requests,
                   endings, opened, shown, bound>>

----------------------------------------------------------------------------
Init ==
    /\ tree = FirstTree /\ edits = 0 /\ build = 1
    /\ pc = [c \in Commands |-> "idle"]
    /\ command = [c \in Commands |-> Idle]
    /\ drafts = NoFiles /\ prepared = NoFiles /\ claimed = NoFiles /\ requests = NoFiles
    /\ inputs = NoFiles /\ endings = NoFiles /\ opened = {}
    /\ shown = Nothing /\ damaged = 0 /\ bound \in Bounds

CommandStep(c) ==
    \/ PrepareForClimb(c) \/ PrepareReplacement(c)
    \/ ListFiles(c) \/ CheckFile(c) \/ ReadFile(c) \/ EndScan(c) \/ CopyFile(c)
    \/ MakeDraft(c) \/ Place(c) \/ Finish(c) \/ Interrupt(c)

RunStep(d) ==
    ClaimDraft(d) \/ StageInputs(d) \/ RunEnds(d) \/ ShowContext(d)
    \/ OpenSource(d) \/ ReadSource(d)

Next ==
    \/ \E c \in Commands : CommandStep(c) \/ RunStep(c)
    \/ Edit \/ Upgrade \/ Damage

Spec == Init /\ [][Next]_vars

----------------------------------------------------------------------------
(* Properties. *)

\* The Skill of a draft was never put together from two states of a directory
\* that is being edited: at one moment while the command read it, every file
\* of the snapshot was there as it is in the snapshot (skills/service.py,
\* _copy_one).  A file that appeared after the listing is not in it.  This is so
\* while no edit puts back what was there before: the code compares contents,
\* and would take a file that was changed and restored for one left alone.
SnapshotWasThere ==
    \A c \in {d \in DOMAIN prepared : pc[d] = "placed"} :
        LET files == prepared[c]["skill"].files
        IN  \E moment \in command[c].moments :
              \A p \in DOMAIN files : p \in DOMAIN moment /\ moment[p] = files[p]

\* What follows from a run is about the Skill the run measured, whatever has
\* become of its files since: the baseline of a replacement is that Skill,
\* file by file, and the candidate another one; a text that is shown is its
\* text (uplift/service.py, uplift/source.py, drafts/store.py).
WhatFollowsIsMeasured ==
    /\ \A c \in {d \in DOMAIN prepared : command[d].report # Nothing} :
          LET run == command[c].report.run
          IN  /\ endings[run].phase = "completed" /\ endings[run].verified
              /\ endings[run].backends = {"verifiers"}
              /\ prepared[c]["baseline-skill"] = prepared[run]["skill"]
              /\ prepared[c]["skill"].artifact.parent = prepared[run]["skill"].artifact.root
              /\ prepared[c]["skill"].files # prepared[run]["skill"].files
              /\ \A f \in {"policy.json", "validation.json", "evidence.json"} :
                    drafts[c][f] = drafts[run][f]
    /\ "text" \in DOMAIN shown =>
          shown.text = prepared[shown.run]["skill"].files[EntryFile]

\* The inputs a run is given are, file by file, what the command that
\* prepared its draft verified, and the run records who approved of that and of
\* which policy, whichever of several starts got that far: a draft that is
\* damaged before its start, or between the start's check and its copies, is not
\* run (runs/service.py, runs/artifacts.py, stage_inputs).
StagedAsPrepared ==
    [][\A d \in DOMAIN inputs' \ DOMAIN inputs :
          /\ AgreeingApproval(requests'[d])
          /\ requests'[d].policy = requests'[d].acknowledgement.policy
          /\ DOMAIN inputs'[d] = DOMAIN drafts[d]
          /\ \A f \in DOMAIN inputs'[d] :
                inputs'[d][f] = IF f \in SkillNames THEN prepared[d][f]
                                ELSE drafts[d][f]]_vars

\* A draft stays startable by whoever approves of it, for as long as nobody
\* touches its files: no later build, catalog or edit, and no command that was
\* killed, takes that away (drafts/store.py, load_snapshot; runs/service.py).
PreparedCanStart ==
    \A d \in Unclaimed :
        (\A f \in DOMAIN prepared[d] : drafts[d][f] = prepared[d][f])
            => \A start \in bound.starts : Approves(start) => MayClaim(d, start)

\* A person who revises a Skill is shown what it lost first: a task is left
\* out only as one success too many, or when the examples are full of tasks
\* that fared no better (uplift/context.py, _select).
NothingWorseIsLeftOut ==
    "context" \in DOMAIN shown =>
        LET deltas  == endings[shown.run].deltas
            kept    == shown.context.examples
            left    == {i \in DOMAIN deltas : \A k \in DOMAIN kept :
                           kept[k].task # deltas[i].task}
            rank(o) == OutcomeRank[o]
        IN  /\ Len(kept) <= ExampleLimit
            /\ Cardinality({k \in DOMAIN kept : kept[k].outcome = "stable_success"})
                  <= ExampleContrastLimit
            /\ \A i \in left :
                  \/ Outcome(deltas[i]) = "stable_success"
                  \/ /\ Len(kept) = ExampleLimit
                     /\ \A k \in DOMAIN kept : rank(kept[k].outcome) <= rank(Outcome(deltas[i]))
=============================================================================
