-------------------------- MODULE PreparationProofs --------------------------
(***************************************************************************)
(* Proofs about the way from a directory to the inputs of a run, for any   *)
(* commands, directories, catalogs, endings and bounds.                    *)
(*                                                                         *)
(* Four arguments carry them.  A directory that is being edited never      *)
(* shows a file again as it was, so a file that is still as it was scanned *)
(* when it is copied has been so all the while: all copies were there      *)
(* together at the moment the scan ended.  A Skill that verifies is the    *)
(* one its artifact describes, so wherever it is copied to it is the same  *)
(* Skill or it does not verify.  What a start asks of a draft was settled  *)
(* when the draft was made, so a draft as it was made can be started.  And *)
(* a report's tasks have a place each in the order of examples, so taking  *)
(* them in that order passes over none but for the two limits.             *)
(***************************************************************************)
EXTENDS Preparation, FiniteSetTheorems, NaturalsInduction, SequenceTheorems, TLAPS

Steps == {"idle", "list", "check", "read", "copy", "place", "placed", "done", "failed"}
Parts == {"source", "report", "replaced", "files", "file", "scanned", "copied",
          "staged", "moments"}
SkillParts == {"artifact", "archive", "files"}
RunDocuments == {"policy.json", "validation.json", "evidence.json"}

ShapeOK ==
    /\ bound \in Bounds /\ edits \in Nat
    /\ pc \in [Commands -> Steps]
    /\ DOMAIN command = Commands
    /\ \A c \in Commands : DOMAIN command[c] = Parts

\* No version is ahead of the edits that were made.
VersionsAreGiven == \A p \in DOMAIN tree : tree[p].version \in 1 .. edits + 1

\* A draft is made by the command it is named after, a run by the start of a
\* draft, and what is shown is shown of a run.
OneMaker ==
    /\ DOMAIN prepared = DOMAIN drafts
    /\ \A d \in DOMAIN drafts : d \in Commands /\ pc[d] \in {"placed", "done", "failed"}
    /\ DOMAIN claimed \subseteq DOMAIN drafts
    /\ DOMAIN requests \subseteq DOMAIN drafts
    /\ DOMAIN inputs \subseteq DOMAIN drafts
    /\ DOMAIN endings \subseteq DOMAIN inputs
    /\ opened \subseteq DOMAIN inputs
    /\ "text" \in DOMAIN shown => shown.run \in DOMAIN inputs

\* The Skill an artifact describes, and a Skill that holds no other files than
\* its artifact lists.
Described(artifact) ==
    StagedSkill(artifact, artifact.archive, Restrict(artifact.listed, DOMAIN artifact.listed))
Trimmed(staged) == staged = CopySkill(staged.artifact, staged)
IsFunction(files) == files = Restrict(files, DOMAIN files)

\* The Skills of a draft are those that were prepared but for their files, ...
DraftsKeepTheirSkills ==
    \A d \in DOMAIN drafts :
        /\ DOMAIN prepared[d] = SkillNames \cap DOMAIN drafts[d]
        /\ RunDocuments \cup {"draft.json"} \subseteq DOMAIN drafts[d]
        /\ "skill" \in DOMAIN prepared[d]
        /\ prepared[d]["skill"].artifact.listed = prepared[d]["skill"].artifact.root
        /\ IsFunction(prepared[d]["skill"].artifact.listed)
        /\ \A f \in DOMAIN prepared[d] :
              /\ prepared[d][f] = Described(prepared[d][f].artifact)
              /\ DOMAIN drafts[d][f] = SkillParts
              /\ drafts[d][f].artifact = prepared[d][f].artifact

\* ... and so are those of the inputs made from it.
InputsKeepTheirSkills ==
    \A d \in DOMAIN inputs :
        /\ DOMAIN inputs[d] = DOMAIN drafts[d]
        /\ \A f \in DOMAIN inputs[d] :
              IF f \in SkillNames
              THEN /\ DOMAIN inputs[d][f] = SkillParts
                   /\ inputs[d][f].artifact = prepared[d][f].artifact
              ELSE inputs[d][f] = drafts[d][f]

ApprovalsAgree ==
    /\ \A d \in DOMAIN claimed :
          /\ AgreeingApproval(claimed[d])
          /\ claimed[d].acknowledgement.policy = drafts[d]["draft.json"].policy
    /\ \A d \in DOMAIN requests :
          /\ AgreeingApproval(requests[d])
          /\ requests[d].policy = requests[d].acknowledgement.policy

(* What is so of each command. *)

\* A command that reads is watching the directory, and copies after it scans.
Watches(c) ==
    /\ pc[c] \in {"list", "check", "read"} => command[c].copied = NoFiles
    /\ pc[c] = "list" => command[c].scanned = NoFiles
    /\ pc[c] \in {"check", "read", "copy"} =>
          /\ tree \in command[c].moments
          /\ \A p \in DOMAIN command[c].scanned :
                command[c].scanned[p].version \in 1 .. edits + 1

\* Of the files a scan found, those that were copied and those that still can
\* be were there together at one moment.
ThereTogether(c, moment) ==
    /\ \A p \in DOMAIN command[c].copied :
          p \in DOMAIN moment /\ moment[p] = command[c].copied[p]
    /\ \A p \in DOMAIN command[c].scanned \cap DOMAIN tree :
          tree[p] = command[c].scanned[p] =>
             p \in DOMAIN moment /\ moment[p] = command[c].scanned[p]

CopiesWereThere(c) ==
    pc[c] = "copy" =>
        /\ command[c].files \subseteq DOMAIN command[c].scanned
        /\ IsFunction(command[c].copied)
        /\ \E moment \in command[c].moments : ThereTogether(c, moment)

WereThere(c, files) ==
    \E moment \in command[c].moments :
       \A p \in DOMAIN files : p \in DOMAIN moment /\ moment[p] = files[p]

StagedWasThere(c) ==
    pc[c] = "place" =>
        /\ "skill" \in DOMAIN command[c].staged
        /\ IsFunction(command[c].staged["skill"].artifact.listed)
        /\ WereThere(c, command[c].staged["skill"].files)
        /\ \A f \in SkillNames \cap DOMAIN command[c].staged : Trimmed(command[c].staged[f])

PlacedWasThere(c) ==
    c \in DOMAIN prepared /\ pc[c] = "placed" => WereThere(c, prepared[c]["skill"].files)

\* A command that replaces a Skill works from a run that was measured, ...
MeasuredRun(run) ==
    /\ run \in DOMAIN endings
    /\ endings[run].phase = "completed" /\ endings[run].verified
    /\ endings[run].backends = {"verifiers"}

\* ... and from what that run was given.
FromItsRun(c) ==
    LET run    == command[c].report.run
        source == command[c].source
    IN  /\ command[c].replaced = prepared[run]["skill"].artifact
        /\ RunDocuments \subseteq DOMAIN drafts[run]
        /\ source.policy = drafts[run]["policy.json"]
        /\ source.validation = drafts[run]["validation.json"]
        /\ source.validation.evidence = drafts[run]["evidence.json"]

Follows(c) ==
    command[c].report # Nothing =>
        /\ UnderWay(c) \/ c \in DOMAIN prepared => MeasuredRun(command[c].report.run)
        /\ UnderWay(c) => FromItsRun(c)

\* What is about to be placed replaces the Skill that run measured.
StagedReplaces(c) ==
    pc[c] = "place" /\ command[c].report # Nothing =>
        LET run    == command[c].report.run
            staged == command[c].staged
        IN  /\ "baseline-skill" \in DOMAIN staged
            /\ staged["baseline-skill"].artifact = command[c].replaced
            /\ staged["skill"].artifact.parent = command[c].replaced.root
            /\ staged["skill"].artifact.root # command[c].replaced.root
            /\ \A f \in RunDocuments \cap DOMAIN staged : staged[f] = drafts[run][f]

CommandOK(c) ==
    /\ Watches(c) /\ CopiesWereThere(c) /\ StagedWasThere(c) /\ PlacedWasThere(c)
    /\ Follows(c) /\ StagedReplaces(c)

CommandsOK == \A c \in Commands : CommandOK(c)

\* What is said of the drafts that replace a Skill, and of a text that is shown.
ReplacesMeasured(c) ==
    LET run == command[c].report.run
    IN  /\ MeasuredRun(run)
        /\ prepared[c]["baseline-skill"] = prepared[run]["skill"]
        /\ prepared[c]["skill"].artifact.parent = prepared[run]["skill"].artifact.root
        /\ prepared[c]["skill"].files # prepared[run]["skill"].files
        /\ \A f \in RunDocuments : drafts[c][f] = drafts[run][f]

ReplacementsAreMeasured ==
    \A c \in DOMAIN prepared : command[c].report # Nothing => ReplacesMeasured(c)

TextIsMeasured ==
    "text" \in DOMAIN shown => shown.text = prepared[shown.run]["skill"].files[EntryFile]

Inv ==
    /\ ShapeOK
    /\ VersionsAreGiven
    /\ OneMaker
    /\ DraftsKeepTheirSkills
    /\ InputsKeepTheirSkills
    /\ ApprovalsAgree
    /\ CommandsOK
    /\ ReplacementsAreMeasured
    /\ TextIsMeasured

----------------------------------------------------------------------------
(* Lemmas about the operators *)

LEMMA WithIs ==
  ASSUME NEW f, NEW x, NEW v
  PROVE  /\ DOMAIN With(f, x, v) = DOMAIN f \cup {x}
         /\ With(f, x, v)[x] = v
         /\ \A y \in DOMAIN f : y # x => With(f, x, v)[y] = f[y]
  BY DEF With

LEMMA RestrictIs ==
  ASSUME NEW f, NEW S
  PROVE  /\ DOMAIN Restrict(f, S) = S
         /\ \A x \in S : Restrict(f, S)[x] = f[x]
  BY DEF Restrict

LEMMA StagedSkillIs ==
  ASSUME NEW artifact, NEW archive, NEW files
  PROVE  /\ DOMAIN StagedSkill(artifact, archive, files) = SkillParts
         /\ StagedSkill(artifact, archive, files).artifact = artifact
         /\ StagedSkill(artifact, archive, files).archive = archive
         /\ StagedSkill(artifact, archive, files).files = files
         /\ StagedSkill(artifact, archive, files) # Nothing
  <1>1. "artifact" \in DOMAIN StagedSkill(artifact, archive, files)
    BY DEF StagedSkill
  <1>2. "artifact" \notin DOMAIN Nothing
    BY DEF Nothing
  <1> QED BY <1>1, <1>2 DEF StagedSkill, SkillParts

\* A copy of a copy is the copy.
LEMMA CopyIsTrimmed ==
  ASSUME NEW artifact, NEW staged
  PROVE  /\ CopySkill(artifact, staged).artifact = artifact
         /\ DOMAIN CopySkill(artifact, staged) = SkillParts
         /\ Trimmed(CopySkill(artifact, staged))
  <1> DEFINE names == DOMAIN artifact.listed \cap DOMAIN staged.files
             files == Restrict(staged.files, names)
             copy == StagedSkill(artifact, staged.archive, files)
  <1>1. CopySkill(artifact, staged) = copy
    BY DEF CopySkill
  <1>2. /\ copy.artifact = artifact /\ copy.archive = staged.archive /\ copy.files = files
        /\ DOMAIN copy = SkillParts
    BY StagedSkillIs
  <1> HIDE DEF copy
  <1>3. DOMAIN artifact.listed \cap DOMAIN files = names
    BY RestrictIs
  <1>4. Restrict(files, names) = files
    BY RestrictIs DEF Restrict
  <1>5. CopySkill(copy.artifact, copy) = StagedSkill(artifact, staged.archive, files)
    BY <1>2, <1>3, <1>4 DEF CopySkill
  <1>6. CopySkill(copy.artifact, copy) = copy
    BY <1>5 DEF copy
  <1> QED BY <1>1, <1>2, <1>6 DEF Trimmed

\* A Skill that verifies is the one its artifact describes.
LEMMA VerifiedIsDescribed ==
  ASSUME NEW staged, Trimmed(staged), VerifySkill(staged)
  PROVE  /\ staged = Described(staged.artifact)
         /\ staged.artifact.listed = staged.artifact.root
  <1> DEFINE artifact == staged.artifact
             names == DOMAIN artifact.listed
  <1>1. names \cap DOMAIN staged.files = names
    BY DEF VerifySkill, HoldsListedFiles
  <1>2. Restrict(staged.files, names) = Restrict(artifact.listed, names)
    BY DEF VerifySkill, HoldsListedFiles, Restrict
  <1>3. staged.archive = artifact.archive
    BY DEF VerifySkill, VerifyArchive
  <1>4. staged = CopySkill(artifact, staged)
    BY DEF Trimmed
  <1>5. CopySkill(artifact, staged)
          = StagedSkill(artifact, artifact.archive, Restrict(artifact.listed, names))
    BY <1>1, <1>2, <1>3 DEF CopySkill
  <1>6. artifact.listed = artifact.root
    BY DEF VerifySkill, ContentDigest
  <1> QED BY <1>4, <1>5, <1>6 DEF Described

LEMMA DescribedIs ==
  ASSUME NEW artifact
  PROVE  /\ DOMAIN Described(artifact) = SkillParts
         /\ Described(artifact).artifact = artifact
         /\ DOMAIN Described(artifact).files = DOMAIN artifact.listed
         /\ \A p \in DOMAIN artifact.listed :
               Described(artifact).files[p] = artifact.listed[p]
  BY StagedSkillIs, RestrictIs DEF Described

----------------------------------------------------------------------------
(* Lemmas about the steps *)

LEMMA InitInv == Init => Inv
  <1> SUFFICES ASSUME Init PROVE Inv
    OBVIOUS
  <1>1. /\ DOMAIN drafts = {} /\ DOMAIN prepared = {} /\ DOMAIN claimed = {}
        /\ DOMAIN requests = {} /\ DOMAIN inputs = {} /\ DOMAIN endings = {}
        /\ opened = {} /\ "text" \notin DOMAIN shown
    BY DEF Init, NoFiles, Nothing
  <1>2. \A c \in Commands : pc[c] = "idle" /\ command[c] = Idle
    BY DEF Init
  <1>3. ShapeOK
    BY DEF Init, ShapeOK, Steps, Parts, Idle
  <1>4. VersionsAreGiven
    BY VersionAssumption DEF Init, VersionsAreGiven
  <1>5. OneMaker /\ DraftsKeepTheirSkills /\ InputsKeepTheirSkills /\ ApprovalsAgree
    BY <1>1 DEF OneMaker, DraftsKeepTheirSkills, InputsKeepTheirSkills, ApprovalsAgree
  <1>6. CommandsOK
    BY <1>1, <1>2 DEF CommandsOK, CommandOK, Watches, CopiesWereThere, StagedWasThere,
       PlacedWasThere, Follows, StagedReplaces, UnderWay
  <1>7. ReplacementsAreMeasured /\ TextIsMeasured
    BY <1>1 DEF ReplacementsAreMeasured, TextIsMeasured
  <1> QED BY <1>3, <1>4, <1>5, <1>6, <1>7 DEF Inv

\* Where a command goes is its own affair: the others stand where they stood.
LEMMA Going ==
  ASSUME ShapeOK, NEW c \in Commands, NEW step, NEW x, Goes(c, step, x)
  PROVE  /\ pc'[c] = step /\ command'[c] = x
         /\ \A d \in Commands : d # c => pc'[d] = pc[d] /\ command'[d] = command[d]
         /\ DOMAIN command' = Commands
         /\ tree' = tree /\ edits' = edits
         /\ step \in Steps => pc' \in [Commands -> Steps]
  BY DEF ShapeOK, Goes

\* A command goes on following its run while the run keeps what was read of it.
LEMMA Following ==
  ASSUME NEW d \in Commands, Follows(d), NEW run, run = command[d].report.run,
         command'[d].report = command[d].report, command'[d].source = command[d].source,
         command'[d].replaced = command[d].replaced,
         UnderWay(d)' => UnderWay(d),
         d \in DOMAIN prepared' => d \in DOMAIN prepared \/ UnderWay(d),
         MeasuredRun(run) => /\ MeasuredRun(run)' /\ prepared'[run] = prepared[run]
                             /\ \A f \in RunDocuments \cap DOMAIN drafts[run] :
                                   f \in DOMAIN drafts'[run] /\ drafts'[run][f] = drafts[run][f]
  PROVE  Follows(d)'
  <1> SUFFICES ASSUME command[d].report # Nothing,
                      UnderWay(d)' \/ d \in DOMAIN prepared'
               PROVE  MeasuredRun(run)' /\ (UnderWay(d)' => FromItsRun(d)')
    BY DEF Follows
  <1>1. MeasuredRun(run) /\ (UnderWay(d) => FromItsRun(d))
    BY DEF Follows
  <1>2. MeasuredRun(run)'
    BY <1>1
  <1>3. ASSUME UnderWay(d)' PROVE FromItsRun(d)'
    <2>1. /\ command[d].replaced = prepared[run]["skill"].artifact
          /\ RunDocuments \subseteq DOMAIN drafts[run]
          /\ command[d].source.policy = drafts[run]["policy.json"]
          /\ command[d].source.validation = drafts[run]["validation.json"]
          /\ command[d].source.validation.evidence = drafts[run]["evidence.json"]
      BY <1>1, <1>3 DEF FromItsRun
    <2>2. \A f \in RunDocuments : f \in DOMAIN drafts'[run] /\ drafts'[run][f] = drafts[run][f]
      BY <1>1, <2>1
    <2>3. /\ drafts'[run]["policy.json"] = drafts[run]["policy.json"]
          /\ drafts'[run]["validation.json"] = drafts[run]["validation.json"]
          /\ drafts'[run]["evidence.json"] = drafts[run]["evidence.json"]
      BY <2>2 DEF RunDocuments
    <2>4. RunDocuments \subseteq DOMAIN drafts'[run] /\ prepared'[run] = prepared[run]
      BY <1>1, <2>2
    <2> QED BY <2>1, <2>3, <2>4 DEF FromItsRun
  <1> QED BY <1>2, <1>3

\* What is said of a command stands while the command and what it says it of do.
LEMMA Staying ==
  ASSUME NEW d \in Commands, CommandOK(d), pc'[d] = pc[d], command'[d] = command[d],
         tree' = tree, edits' = edits, drafts' = drafts, prepared' = prepared,
         endings' = endings
  PROVE  CommandOK(d)'
  <1>1. Watches(d)'
    BY DEF CommandOK, Watches
  <1>2. CopiesWereThere(d)'
    BY DEF CommandOK, CopiesWereThere, ThereTogether
  <1>3. StagedWasThere(d)'
    BY DEF CommandOK, StagedWasThere, WereThere
  <1>4. PlacedWasThere(d)'
    BY DEF CommandOK, PlacedWasThere, WereThere
  <1>5. Follows(d)'
    <2>1. PICK run : run = command[d].report.run
      OBVIOUS
    <2>2. UnderWay(d)' => UnderWay(d)
      BY DEF UnderWay
    <2>3. MeasuredRun(run) => MeasuredRun(run)'
      BY DEF MeasuredRun
    <2>4. Follows(d)
      BY DEF CommandOK
    <2> QED BY <2>1, <2>2, <2>3, <2>4, Following
  <1>6. StagedReplaces(d)'
    BY DEF CommandOK, StagedReplaces
  <1> QED BY <1>1, <1>2, <1>3, <1>4, <1>5, <1>6 DEF CommandOK

\* A draft goes on replacing a measured Skill while the two drafts and the ending
\* of the run stand.
LEMMA StillReplacing ==
  ASSUME NEW d, ReplacesMeasured(d), command'[d].report = command[d].report,
         drafts' = drafts, prepared' = prepared, endings' = endings
  PROVE  ReplacesMeasured(d)'
  <1>1. PICK run : run = command[d].report.run
    OBVIOUS
  <1>2. MeasuredRun(run)'
    BY <1>1 DEF ReplacesMeasured, MeasuredRun
  <1> QED BY <1>1, <1>2 DEF ReplacesMeasured

\* A command that moves on, and leaves the disk alone, keeps the invariant if
\* what is said of it still holds.
LEMMA MovesOn ==
  ASSUME Inv, NEW c \in Commands, NEW step \in Steps, NEW x,
         Goes(c, step, x), UNCHANGED disk, DOMAIN x = Parts,
         c \in DOMAIN prepared => /\ step \in {"placed", "done", "failed"}
                                  /\ x.report = command[c].report,
         CommandOK(c)'
  PROVE  Inv'
  <1>1. /\ pc'[c] = step /\ command'[c] = x
        /\ \A d \in Commands : d # c => pc'[d] = pc[d] /\ command'[d] = command[d]
        /\ DOMAIN command' = Commands
        /\ tree' = tree /\ edits' = edits
        /\ pc' \in [Commands -> Steps]
    BY Going DEF Inv
  <1>2. /\ drafts' = drafts /\ prepared' = prepared /\ claimed' = claimed
        /\ requests' = requests /\ inputs' = inputs /\ endings' = endings
        /\ opened' = opened /\ shown' = shown /\ bound' = bound
    BY DEF disk
  <1>3. ShapeOK'
    BY <1>1, <1>2 DEF Inv, ShapeOK
  <1>4. VersionsAreGiven'
    BY <1>1 DEF Inv, VersionsAreGiven
  <1>5. OneMaker'
    BY <1>1, <1>2 DEF Inv, OneMaker
  <1>6. DraftsKeepTheirSkills' /\ InputsKeepTheirSkills' /\ ApprovalsAgree'
    BY <1>2 DEF Inv, DraftsKeepTheirSkills, InputsKeepTheirSkills, ApprovalsAgree
  <1>7. CommandsOK'
    <2> SUFFICES ASSUME NEW d \in Commands, d # c PROVE CommandOK(d)'
      BY DEF CommandsOK
    <2>1. CommandOK(d)
      BY DEF Inv, CommandsOK
    <2>2. pc'[d] = pc[d] /\ command'[d] = command[d]
      BY <1>1
    <2> QED BY <1>1, <1>2, <2>1, <2>2, Staying
  <1>8. ReplacementsAreMeasured'
    <2>1. \A d \in DOMAIN prepared : d \in Commands /\ command'[d].report = command[d].report
      BY <1>1 DEF Inv, OneMaker
    <2> QED BY <1>2, <2>1, StillReplacing DEF Inv, ReplacementsAreMeasured
  <1>9. TextIsMeasured'
    BY <1>2 DEF Inv, TextIsMeasured
  <1> QED BY <1>3, <1>4, <1>5, <1>6, <1>7, <1>8, <1>9 DEF Inv

\* A command that stops keeps nothing but the report it worked from.
LEMMA Stopping ==
  ASSUME Inv, NEW c \in Commands, NEW step \in {"done", "failed"}, UnderWay(c),
         Stops(c, step), UNCHANGED disk
  PROVE  Inv'
  <1> DEFINE x == [Idle EXCEPT !.report = command[c].report]
  <1>1. DOMAIN x = Parts /\ x.report = command[c].report
    BY DEF Idle, Parts
  <1>2. Goes(c, step, x)
    BY DEF Stops
  <1> HIDE DEF x
  <1>3. step \in Steps
    BY DEF Steps
  <1>4. pc'[c] = step /\ command'[c] = x
    BY <1>2, Going DEF Inv
  <1>5. prepared' = prepared /\ endings' = endings
    BY DEF disk
  <1>6. CommandOK(c)'
    <2>1. Follows(c)
      BY DEF Inv, CommandsOK, CommandOK
    <2>2. Follows(c)'
      BY <1>1, <1>4, <1>5, <2>1 DEF Follows, UnderWay, MeasuredRun
    <2> QED BY <1>4, <2>2 DEF CommandOK, Watches, CopiesWereThere, StagedWasThere,
           PlacedWasThere, StagedReplaces
  <1> QED BY <1>1, <1>2, <1>3, <1>6, MovesOn

\* Nor does anything change that is said of commands when the disk alone does.
LEMMA DiskMoves ==
  ASSUME Inv, UNCHANGED elsewhere,
         DOMAIN endings \subseteq DOMAIN endings',
         \A d \in DOMAIN endings : endings'[d] = endings[d]
  PROVE  /\ ShapeOK' /\ VersionsAreGiven' /\ DraftsKeepTheirSkills' /\ CommandsOK'
         /\ ReplacementsAreMeasured'
  <1>1. /\ tree' = tree /\ edits' = edits /\ pc' = pc /\ command' = command
        /\ drafts' = drafts /\ prepared' = prepared /\ bound' = bound
    BY DEF elsewhere
  <1>2. ShapeOK' /\ VersionsAreGiven' /\ DraftsKeepTheirSkills'
    BY <1>1 DEF Inv, ShapeOK, VersionsAreGiven, DraftsKeepTheirSkills
  <1>3. ASSUME NEW c \in Commands PROVE CommandOK(c)'
    <2>1. CommandOK(c)
      BY DEF Inv, CommandsOK
    <2>2. Follows(c)'
      BY <1>1, <2>1 DEF CommandOK, Follows, UnderWay, MeasuredRun, FromItsRun
    <2> QED BY <1>1, <2>1, <2>2 DEF CommandOK, Watches, CopiesWereThere, ThereTogether,
           StagedWasThere, PlacedWasThere, WereThere, StagedReplaces
  <1>4. ReplacementsAreMeasured'
    BY <1>1 DEF Inv, ReplacementsAreMeasured, ReplacesMeasured, MeasuredRun
  <1> QED BY <1>2, <1>3, <1>4 DEF CommandsOK

----------------------------------------------------------------------------
(* The steps of a command *)

LEMMA PreparingForClimb ==
  ASSUME Inv, NEW c \in Commands, PrepareForClimb(c) PROVE Inv'
  <1>1. pc[c] = "idle" /\ UNCHANGED disk
    BY DEF PrepareForClimb, Begins
  <1>2. c \notin DOMAIN prepared
    BY <1>1 DEF Inv, OneMaker
  <1>3. PICK step \in {"list", "failed"} : \E x :
          Goes(c, step, x) /\ (x = Idle \/ \E s : x = [Idle EXCEPT !.source = s])
    BY DEF PrepareForClimb
  <1>4. PICK x : Goes(c, step, x) /\ (x = Idle \/ \E s : x = [Idle EXCEPT !.source = s])
    BY <1>3
  <1>5. /\ DOMAIN x = Parts /\ x.report = Nothing
        /\ x.scanned = NoFiles /\ x.copied = NoFiles
    BY <1>4 DEF Idle, Parts
  <1>6. pc'[c] = step /\ command'[c] = x
    BY <1>4, Going DEF Inv
  <1>7. CommandOK(c)'
    BY <1>5, <1>6 DEF CommandOK, Watches, CopiesWereThere, StagedWasThere,
       PlacedWasThere, Follows, StagedReplaces
  <1>8. step \in Steps
    BY DEF Steps
  <1> QED BY <1>1, <1>2, <1>4, <1>5, <1>7, <1>8, MovesOn

\* What a run that may be replaced was given, by the files its inputs hold.
LEMMA GivenToTheRun ==
  ASSUME Inv, NEW d \in DOMAIN inputs
  PROVE  /\ d \in DOMAIN drafts /\ d \in DOMAIN prepared
         /\ "skill" \in DOMAIN inputs[d] /\ "skill" \in DOMAIN drafts[d]
         /\ DOMAIN inputs[d]["skill"] = SkillParts
         /\ inputs[d]["skill"].artifact = prepared[d]["skill"].artifact
         /\ \A f \in DOMAIN drafts[d] \ SkillNames : inputs[d][f] = drafts[d][f]
         /\ DOMAIN inputs[d] = DOMAIN drafts[d]
  <1>1. d \in DOMAIN drafts /\ d \in DOMAIN prepared
    BY DEF Inv, OneMaker
  <1>2. "skill" \in SkillNames /\ "skill" \in DOMAIN drafts[d]
    BY <1>1 DEF Inv, DraftsKeepTheirSkills, SkillNames
  <1> QED BY <1>1, <1>2 DEF Inv, InputsKeepTheirSkills

LEMMA PreparingReplacement ==
  ASSUME Inv, NEW c \in Commands, PrepareReplacement(c) PROVE Inv'
  <1>1. pc[c] = "idle" /\ UNCHANGED disk
    BY DEF PrepareReplacement, Begins
  <1>2. c \notin DOMAIN prepared
    BY <1>1 DEF Inv, OneMaker
  <1>3. PICK d \in DOMAIN inputs :
          IF CompletedRealRun(d)
          THEN Goes(c, "list",
                    [Idle EXCEPT !.source = SourceOf(inputs[d]), !.report = ReportOf(d),
                                 !.replaced = inputs[d]["skill"].artifact])
          ELSE Goes(c, "failed", Idle)
    BY DEF PrepareReplacement
  <1>4. CASE ~CompletedRealRun(d)
    <2>1. Goes(c, "failed", Idle)
      BY <1>3, <1>4
    <2>2. DOMAIN Idle = Parts /\ Idle.report = Nothing /\ "failed" \in Steps
      BY DEF Idle, Parts, Steps
    <2>3. pc'[c] = "failed" /\ command'[c] = Idle
      BY <2>1, Going DEF Inv
    <2>4. CommandOK(c)'
      BY <2>2, <2>3 DEF CommandOK, Watches, CopiesWereThere, StagedWasThere,
         PlacedWasThere, Follows, StagedReplaces
    <2> QED BY <1>1, <1>2, <2>1, <2>2, <2>4, MovesOn
  <1>5. CASE CompletedRealRun(d)
    <2> DEFINE x == [Idle EXCEPT !.source = SourceOf(inputs[d]), !.report = ReportOf(d),
                                 !.replaced = inputs[d]["skill"].artifact]
    <2>1. Goes(c, "list", x)
      BY <1>3, <1>5
    <2>2. /\ DOMAIN x = Parts /\ x.scanned = NoFiles /\ x.copied = NoFiles
          /\ x.report.run = d /\ x.source = SourceOf(inputs[d])
          /\ x.replaced = inputs[d]["skill"].artifact /\ "list" \in Steps
      BY DEF Idle, Parts, Steps, ReportOf
    <2> HIDE DEF x
    <2>3. pc'[c] = "list" /\ command'[c] = x
      BY <2>1, Going DEF Inv
    <2>4. prepared' = prepared /\ endings' = endings /\ drafts' = drafts
      BY <1>1 DEF disk
    <2>5. MeasuredRun(d)
      BY <1>5 DEF CompletedRealRun, MeasuredRun
    <2>6. /\ RunDocuments \subseteq DOMAIN inputs[d]
          /\ inputs[d]["validation.json"].evidence = inputs[d]["evidence.json"]
      <3>1. VerifyInputs(inputs[d], drafts[d]["draft.json"])
        BY <1>5 DEF CompletedRealRun
      <3>2. ReadsSource(inputs[d]) /\ VerifiesEvidence(inputs[d])
        BY <3>1 DEF VerifyInputs
      <3> QED BY <3>2 DEF ReadsSource, VerifiesEvidence, RunDocuments, DocumentNames
    <2>7. /\ SourceOf(inputs[d]).policy = inputs[d]["policy.json"]
          /\ SourceOf(inputs[d]).validation = inputs[d]["validation.json"]
      BY DEF SourceOf
    <2>8. /\ x.replaced = prepared[d]["skill"].artifact
          /\ RunDocuments \subseteq DOMAIN drafts[d]
          /\ \A f \in RunDocuments : inputs[d][f] = drafts[d][f]
      BY <2>2, <2>6, GivenToTheRun DEF RunDocuments, SkillNames
    <2>9. Follows(c)'
      BY <2>2, <2>3, <2>4, <2>5, <2>6, <2>7, <2>8
         DEF Follows, FromItsRun, MeasuredRun, RunDocuments
    <2>10. CommandOK(c)'
      BY <2>2, <2>3, <2>9 DEF CommandOK, Watches, CopiesWereThere, StagedWasThere,
         PlacedWasThere, StagedReplaces
    <2> QED BY <1>1, <1>2, <2>1, <2>2, <2>10, MovesOn
  <1> QED BY <1>4, <1>5

\* A command that is still reading has placed nothing, and what it follows from
\* stays as it was.
LEMMA StillReading ==
  ASSUME Inv, NEW c \in Commands, pc[c] \in {"list", "check", "read", "copy", "place"},
         NEW step \in {"check", "read", "copy", "place", "placed"}, NEW x,
         Goes(c, step, x), endings' = endings,
         \A d \in DOMAIN prepared : prepared'[d] = prepared[d] /\ drafts'[d] = drafts[d],
         x.report = command[c].report, x.source = command[c].source,
         x.replaced = command[c].replaced
  PROVE  /\ c \notin DOMAIN prepared
         /\ step \in Steps /\ pc'[c] = step /\ command'[c] = x
         /\ Follows(c)'
  <1>1. c \notin DOMAIN prepared
    BY DEF Inv, OneMaker
  <1>2. pc'[c] = step /\ command'[c] = x
    BY Going DEF Inv
  <1>3. Follows(c)
    BY DEF Inv, CommandsOK, CommandOK
  <1>4. UnderWay(c)
    BY DEF UnderWay
  <1>5. PICK run : run = command[c].report.run
    OBVIOUS
  <1>6. MeasuredRun(run) => MeasuredRun(run)' /\ run \in DOMAIN prepared
    BY DEF MeasuredRun, Inv, OneMaker
  <1>7. Follows(c)'
    BY <1>2, <1>3, <1>4, <1>5, <1>6, Following
  <1> QED BY <1>1, <1>2, <1>7 DEF Steps

LEMMA Listing ==
  ASSUME Inv, NEW c \in Commands, ListFiles(c) PROVE Inv'
  <1>1. pc[c] = "list" /\ UNCHANGED disk
    BY DEF ListFiles
  <1> DEFINE x == [command[c] EXCEPT !.files = DOMAIN tree, !.moments = {tree}]
  <1>2. CASE Stops(c, "failed")
    BY <1>1, <1>2, Stopping DEF UnderWay
  <1>3. CASE Goes(c, "check", x)
    <2>1. /\ DOMAIN x = Parts /\ x.scanned = NoFiles /\ x.copied = NoFiles
          /\ x.moments = {tree} /\ x.report = command[c].report
          /\ x.source = command[c].source /\ x.replaced = command[c].replaced
      BY <1>1 DEF Inv, ShapeOK, CommandsOK, CommandOK, Watches, Parts
    <2> HIDE DEF x
    <2>2. /\ c \notin DOMAIN prepared
          /\ "check" \in Steps /\ pc'[c] = "check" /\ command'[c] = x
          /\ Follows(c)'
      <3>1. endings' = endings /\ prepared' = prepared /\ drafts' = drafts
        BY <1>1 DEF disk
      <3> QED BY <1>1, <1>3, <2>1, <3>1, StillReading
    <2>3. tree' = tree /\ DOMAIN NoFiles = {}
      BY <1>3 DEF Goes, NoFiles
    <2>4. CommandOK(c)'
      BY <2>1, <2>2, <2>3 DEF CommandOK, Watches, CopiesWereThere, StagedWasThere,
         PlacedWasThere, StagedReplaces
    <2> QED BY <1>1, <1>3, <2>1, <2>2, <2>4, MovesOn
  <1> QED BY <1>2, <1>3 DEF ListFiles

LEMMA Checking ==
  ASSUME Inv, NEW c \in Commands, CheckFile(c) PROVE Inv'
  <1>1. pc[c] = "check" /\ UNCHANGED disk
    BY DEF CheckFile
  <1>2. CASE Stops(c, "failed")
    BY <1>1, <1>2, Stopping DEF UnderWay
  <1>3. ASSUME NEW path, Goes(c, "read", [command[c] EXCEPT !.file = path]) PROVE Inv'
    <2> DEFINE x == [command[c] EXCEPT !.file = path]
    <2>1. /\ DOMAIN x = Parts /\ x.scanned = command[c].scanned
          /\ x.copied = command[c].copied /\ x.moments = command[c].moments
          /\ x.report = command[c].report
          /\ x.source = command[c].source /\ x.replaced = command[c].replaced
      BY DEF Inv, ShapeOK, Parts
    <2>2. Goes(c, "read", x)
      BY <1>3
    <2> HIDE DEF x
    <2>3. /\ c \notin DOMAIN prepared
          /\ "read" \in Steps /\ pc'[c] = "read" /\ command'[c] = x
          /\ Follows(c)'
      <3>1. endings' = endings /\ prepared' = prepared /\ drafts' = drafts
        BY <1>1 DEF disk
      <3> QED BY <1>1, <2>1, <2>2, <3>1, StillReading
    <2>4. Watches(c) /\ tree' = tree /\ edits' = edits
      BY <2>2 DEF Inv, CommandsOK, CommandOK, Goes
    <2>5. CommandOK(c)'
      BY <1>1, <2>1, <2>3, <2>4 DEF CommandOK, Watches, CopiesWereThere,
         StagedWasThere, PlacedWasThere, StagedReplaces
    <2> QED BY <1>1, <2>1, <2>2, <2>3, <2>5, MovesOn
  <1> QED BY <1>2, <1>3 DEF CheckFile

LEMMA Reading ==
  ASSUME Inv, NEW c \in Commands, ReadFile(c) PROVE Inv'
  <1> DEFINE path == command[c].file
             x == [command[c] EXCEPT !.files = @ \ {path}, !.file = "none",
                                     !.scanned = With(@, path, tree[path])]
  <1>1. pc[c] = "read" /\ UNCHANGED disk
    BY DEF ReadFile
  <1>2. CASE Stops(c, "failed")
    BY <1>1, <1>2, Stopping DEF UnderWay
  <1>3. CASE path \in DOMAIN tree /\ Goes(c, "check", x)
    <2>1. /\ DOMAIN x = Parts
          /\ x.scanned = With(command[c].scanned, path, tree[path])
          /\ x.copied = command[c].copied /\ x.moments = command[c].moments
          /\ x.report = command[c].report
          /\ x.source = command[c].source /\ x.replaced = command[c].replaced
      BY DEF Inv, ShapeOK, Parts
    <2> HIDE DEF x
    <2>2. /\ c \notin DOMAIN prepared
          /\ "check" \in Steps /\ pc'[c] = "check" /\ command'[c] = x
          /\ Follows(c)'
      <3>1. endings' = endings /\ prepared' = prepared /\ drafts' = drafts
        BY <1>1 DEF disk
      <3> QED BY <1>1, <1>3, <2>1, <3>1, StillReading
    <2>3. Watches(c) /\ tree' = tree /\ edits' = edits
      BY <1>3 DEF Inv, CommandsOK, CommandOK, Goes
    <2>4. tree[path].version \in 1 .. edits + 1
      BY <1>3 DEF Inv, VersionsAreGiven
    <2>5. \A p \in DOMAIN x.scanned : x.scanned[p].version \in 1 .. edits + 1
      <3> SUFFICES ASSUME NEW p \in DOMAIN x.scanned
                   PROVE  x.scanned[p].version \in 1 .. edits + 1
        OBVIOUS
      <3> DEFINE before == command[c].scanned
      <3>0. x.scanned = [q \in DOMAIN before \cup {path} |->
                          IF q = path THEN tree[path] ELSE before[q]]
        BY <2>1 DEF With
      <3> HIDE DEF before
      <3>1. CASE p = path
        BY <3>0, <2>4, <3>1
      <3>2. CASE p # path
        <4>1. p \in DOMAIN before /\ x.scanned[p] = before[p]
          BY <3>0, <3>2
        <4> QED BY <1>1, <2>3, <4>1 DEF Watches, before
      <3> QED BY <3>1, <3>2
    <2>6. Watches(c)'
      BY <1>1, <2>1, <2>2, <2>3, <2>5 DEF Watches
    <2>7. CommandOK(c)'
      BY <2>2, <2>6 DEF CommandOK, CopiesWereThere, StagedWasThere, PlacedWasThere,
         StagedReplaces
    <2> QED BY <1>1, <1>3, <2>1, <2>2, <2>7, MovesOn
  <1> QED BY <1>2, <1>3 DEF ReadFile

\* When the scan ends, what was there together is what is there.
LEMMA EndingTheScan ==
  ASSUME Inv, NEW c \in Commands, EndScan(c) PROVE Inv'
  <1> DEFINE x == [command[c] EXCEPT !.files = DOMAIN command[c].scanned]
  <1>1. pc[c] = "check" /\ UNCHANGED disk
    BY DEF EndScan
  <1>2. CASE Stops(c, "failed")
    BY <1>1, <1>2, Stopping DEF UnderWay
  <1>3. CASE Goes(c, "copy", x)
    <2>1. /\ DOMAIN x = Parts /\ x.files = DOMAIN command[c].scanned
          /\ x.scanned = command[c].scanned
          /\ x.copied = command[c].copied /\ x.moments = command[c].moments
          /\ x.report = command[c].report
          /\ x.source = command[c].source /\ x.replaced = command[c].replaced
      BY DEF Inv, ShapeOK, Parts
    <2> HIDE DEF x
    <2>2. /\ c \notin DOMAIN prepared
          /\ "copy" \in Steps /\ pc'[c] = "copy" /\ command'[c] = x
          /\ Follows(c)'
      <3>1. endings' = endings /\ prepared' = prepared /\ drafts' = drafts
        BY <1>1 DEF disk
      <3> QED BY <1>1, <1>3, <2>1, <3>1, StillReading
    <2>3. Watches(c) /\ tree' = tree /\ edits' = edits
      BY <1>3 DEF Inv, CommandsOK, CommandOK, Goes
    <2>4. ThereTogether(c, tree)' /\ tree \in x.moments
      <3>1. command[c].copied = NoFiles /\ DOMAIN NoFiles = {}
        BY <1>1, <2>3 DEF Watches, NoFiles
      <3> QED BY <1>1, <2>1, <2>2, <2>3, <3>1 DEF ThereTogether, Watches
    <2>5. CopiesWereThere(c)'
      <3>1. command[c].copied = NoFiles
        BY <1>1, <2>3 DEF Watches
      <3>2. IsFunction(NoFiles)
        BY DEF IsFunction, Restrict, NoFiles
      <3> QED BY <2>1, <2>2, <2>3, <2>4, <3>1, <3>2 DEF CopiesWereThere
    <2>6. CommandOK(c)'
      BY <1>1, <2>1, <2>2, <2>3, <2>5 DEF CommandOK, Watches, StagedWasThere,
         PlacedWasThere, StagedReplaces
    <2> QED BY <1>1, <1>3, <2>1, <2>2, <2>6, MovesOn
  <1> QED BY <1>2, <1>3 DEF EndScan

\* A file is copied as it was scanned, so it is as it was when the scan ended.
LEMMA Copying ==
  ASSUME Inv, NEW c \in Commands, CopyFile(c) PROVE Inv'
  <1>1. pc[c] = "copy" /\ UNCHANGED disk
    BY DEF CopyFile
  <1>2. CASE Stops(c, "failed")
    BY <1>1, <1>2, Stopping DEF UnderWay
  <1>3. ASSUME NEW path \in command[c].files,
               path \in DOMAIN tree, tree[path] = command[c].scanned[path],
               Goes(c, "copy", [command[c] EXCEPT !.files = @ \ {path},
                                                  !.copied = With(@, path, tree[path])])
        PROVE Inv'
    <2> DEFINE x == [command[c] EXCEPT !.files = @ \ {path},
                                       !.copied = With(@, path, tree[path])]
    <2>1. /\ DOMAIN x = Parts /\ x.files = command[c].files \ {path}
          /\ x.scanned = command[c].scanned
          /\ x.copied = With(command[c].copied, path, tree[path])
          /\ x.moments = command[c].moments
          /\ x.report = command[c].report
          /\ x.source = command[c].source /\ x.replaced = command[c].replaced
      BY DEF Inv, ShapeOK, Parts
    <2>2. Goes(c, "copy", x)
      BY <1>3
    <2> HIDE DEF x
    <2>3. /\ c \notin DOMAIN prepared
          /\ "copy" \in Steps /\ pc'[c] = "copy" /\ command'[c] = x
          /\ Follows(c)'
      <3>1. endings' = endings /\ prepared' = prepared /\ drafts' = drafts
        BY <1>1 DEF disk
      <3> QED BY <1>1, <2>1, <2>2, <3>1, StillReading
    <2>4. Watches(c) /\ CopiesWereThere(c) /\ tree' = tree /\ edits' = edits
      BY <2>2 DEF Inv, CommandsOK, CommandOK, Goes
    <2>5. PICK moment \in command[c].moments : ThereTogether(c, moment)
      BY <1>1, <2>4 DEF CopiesWereThere
    <2>6. path \in DOMAIN command[c].scanned
      BY <1>1, <1>3, <2>4 DEF CopiesWereThere
    <2>7. path \in DOMAIN moment /\ moment[path] = tree[path]
      BY <1>3, <2>5, <2>6 DEF ThereTogether
    <2>8. \A p \in DOMAIN x.copied : p \in DOMAIN moment /\ moment[p] = x.copied[p]
      <3> SUFFICES ASSUME NEW p \in DOMAIN x.copied
                   PROVE  p \in DOMAIN moment /\ moment[p] = x.copied[p]
        OBVIOUS
      <3> DEFINE before == command[c].copied
      <3>0. x.copied = [q \in DOMAIN before \cup {path} |->
                          IF q = path THEN tree[path] ELSE before[q]]
        BY <2>1 DEF With
      <3> HIDE DEF before
      <3>1. CASE p = path
        BY <3>0, <2>7, <3>1
      <3>2. CASE p # path
        <4>1. p \in DOMAIN before /\ x.copied[p] = before[p]
          BY <3>0, <3>2
        <4> QED BY <2>5, <4>1 DEF ThereTogether, before
      <3> QED BY <3>1, <3>2
    <2>9. ThereTogether(c, moment)'
      BY <2>1, <2>3, <2>4, <2>5, <2>8 DEF ThereTogether
    <2>10. CopiesWereThere(c)'
      <3>1. IsFunction(x.copied)
        BY <2>1 DEF With, IsFunction, Restrict
      <3> QED BY <1>1, <2>1, <2>3, <2>4, <2>9, <3>1 DEF CopiesWereThere
    <2>11. CommandOK(c)'
      BY <1>1, <2>1, <2>3, <2>4, <2>10 DEF CommandOK, Watches, StagedWasThere,
         PlacedWasThere, StagedReplaces
    <2> QED BY <1>1, <2>1, <2>2, <2>3, <2>11, MovesOn
  <1>4. command[c].files # {}
    BY DEF CopyFile
  <1> QED BY <1>2, <1>3, <1>4 DEF CopyFile

\* The files of a draft, by what they are made from.
LEMMA DraftFilesAre ==
  ASSUME NEW draft, NEW source, NEW evidence, NEW comparison, NEW staged, NEW replaced,
         NEW files, files = DraftFiles(draft, source, evidence, comparison, staged, replaced)
  PROVE  /\ "skill" \in DOMAIN files /\ files["skill"] = CopySkill(draft.skill, staged)
         /\ replaced = Nothing => "baseline-skill" \notin DOMAIN files
         /\ replaced # Nothing =>
               /\ "baseline-skill" \in DOMAIN files
               /\ files["baseline-skill"] = CopySkill(replaced.artifact, replaced)
         /\ "policy.json" \in DOMAIN files => files["policy.json"] = source.policy
         /\ "validation.json" \in DOMAIN files => files["validation.json"] = source.validation
         /\ "evidence.json" \in DOMAIN files => files["evidence.json"] = evidence
         /\ "campaign.json" \in DOMAIN files => files["campaign.json"] = source.campaign
         /\ IsFunction(files)
  <1> DEFINE written ==
          [f \in DocumentNames \cup SkillNames |->
            CASE f = "draft.json"      -> draft
              [] f = "comparison.json" -> comparison
              [] f = "climb.json"      -> source.climb
              [] f = "campaign.json"   -> source.campaign
              [] f = "policy.json"     -> source.policy
              [] f = "validation.json" -> source.validation
              [] f = "evidence.json"   -> evidence
              [] f = "baseline.json"   -> draft.baseline
              [] f = "candidate.json"  -> draft.candidate
              [] f = "skill"           -> CopySkill(draft.skill, staged)
              [] OTHER                 -> IF replaced = Nothing THEN Nothing
                                          ELSE CopySkill(replaced.artifact, replaced)]
             kept == {f \in DOMAIN written : written[f] # Nothing}
  <1>1. files = Restrict(written, kept)
    BY DEF DraftFiles
  <1>2. DOMAIN written = DocumentNames \cup SkillNames
    OBVIOUS
  <1>3. /\ written["policy.json"] = source.policy
        /\ written["validation.json"] = source.validation
        /\ written["evidence.json"] = evidence
        /\ written["campaign.json"] = source.campaign
    BY DEF DocumentNames
  <1>4. /\ written["skill"] = CopySkill(draft.skill, staged)
        /\ written["baseline-skill"] = IF replaced = Nothing THEN Nothing
                                       ELSE CopySkill(replaced.artifact, replaced)
        /\ {"skill", "baseline-skill"} \subseteq DOMAIN written
    BY DEF SkillNames
  <1>5. /\ CopySkill(draft.skill, staged) # Nothing
        /\ CopySkill(replaced.artifact, replaced) # Nothing
    BY StagedSkillIs DEF CopySkill
  <1> HIDE DEF written
  <1>6. DOMAIN files = kept /\ \A f \in kept : files[f] = written[f]
    BY <1>1, RestrictIs
  <1>7. IsFunction(files)
    BY <1>1, RestrictIs DEF IsFunction, Restrict
  <1> QED BY <1>3, <1>4, <1>5, <1>6, <1>7

\* What was staged are the copies, and in a replacement what the run was given.
LEMMA Making ==
  ASSUME Inv, NEW c \in Commands, MakeDraft(c) PROVE Inv'
  <1> DEFINE draft == DraftOf(c)
             copies == StagedSkill(draft.skill, draft.skill.archive, command[c].copied)
             files == DraftFiles(draft, DraftSource(c), DraftSource(c).validation.evidence,
                                 Comparison(c), copies, StagedBaseline(c))
             x == [command[c] EXCEPT !.staged = files]
             run == command[c].report.run
  <1>1. pc[c] = "copy" /\ UNCHANGED disk
    BY DEF MakeDraft
  <1>2. CASE Stops(c, "failed")
    BY <1>1, <1>2, Stopping DEF UnderWay
  <1>3. CASE BuildsDraft(c) /\ Goes(c, "place", x)
    <2>1. /\ DOMAIN x = Parts /\ x.staged = files
          /\ x.copied = command[c].copied /\ x.moments = command[c].moments
          /\ x.report = command[c].report
          /\ x.source = command[c].source /\ x.replaced = command[c].replaced
      BY DEF Inv, ShapeOK, Parts
    <2> HIDE DEF x
    <2>2. /\ c \notin DOMAIN prepared
          /\ "place" \in Steps /\ pc'[c] = "place" /\ command'[c] = x
          /\ Follows(c)'
      <3>1. endings' = endings /\ prepared' = prepared /\ drafts' = drafts
        BY <1>1 DEF disk
      <3> QED BY <1>1, <1>3, <2>1, <3>1, StillReading
    <2>3. /\ "skill" \in DOMAIN files /\ files["skill"] = CopySkill(draft.skill, copies)
          /\ StagedBaseline(c) = Nothing => "baseline-skill" \notin DOMAIN files
          /\ StagedBaseline(c) # Nothing =>
                /\ "baseline-skill" \in DOMAIN files
                /\ files["baseline-skill"]
                      = CopySkill(StagedBaseline(c).artifact, StagedBaseline(c))
          /\ "policy.json" \in DOMAIN files => files["policy.json"] = DraftSource(c).policy
          /\ "validation.json" \in DOMAIN files =>
                files["validation.json"] = DraftSource(c).validation
          /\ "evidence.json" \in DOMAIN files =>
                files["evidence.json"] = DraftSource(c).validation.evidence
      BY DraftFilesAre
    <2> HIDE DEF files
    <2>4. CopiesWereThere(c) /\ Follows(c)
      BY DEF Inv, CommandsOK, CommandOK
    <2>5. draft.skill = Candidate(c) /\ Candidate(c).listed = command[c].copied
      BY DEF DraftOf, BuildDraft, Candidate, ArtifactOf
    <2>6. files["skill"].artifact = Candidate(c)
      BY <2>3, <2>5, CopyIsTrimmed
    <2>7. /\ DOMAIN files["skill"].files \subseteq DOMAIN command[c].copied
          /\ \A p \in DOMAIN files["skill"].files :
                files["skill"].files[p] = command[c].copied[p]
      <3>1. copies.files = command[c].copied
        BY StagedSkillIs
      <3> HIDE DEF copies
      <3>2. files["skill"].files
              = Restrict(copies.files, DOMAIN draft.skill.listed \cap DOMAIN copies.files)
        BY <2>3, StagedSkillIs DEF CopySkill
      <3> QED BY <3>1, <3>2, RestrictIs
    <2>8. StagedWasThere(c)'
      <3>1. \A f \in SkillNames \cap DOMAIN files : Trimmed(files[f])
        BY <2>3, CopyIsTrimmed DEF SkillNames
      <3>2. PICK moment \in command[c].moments : ThereTogether(c, moment)
        BY <1>1, <2>4 DEF CopiesWereThere
      <3>3. \A p \in DOMAIN files["skill"].files :
              p \in DOMAIN moment /\ moment[p] = files["skill"].files[p]
        BY <2>7, <3>2 DEF ThereTogether
      <3>4. IsFunction(files["skill"].artifact.listed)
        BY <1>1, <2>4, <2>5, <2>6 DEF CopiesWereThere
      <3>5. command'[c].staged = files /\ moment \in command'[c].moments
        BY <2>1, <2>2, <3>2
      <3>6. WereThere(c, command[c].staged["skill"].files)'
        BY <3>3, <3>5 DEF WereThere
      <3> QED BY <2>3, <3>1, <3>4, <3>5, <3>6 DEF StagedWasThere
    <2>9. StagedReplaces(c)'
      <3> SUFFICES ASSUME command[c].report # Nothing
                   PROVE  /\ "baseline-skill" \in DOMAIN files
                          /\ files["baseline-skill"].artifact = command[c].replaced
                          /\ files["skill"].artifact.parent = command[c].replaced.root
                          /\ files["skill"].artifact.root # command[c].replaced.root
                          /\ \A f \in RunDocuments \cap DOMAIN files :
                                files[f] = drafts[run][f]
        BY <1>1, <2>1, <2>2 DEF StagedReplaces, disk
      <3>1. FromItsRun(c) /\ run \in DOMAIN inputs
        BY <1>1, <2>4 DEF Follows, UnderWay, MeasuredRun, Inv, OneMaker
      <3>2. StagedBaseline(c) = [inputs[run]["skill"] EXCEPT !.artifact = command[c].replaced]
        BY DEF StagedBaseline
      <3>3. DOMAIN inputs[run]["skill"] = SkillParts
        BY <3>1, GivenToTheRun
      <3>4. /\ StagedBaseline(c).artifact = command[c].replaced
            /\ DOMAIN StagedBaseline(c) = SkillParts
        BY <3>2, <3>3 DEF SkillParts
      <3>5. StagedBaseline(c) # Nothing
        BY <3>4 DEF SkillParts, Nothing
      <3>6. /\ "baseline-skill" \in DOMAIN files
            /\ files["baseline-skill"].artifact = command[c].replaced
        BY <2>3, <3>4, <3>5, CopyIsTrimmed
      <3>7. Candidate(c).parent = command[c].replaced.root
        BY DEF Candidate, ArtifactOf
      <3>8. command[c].replaced.root # Candidate(c).root
        BY <1>3 DEF BuildsDraft, DerivesReplacement
      <3>9. /\ DraftSource(c).policy = command[c].source.policy
            /\ DraftSource(c).validation = command[c].source.validation
        BY DEF DraftSource, LocalSource
      <3>10. \A f \in RunDocuments \cap DOMAIN files : files[f] = drafts[run][f]
        BY <2>3, <3>1, <3>9 DEF FromItsRun, RunDocuments
      <3> QED BY <2>6, <3>6, <3>7, <3>8, <3>10
    <2>10. CommandOK(c)'
      BY <2>2, <2>8, <2>9 DEF CommandOK, Watches, CopiesWereThere, PlacedWasThere
    <2> QED BY <1>1, <1>3, <2>1, <2>2, <2>10, MovesOn
  <1> QED BY <1>2, <1>3 DEF MakeDraft

\* The draft that is placed was verified: its Skills are the ones their
\* artifacts describe.
LEMMA Verified ==
  ASSUME NEW files, VerifySnapshot(files),
         \A f \in SkillNames \cap DOMAIN files : Trimmed(files[f])
  PROVE  /\ "skill" \in DOMAIN files
         /\ files["skill"].artifact.listed = files["skill"].artifact.root
         /\ \A f \in SkillNames \cap DOMAIN files : files[f] = Described(files[f].artifact)
         /\ RunDocuments \cup {"draft.json"} \subseteq DOMAIN files
  <1>1. ReadsSource(files) /\ VerifySkill(files["skill"]) /\ VerifiesBaselineSkill(files)
    BY DEF VerifySnapshot
  <1>2. "skill" \in DOMAIN files /\ RunDocuments \cup {"draft.json"} \subseteq DOMAIN files
    BY <1>1 DEF ReadsSource, RunDocuments, DocumentNames
  <1>3. /\ files["skill"].artifact.listed = files["skill"].artifact.root
        /\ files["skill"] = Described(files["skill"].artifact)
    BY <1>1, <1>2, VerifiedIsDescribed DEF SkillNames
  <1>4. "baseline-skill" \in DOMAIN files =>
           files["baseline-skill"] = Described(files["baseline-skill"].artifact)
    BY <1>1, VerifiedIsDescribed DEF SkillNames, VerifiesBaselineSkill
  <1> QED BY <1>2, <1>3, <1>4 DEF SkillNames

LEMMA Placing ==
  ASSUME Inv, NEW c \in Commands, Place(c) PROVE Inv'
  <1> DEFINE files == command[c].staged
             kept == SkillNames \cap DOMAIN files
             x == [command[c] EXCEPT !.staged = NoFiles]
  <1>1. /\ pc[c] = "place"
        /\ claimed' = claimed /\ requests' = requests /\ inputs' = inputs
        /\ endings' = endings /\ opened' = opened /\ shown' = shown /\ bound' = bound
        /\ damaged' = damaged
    BY DEF Place
  <1>2. CASE Stops(c, "failed") /\ UNCHANGED <<drafts, prepared>>
    BY <1>1, <1>2, Stopping DEF UnderWay, disk
  <1>3. CASE /\ VerifySnapshot(files)
             /\ drafts' = With(drafts, c, files)
             /\ prepared' = With(prepared, c, Restrict(files, kept))
             /\ Goes(c, "placed", x)
    <2>1. /\ DOMAIN x = Parts /\ x.moments = command[c].moments
          /\ x.report = command[c].report
          /\ x.source = command[c].source /\ x.replaced = command[c].replaced
      BY DEF Inv, ShapeOK, Parts
    <2> HIDE DEF x
    <2>2. /\ c \notin DOMAIN drafts /\ DOMAIN prepared = DOMAIN drafts
          /\ DOMAIN inputs \subseteq DOMAIN drafts /\ DOMAIN endings \subseteq DOMAIN inputs
      BY <1>1 DEF Inv, OneMaker
    <2>3. /\ DOMAIN drafts' = DOMAIN drafts \cup {c} /\ drafts'[c] = files
          /\ DOMAIN prepared' = DOMAIN drafts \cup {c}
          /\ prepared'[c] = Restrict(files, kept)
          /\ \A d \in DOMAIN drafts : drafts'[d] = drafts[d] /\ prepared'[d] = prepared[d]
      <3>1. c \notin DOMAIN prepared
        BY <2>2
      <3>2. /\ DOMAIN drafts' = DOMAIN drafts \cup {c} /\ drafts'[c] = files
            /\ \A d \in DOMAIN drafts : drafts'[d] = drafts[d]
        <4> HIDE DEF files
        <4> QED BY <1>3, <2>2 DEF With
      <3>3. /\ DOMAIN prepared' = DOMAIN prepared \cup {c}
            /\ prepared'[c] = Restrict(files, kept)
            /\ \A d \in DOMAIN prepared : prepared'[d] = prepared[d]
        <4> DEFINE v == Restrict(files, kept)
        <4>1. prepared' = With(prepared, c, v)
          BY <1>3
        <4> HIDE DEF v
        <4>2. prepared' = [y \in DOMAIN prepared \cup {c} |-> IF y = c THEN v ELSE prepared[y]]
          BY <4>1 DEF With
        <4>3. prepared'[c] = v /\ DOMAIN prepared' = DOMAIN prepared \cup {c}
          BY <4>2
        <4> QED BY <3>1, <4>2, <4>3 DEF v
      <3> QED BY <2>2, <3>2, <3>3
    <2>4. /\ "placed" \in Steps /\ pc'[c] = "placed" /\ command'[c] = x
          /\ Follows(c)'
      BY <1>1, <1>3, <2>1, <2>2, <2>3, StillReading
    <2>5. /\ \A d \in Commands : d # c => pc'[d] = pc[d] /\ command'[d] = command[d]
          /\ DOMAIN command' = Commands
          /\ tree' = tree /\ edits' = edits
          /\ pc' \in [Commands -> Steps]
      BY <1>3, <2>4, Going DEF Inv
    <2>6. StagedWasThere(c) /\ StagedReplaces(c) /\ Follows(c)
      BY DEF Inv, CommandsOK, CommandOK
    <2>7. /\ "skill" \in DOMAIN files
          /\ files["skill"].artifact.listed = files["skill"].artifact.root
          /\ \A f \in kept : files[f] = Described(files[f].artifact)
          /\ RunDocuments \cup {"draft.json"} \subseteq DOMAIN files
      BY <1>1, <1>3, <2>6, Verified DEF StagedWasThere
    <2>8. /\ DOMAIN prepared'[c] = kept /\ "skill" \in kept
          /\ \A f \in kept : prepared'[c][f] = files[f] /\ DOMAIN files[f] = SkillParts
      BY <2>3, <2>7, RestrictIs, DescribedIs DEF SkillNames
    <2>9. ShapeOK' /\ VersionsAreGiven'
      BY <1>1, <2>1, <2>4, <2>5 DEF Inv, ShapeOK, VersionsAreGiven
    <2>10. OneMaker'
      BY <1>1, <2>2, <2>3, <2>4, <2>5 DEF Inv, OneMaker
    <2>11. DraftsKeepTheirSkills'
      <3> SUFFICES ASSUME NEW d \in DOMAIN drafts'
                   PROVE  /\ DOMAIN prepared'[d] = SkillNames \cap DOMAIN drafts'[d]
                          /\ RunDocuments \cup {"draft.json"} \subseteq DOMAIN drafts'[d]
                          /\ "skill" \in DOMAIN prepared'[d]
                          /\ prepared'[d]["skill"].artifact.listed
                                = prepared'[d]["skill"].artifact.root
                          /\ IsFunction(prepared'[d]["skill"].artifact.listed)
                          /\ \A f \in DOMAIN prepared'[d] :
                                /\ prepared'[d][f] = Described(prepared'[d][f].artifact)
                                /\ DOMAIN drafts'[d][f] = SkillParts
                                /\ drafts'[d][f].artifact = prepared'[d][f].artifact
        BY DEF DraftsKeepTheirSkills
      <3>1. CASE d = c
        <4>1. IsFunction(files["skill"].artifact.listed)
          BY <1>1, <2>6 DEF StagedWasThere
        <4> QED BY <2>3, <2>7, <2>8, <3>1, <4>1
      <3>2. CASE d \in DOMAIN drafts
        <4>1. drafts'[d] = drafts[d] /\ prepared'[d] = prepared[d]
          BY <2>3, <3>2
        <4> QED BY <3>2, <4>1 DEF Inv, DraftsKeepTheirSkills
      <3> QED BY <2>3, <3>1, <3>2
    <2>12. InputsKeepTheirSkills'
      BY <1>1, <2>2, <2>3 DEF Inv, InputsKeepTheirSkills
    <2>13. ApprovalsAgree'
      BY <1>1, <2>3 DEF Inv, OneMaker, ApprovalsAgree
    <2>14. ASSUME NEW d \in Commands PROVE CommandOK(d)'
      <3>1. CASE d = c
        <4>1. WereThere(c, prepared[c]["skill"].files)'
          <5>1. WereThere(c, files["skill"].files)
            BY <1>1, <2>6 DEF StagedWasThere
          <5>2. command'[c].moments = command[c].moments
            BY <2>1, <2>4
          <5> QED BY <2>8, <5>1, <5>2 DEF WereThere
        <4> QED BY <2>4, <3>1, <4>1 DEF CommandOK, Watches, CopiesWereThere,
               StagedWasThere, PlacedWasThere, StagedReplaces
      <3>2. CASE d # c
        <4>1. CommandOK(d) /\ pc'[d] = pc[d] /\ command'[d] = command[d]
          BY <2>5, <3>2 DEF Inv, CommandsOK
        <4>2. (UnderWay(d) \/ d \in DOMAIN prepared) /\ command[d].report # Nothing
                 => command[d].report.run \in DOMAIN drafts
          BY <2>2, <4>1 DEF CommandOK, Follows, MeasuredRun
        <4>3. Follows(d)'
          <5>1. PICK run : run = command[d].report.run
            OBVIOUS
          <5>2. /\ UnderWay(d)' => UnderWay(d)
                /\ d \in DOMAIN prepared' => d \in DOMAIN prepared
            BY <2>2, <2>3, <3>2, <4>1 DEF UnderWay
          <5>3. MeasuredRun(run) => MeasuredRun(run)' /\ run \in DOMAIN drafts
            BY <1>1, <2>2 DEF MeasuredRun
          <5>4. /\ run \in DOMAIN drafts => /\ prepared'[run] = prepared[run]
                                            /\ drafts'[run] = drafts[run]
                /\ Follows(d)
            BY <2>3, <4>1 DEF CommandOK
          <5> QED BY <4>1, <5>1, <5>2, <5>3, <5>4, Following
        <4>4. StagedReplaces(d)'
          BY <2>3, <4>1, <4>2 DEF CommandOK, StagedReplaces, UnderWay
        <4>5. Watches(d)' /\ CopiesWereThere(d)' /\ StagedWasThere(d)'
          BY <2>5, <4>1 DEF CommandOK, Watches, CopiesWereThere, ThereTogether,
             StagedWasThere, WereThere
        <4>6. PlacedWasThere(d)'
          BY <2>2, <2>3, <3>2, <4>1 DEF CommandOK, PlacedWasThere, WereThere
        <4> QED BY <4>3, <4>4, <4>5, <4>6 DEF CommandOK
      <3> QED BY <3>1, <3>2
    <2>15. ReplacementsAreMeasured'
      <3> SUFFICES ASSUME NEW d \in DOMAIN prepared', command'[d].report # Nothing
                   PROVE  ReplacesMeasured(d)'
        BY DEF ReplacementsAreMeasured
      <3>1. CASE d = c
        <4>0. PICK run, A, B : /\ run = command[c].report.run
                               /\ A = files["skill"].artifact
                               /\ B = prepared[run]["skill"].artifact
          OBVIOUS
        <4>1. command[c].report # Nothing /\ command'[c].report = command[c].report
          BY <2>1, <2>4, <3>1
        <4> USE <4>0
        <4>2. /\ MeasuredRun(run) /\ command[c].replaced = B /\ run \in DOMAIN drafts
          BY <1>1, <2>2, <2>6, <4>1 DEF Follows, UnderWay, MeasuredRun, FromItsRun
        <4>3. /\ "baseline-skill" \in kept /\ files["baseline-skill"].artifact = B
              /\ A.parent = B.root /\ A.root # B.root
              /\ \A f \in RunDocuments : files[f] = drafts[run][f]
          BY <1>1, <2>6, <2>7, <4>1, <4>2 DEF StagedReplaces, SkillNames
        <4>4. /\ prepared[run]["skill"] = Described(B)
              /\ B.listed = B.root /\ IsFunction(B.listed)
          BY <4>2 DEF Inv, DraftsKeepTheirSkills
        <4>5. files["baseline-skill"] = Described(B) /\ files["skill"] = Described(A)
          BY <2>7, <2>8, <4>3
        <4>6. /\ Described(A).files = Restrict(A.listed, DOMAIN A.listed)
              /\ Described(B).files = Restrict(B.listed, DOMAIN B.listed)
          BY ONLY StagedSkillIs DEF Described
        <4>7. IsFunction(A.listed)
          BY <1>1, <2>6 DEF StagedWasThere
        <4>8. Described(A).files # Described(B).files
          BY <2>7, <4>3, <4>4, <4>6, <4>7 DEF IsFunction
        <4>9. MeasuredRun(run)'
          BY <1>1, <4>2 DEF MeasuredRun
        <4>10. prepared'[run] = prepared[run] /\ drafts'[run] = drafts[run]
          BY <2>3, <4>2
        <4>11. /\ prepared'[c]["baseline-skill"] = Described(B)
               /\ prepared'[c]["skill"] = Described(A)
          BY <2>8, <4>3, <4>5
        <4>12. Described(A).artifact = A
          BY DescribedIs
        <4>13. command'[c].report.run = run
          BY <4>1
        <4>14. /\ prepared'[c]["baseline-skill"] = prepared'[run]["skill"]
               /\ prepared'[c]["skill"].artifact.parent = prepared'[run]["skill"].artifact.root
               /\ prepared'[c]["skill"].files # prepared'[run]["skill"].files
          BY <4>3, <4>4, <4>8, <4>10, <4>11, <4>12
        <4>15. \A f \in RunDocuments : drafts'[c][f] = drafts'[run][f]
          BY <2>3, <4>3, <4>10
        <4> QED BY <3>1, <4>9, <4>13, <4>14, <4>15 DEF ReplacesMeasured
      <3>2. CASE d # c
        <4>1. d \in DOMAIN drafts /\ d \in Commands
          BY <2>3, <3>2 DEF Inv, OneMaker
        <4>2. command'[d] = command[d] /\ ReplacesMeasured(d)
          BY <2>2, <2>5, <3>2, <4>1 DEF Inv, ReplacementsAreMeasured
        <4>3. command[d].report.run \in DOMAIN drafts
          BY <2>2, <4>2 DEF ReplacesMeasured, MeasuredRun
        <4>4. PICK run : run = command[d].report.run
          OBVIOUS
        <4>5. /\ prepared'[d] = prepared[d] /\ drafts'[d] = drafts[d]
              /\ prepared'[run] = prepared[run] /\ drafts'[run] = drafts[run]
          BY <2>3, <4>1, <4>3, <4>4
        <4>6. MeasuredRun(run) /\ MeasuredRun(run)'
          BY <1>1, <4>2, <4>4 DEF ReplacesMeasured, MeasuredRun
        <4> QED BY <4>2, <4>4, <4>5, <4>6 DEF ReplacesMeasured
      <3> QED BY <3>1, <3>2
    <2>16. TextIsMeasured'
      BY <1>1, <2>2, <2>3 DEF Inv, OneMaker, TextIsMeasured
    <2> QED BY <2>9, <2>10, <2>11, <2>12, <2>13, <2>14, <2>15, <2>16 DEF Inv, CommandsOK
  <1> QED BY <1>2, <1>3 DEF Place


----------------------------------------------------------------------------
(* The steps of a run *)

\* What a start read of the draft agrees with it.
LEMMA Claiming ==
  ASSUME Inv, NEW d \in Commands, ClaimDraft(d) PROVE Inv'
  <1>1. /\ UNCHANGED elsewhere /\ drafts' = drafts /\ prepared' = prepared
        /\ requests' = requests /\ inputs' = inputs /\ endings' = endings
        /\ opened' = opened /\ shown' = shown /\ pc' = pc
    BY DEF ClaimDraft, elsewhere
  <1>2. d \in DOMAIN drafts /\ d \notin DOMAIN claimed
    BY DEF ClaimDraft, Unclaimed
  <1>3. PICK approval :
          /\ Startable(drafts[d]["draft.json"], drafts[d]["campaign.json"],
                       drafts[d]["comparison.json"], approval)
          /\ claimed' = With(claimed, d, approval)
    BY DEF ClaimDraft, MayClaim
  <1>4. /\ AgreeingApproval(approval)
        /\ approval.acknowledgement.policy = drafts[d]["draft.json"].policy
    BY <1>3 DEF Startable
  <1>5. claimed' = [y \in DOMAIN claimed \cup {d} |-> IF y = d THEN approval ELSE claimed[y]]
    BY <1>3 DEF With
  <1>6. ApprovalsAgree'
    <2>1. ASSUME NEW e \in DOMAIN claimed'
          PROVE  /\ AgreeingApproval(claimed'[e])
                 /\ claimed'[e].acknowledgement.policy = drafts[e]["draft.json"].policy
      <3>1. CASE e = d
        BY <1>4, <1>5, <3>1
      <3>2. CASE e # d
        <4>1. e \in DOMAIN claimed /\ claimed'[e] = claimed[e]
          BY <1>5, <3>2
        <4> QED BY <4>1 DEF Inv, ApprovalsAgree
      <3> QED BY <3>1, <3>2
    <2> QED BY <1>1, <2>1 DEF Inv, ApprovalsAgree
  <1>7. OneMaker' /\ InputsKeepTheirSkills' /\ TextIsMeasured'
    BY <1>1, <1>2, <1>5 DEF Inv, OneMaker, InputsKeepTheirSkills, TextIsMeasured
  <1> QED BY <1>1, <1>6, <1>7, DiskMoves DEF Inv

\* What is staged of a draft has the Skills of the draft, by their artifacts.
LEMMA StagedInputsAre ==
  ASSUME NEW d
  PROVE  /\ DOMAIN StagedInputs(d) = DOMAIN drafts[d]
         /\ \A f \in DOMAIN drafts[d] :
               IF f \in SkillNames
               THEN /\ DOMAIN StagedInputs(d)[f] = SkillParts
                    /\ StagedInputs(d)[f].artifact = drafts[d][f].artifact
                    /\ Trimmed(StagedInputs(d)[f])
               ELSE StagedInputs(d)[f] = drafts[d][f]
  BY CopyIsTrimmed DEF StagedInputs

\* The request that is kept, or written, agrees with itself.
LEMMA RequestsAgree ==
  ASSUME Inv, NEW d \in DOMAIN claimed
  PROVE  /\ AgreeingApproval(RequestOf(d))
         /\ RequestOf(d).policy = RequestOf(d).acknowledgement.policy
  <1>1. CASE d \in DOMAIN requests
    BY <1>1 DEF RequestOf, Inv, ApprovalsAgree
  <1>2. CASE d \notin DOMAIN requests
    BY <1>2 DEF RequestOf, RequestFor, AgreeingApproval, Inv, ApprovalsAgree
  <1> QED BY <1>1, <1>2

LEMMA Staging ==
  ASSUME Inv, NEW d \in Commands, StageInputs(d) PROVE Inv'
  <1>1. /\ UNCHANGED elsewhere /\ drafts' = drafts /\ prepared' = prepared
        /\ endings' = endings /\ opened' = opened /\ shown' = shown /\ pc' = pc
    BY DEF StageInputs, elsewhere
  <1>2. d \in DOMAIN claimed /\ d \in DOMAIN drafts
    BY DEF StageInputs, Inv, OneMaker
  <1> DEFINE request == RequestOf(d)
             staged == StagedInputs(d)
  <1>3. /\ claimed' = Restrict(claimed, DOMAIN claimed \ {d})
        /\ requests' = With(requests, d, request)
        /\ inputs' = inputs \/ inputs' = With(inputs, d, staged)
    BY DEF StageInputs
  <1>4. AgreeingApproval(request) /\ request.policy = request.acknowledgement.policy
    BY <1>2, RequestsAgree
  <1>5. /\ DOMAIN staged = DOMAIN drafts[d]
        /\ \A f \in DOMAIN drafts[d] :
              IF f \in SkillNames
              THEN /\ DOMAIN staged[f] = SkillParts
                   /\ staged[f].artifact = drafts[d][f].artifact
              ELSE staged[f] = drafts[d][f]
    BY StagedInputsAre
  <1> HIDE DEF request, staged
  <1>6. /\ DOMAIN claimed' = DOMAIN claimed \ {d}
        /\ \A e \in DOMAIN claimed' : claimed'[e] = claimed[e]
    BY <1>3, RestrictIs
  <1>7. requests' = [y \in DOMAIN requests \cup {d} |->
                        IF y = d THEN request ELSE requests[y]]
    BY <1>3 DEF With
  <1>8. \/ inputs' = inputs
        \/ inputs' = [y \in DOMAIN inputs \cup {d} |-> IF y = d THEN staged ELSE inputs[y]]
    BY <1>3 DEF With
  <1>9. /\ DOMAIN inputs \subseteq DOMAIN inputs'
        /\ DOMAIN inputs' \subseteq DOMAIN inputs \cup {d}
    BY <1>8
  <1>10. OneMaker'
    BY <1>1, <1>2, <1>6, <1>7, <1>9 DEF Inv, OneMaker
  <1>11. ApprovalsAgree'
    <2>1. ASSUME NEW e \in DOMAIN requests'
          PROVE  /\ AgreeingApproval(requests'[e])
                 /\ requests'[e].policy = requests'[e].acknowledgement.policy
      <3>1. CASE e = d
        BY <1>4, <1>7, <3>1
      <3>2. CASE e # d
        <4>1. e \in DOMAIN requests /\ requests'[e] = requests[e]
          BY <1>7, <3>2
        <4> QED BY <4>1 DEF Inv, ApprovalsAgree
      <3> QED BY <3>1, <3>2
    <2> QED BY <1>1, <1>6, <2>1 DEF Inv, ApprovalsAgree
  <1>12. InputsKeepTheirSkills'
    <2>1. ASSUME NEW e \in DOMAIN inputs'
          PROVE  /\ DOMAIN inputs'[e] = DOMAIN drafts[e]
                 /\ \A f \in DOMAIN inputs'[e] :
                       IF f \in SkillNames
                       THEN /\ DOMAIN inputs'[e][f] = SkillParts
                            /\ inputs'[e][f].artifact = prepared[e][f].artifact
                       ELSE inputs'[e][f] = drafts[e][f]
      <3>1. CASE e \in DOMAIN inputs /\ inputs'[e] = inputs[e]
        BY <3>1 DEF Inv, InputsKeepTheirSkills
      <3>2. CASE e = d /\ inputs'[e] = staged
        <4>1. \A f \in SkillNames \cap DOMAIN drafts[d] :
                 drafts[d][f].artifact = prepared[d][f].artifact
          BY <1>2 DEF Inv, DraftsKeepTheirSkills
        <4> QED BY <1>5, <3>2, <4>1
      <3> QED BY <1>8, <3>1, <3>2
    <2> QED BY <1>1, <2>1 DEF InputsKeepTheirSkills
  <1>13. TextIsMeasured'
    BY <1>1 DEF Inv, TextIsMeasured
  <1> QED BY <1>1, <1>10, <1>11, <1>12, <1>13, DiskMoves DEF Inv

LEMMA Ending ==
  ASSUME Inv, NEW d \in Commands, RunEnds(d) PROVE Inv'
  <1>1. /\ UNCHANGED elsewhere /\ drafts' = drafts /\ prepared' = prepared
        /\ claimed' = claimed /\ requests' = requests /\ inputs' = inputs
        /\ opened' = opened /\ shown' = shown /\ pc' = pc
    BY DEF RunEnds, elsewhere
  <1>2. d \in DOMAIN inputs \ DOMAIN endings
    BY DEF RunEnds
  <1>3. PICK ending : endings' = With(endings, d, ending)
    BY DEF RunEnds
  <1>4. endings' = [y \in DOMAIN endings \cup {d} |-> IF y = d THEN ending ELSE endings[y]]
    BY <1>3 DEF With
  <1>5. /\ DOMAIN endings \subseteq DOMAIN endings'
        /\ \A e \in DOMAIN endings : endings'[e] = endings[e]
    BY <1>2, <1>4
  <1>6. /\ OneMaker' /\ InputsKeepTheirSkills' /\ ApprovalsAgree' /\ TextIsMeasured'
    BY <1>1, <1>2, <1>4 DEF Inv, OneMaker, InputsKeepTheirSkills, ApprovalsAgree,
       TextIsMeasured
  <1> QED BY <1>1, <1>5, <1>6, DiskMoves DEF Inv

LEMMA Showing ==
  ASSUME Inv, NEW d \in Commands, ShowContext(d) \/ OpenSource(d) \/ ReadSource(d)
  PROVE  Inv'
  <1>1. /\ UNCHANGED elsewhere /\ drafts' = drafts /\ prepared' = prepared
        /\ claimed' = claimed /\ requests' = requests /\ inputs' = inputs
        /\ endings' = endings /\ pc' = pc
    BY DEF ShowContext, OpenSource, ReadSource, elsewhere
  <1>2. ShapeOK' /\ VersionsAreGiven' /\ DraftsKeepTheirSkills' /\ CommandsOK'
        /\ ReplacementsAreMeasured' /\ InputsKeepTheirSkills' /\ ApprovalsAgree'
    BY <1>1, DiskMoves DEF Inv, InputsKeepTheirSkills, ApprovalsAgree
  <1>3. CASE ShowContext(d)
    <2>1. opened' = opened /\ "text" \notin DOMAIN shown'
      BY <1>3 DEF ShowContext
    <2> QED BY <1>1, <1>2, <2>1 DEF Inv, OneMaker, TextIsMeasured
  <1>4. CASE OpenSource(d)
    <2>1. opened' = opened \cup {d} /\ shown' = shown /\ d \in DOMAIN inputs
      BY <1>4 DEF OpenSource, CompletedRealRun, Inv, OneMaker
    <2> QED BY <1>1, <1>2, <2>1 DEF Inv, OneMaker, TextIsMeasured
  <1>5. CASE ReadSource(d)
    <2>1. opened' = opened \ {d} /\ d \in DOMAIN inputs
      BY <1>5 DEF ReadSource, Inv, OneMaker
    <2>2. CASE shown' = shown
      BY <1>1, <1>2, <2>1, <2>2 DEF Inv, OneMaker, TextIsMeasured
    <2>3. CASE /\ ReadsSourceSkill(inputs[d]["skill"])
               /\ shown' = [run |-> d, text |-> inputs[d]["skill"].files[EntryFile]]
      <3>1. PICK A : A = prepared[d]["skill"].artifact
        OBVIOUS
      <3>2. inputs[d]["skill"].artifact = A /\ d \in DOMAIN drafts /\ d \in DOMAIN prepared
        BY <2>1, <3>1, GivenToTheRun
      <3>3. /\ EntryFile \in DOMAIN A.listed
            /\ inputs[d]["skill"].files[EntryFile] = A.listed[EntryFile]
        BY <2>3, <3>2 DEF ReadsSourceSkill, HoldsListedFiles
      <3>4. prepared[d]["skill"] = Described(A)
        BY <3>1, <3>2 DEF Inv, DraftsKeepTheirSkills
      <3>5. prepared[d]["skill"].files[EntryFile] = A.listed[EntryFile]
        BY <3>3, <3>4, DescribedIs
      <3>6. shown'.run = d /\ shown'.text = inputs[d]["skill"].files[EntryFile]
        BY <2>3
      <3>7. TextIsMeasured'
        BY <1>1, <3>3, <3>5, <3>6 DEF TextIsMeasured
      <3>8. OneMaker'
        BY <1>1, <2>1, <3>6 DEF Inv, OneMaker
      <3> QED BY <1>2, <3>7, <3>8 DEF Inv
    <2> QED BY <1>5, <2>2, <2>3 DEF ReadSource
  <1> QED BY <1>3, <1>4, <1>5

----------------------------------------------------------------------------
(* What happens around them *)

\* What an edit leaves is newer than all that was scanned, so what was there
\* together stays so.
LEMMA Editing ==
  ASSUME Inv, Edit PROVE Inv'
  <1>1. /\ pc' = pc /\ edits' = edits + 1 /\ drafts' = drafts /\ prepared' = prepared
        /\ claimed' = claimed /\ requests' = requests /\ inputs' = inputs
        /\ endings' = endings /\ opened' = opened /\ shown' = shown /\ bound' = bound
    BY DEF Edit, disk
  <1>2. command' = [c \in Commands |->
                      IF pc[c] \in {"check", "read", "copy"}
                      THEN [command[c] EXCEPT !.moments = @ \cup {tree'}] ELSE command[c]]
    BY DEF Edit
  <1>3. /\ edits \in Nat /\ bound \in Bounds
        /\ \A c \in Commands : DOMAIN command[c] = Parts
    BY DEF Inv, ShapeOK
  <1>4. PICK edit \in bound.edit :
          IF edit.left = Absent
          THEN edit.path \in DOMAIN tree /\ tree' = Restrict(tree, DOMAIN tree \ {edit.path})
          ELSE tree' = With(tree, edit.path, [edit.left EXCEPT !.version = edits + 2])
    BY DEF Edit
  <1>5. \A p \in DOMAIN tree' : \/ p \in DOMAIN tree /\ tree'[p] = tree[p]
                                \/ tree'[p].version = edits + 2
    <2>1. CASE edit.left = Absent
      BY <1>4, <2>1, RestrictIs
    <2>2. CASE edit.left # Absent
      <3> DEFINE new == [edit.left EXCEPT !.version = edits + 2]
      <3>1. new.version = edits + 2
        BY <1>3, <2>2, VersionAssumption
      <3>2. tree' = With(tree, edit.path, new)
        BY <1>4, <2>2
      <3> HIDE DEF new
      <3>3. tree' = [y \in DOMAIN tree \cup {edit.path} |->
                        IF y = edit.path THEN new ELSE tree[y]]
        BY <3>2 DEF With
      <3> QED BY <3>1, <3>3
    <2> QED BY <2>1, <2>2
  <1>6. VersionsAreGiven'
    BY <1>1, <1>3, <1>5 DEF Inv, VersionsAreGiven
  <1>7. \A c \in Commands :
          /\ DOMAIN command'[c] = Parts
          /\ command'[c].report = command[c].report
          /\ command'[c].source = command[c].source
          /\ command'[c].replaced = command[c].replaced
          /\ command'[c].files = command[c].files
          /\ command'[c].scanned = command[c].scanned
          /\ command'[c].copied = command[c].copied
          /\ command'[c].staged = command[c].staged
          /\ command[c].moments \subseteq command'[c].moments
          /\ pc[c] \in {"check", "read", "copy"} => tree' \in command'[c].moments
    BY <1>2, <1>3 DEF Parts
  <1>8. ShapeOK'
    BY <1>1, <1>2, <1>3, <1>7 DEF Inv, ShapeOK
  <1>9. OneMaker' /\ DraftsKeepTheirSkills' /\ InputsKeepTheirSkills' /\ ApprovalsAgree'
        /\ TextIsMeasured'
    BY <1>1 DEF Inv, OneMaker, DraftsKeepTheirSkills, InputsKeepTheirSkills,
       ApprovalsAgree, TextIsMeasured
  <1>10. ReplacementsAreMeasured'
    <2>1. DOMAIN prepared \subseteq Commands
      BY DEF Inv, OneMaker
    <2> QED BY <1>1, <1>7, <2>1, StillReplacing DEF Inv, ReplacementsAreMeasured
  <1>11. ASSUME NEW c \in Commands PROVE CommandOK(c)'
    <2>1. CommandOK(c)
      BY DEF Inv, CommandsOK
    <2>2. Watches(c)'
      BY <1>1, <1>3, <1>7, <2>1 DEF CommandOK, Watches
    <2>3. CopiesWereThere(c)'
      <3> SUFFICES ASSUME pc[c] = "copy" PROVE CopiesWereThere(c)'
        BY <1>1 DEF CopiesWereThere
      <3>1. PICK moment \in command[c].moments : ThereTogether(c, moment)
        BY <2>1 DEF CommandOK, CopiesWereThere
      <3>2. \A p \in DOMAIN command[c].scanned \cap DOMAIN tree' :
               tree'[p] = command[c].scanned[p] =>
                  p \in DOMAIN moment /\ moment[p] = command[c].scanned[p]
        <4> SUFFICES ASSUME NEW p \in DOMAIN command[c].scanned \cap DOMAIN tree',
                            tree'[p] = command[c].scanned[p]
                     PROVE  p \in DOMAIN moment /\ moment[p] = command[c].scanned[p]
          OBVIOUS
        <4>1. command[c].scanned[p].version \in 1 .. edits + 1
          BY <2>1 DEF CommandOK, Watches
        <4>2. p \in DOMAIN tree /\ tree'[p] = tree[p]
          BY <1>3, <1>5, <4>1
        <4> QED BY <3>1, <4>2 DEF ThereTogether
      <3>3. ThereTogether(c, moment)'
        BY <1>7, <3>1, <3>2 DEF ThereTogether
      <3> QED BY <1>7, <2>1, <3>1, <3>3 DEF CommandOK, CopiesWereThere
    <2>4. StagedWasThere(c)' /\ PlacedWasThere(c)'
      BY <1>1, <1>7, <2>1 DEF CommandOK, StagedWasThere, PlacedWasThere, WereThere
    <2>5. Follows(c)' /\ StagedReplaces(c)'
      <3>1. PICK run : run = command[c].report.run
        OBVIOUS
      <3>2. UnderWay(c)' => UnderWay(c)
        BY <1>1 DEF UnderWay
      <3>3. MeasuredRun(run) => MeasuredRun(run)'
        BY <1>1 DEF MeasuredRun
      <3>4. Follows(c) /\ StagedReplaces(c)
        BY <2>1 DEF CommandOK
      <3>5. Follows(c)'
        BY <1>1, <1>7, <3>1, <3>2, <3>3, <3>4, Following
      <3>6. StagedReplaces(c)'
        BY <1>1, <1>7, <3>4 DEF StagedReplaces
      <3> QED BY <3>5, <3>6
    <2> QED BY <2>2, <2>3, <2>4, <2>5 DEF CommandOK
  <1> QED BY <1>6, <1>8, <1>9, <1>10, <1>11 DEF Inv, CommandsOK

\* A damaged Skill is still, by its artifact, the one it was.
LEMMA SpoiledKeeps ==
  ASSUME NEW skill, DOMAIN skill = SkillParts
  PROVE  DOMAIN Spoiled(skill) = SkillParts /\ Spoiled(skill).artifact = skill.artifact
  BY DEF Spoiled, SkillParts

LEMMA Spoiling ==
  ASSUME NEW before, NEW d \in DOMAIN before, NEW f \in SkillNames \cap DOMAIN before[d],
         DOMAIN before[d][f] = SkillParts,
         NEW after, after = [before EXCEPT ![d][f] = Spoiled(@)]
  PROVE  /\ DOMAIN after = DOMAIN before
         /\ \A e \in DOMAIN before :
               /\ DOMAIN after[e] = DOMAIN before[e]
               /\ \A g \in DOMAIN before[e] :
                     \/ after[e][g] = before[e][g]
                     \/ /\ g \in SkillNames
                        /\ DOMAIN before[e][g] = SkillParts
                        /\ DOMAIN after[e][g] = SkillParts
                        /\ after[e][g].artifact = before[e][g].artifact
  <1> DEFINE new == Spoiled(before[d][f])
  <1>1. DOMAIN new = SkillParts /\ new.artifact = before[d][f].artifact
    BY SpoiledKeeps
  <1>2. after = [before EXCEPT ![d] = [before[d] EXCEPT ![f] = new]]
    OBVIOUS
  <1> HIDE DEF new
  <1> QED BY <1>1, <1>2

LEMMA Damaging ==
  ASSUME Inv, Damage PROVE Inv'
  <1>1. /\ tree' = tree /\ edits' = edits /\ pc' = pc /\ command' = command
        /\ prepared' = prepared /\ claimed' = claimed /\ requests' = requests
        /\ endings' = endings /\ opened' = opened /\ shown' = shown /\ bound' = bound
        /\ build' = build
    BY DEF Damage
  <1>2. /\ ShapeOK' /\ VersionsAreGiven' /\ TextIsMeasured'
    BY <1>1 DEF Inv, ShapeOK, VersionsAreGiven, TextIsMeasured
  <1>3. CASE \E d \in DOMAIN drafts : \E f \in SkillNames \cap DOMAIN drafts[d] :
                drafts' = [drafts EXCEPT ![d][f] = Spoiled(@)] /\ inputs' = inputs
    <2>1. PICK d \in DOMAIN drafts : \E f \in SkillNames \cap DOMAIN drafts[d] :
                drafts' = [drafts EXCEPT ![d][f] = Spoiled(@)] /\ inputs' = inputs
      BY <1>3
    <2>2. PICK f \in SkillNames \cap DOMAIN drafts[d] :
                drafts' = [drafts EXCEPT ![d][f] = Spoiled(@)] /\ inputs' = inputs
      BY <2>1
    <2>3. DOMAIN drafts[d][f] = SkillParts
      BY DEF Inv, DraftsKeepTheirSkills
    <2>4. /\ DOMAIN drafts' = DOMAIN drafts
          /\ \A e \in DOMAIN drafts :
               /\ DOMAIN drafts'[e] = DOMAIN drafts[e]
               /\ \A g \in DOMAIN drafts[e] :
                     \/ drafts'[e][g] = drafts[e][g]
                     \/ /\ g \in SkillNames
                        /\ DOMAIN drafts[e][g] = SkillParts
                        /\ DOMAIN drafts'[e][g] = SkillParts
                        /\ drafts'[e][g].artifact = drafts[e][g].artifact
      BY <2>2, <2>3, Spoiling
    <2>5. \A e \in DOMAIN drafts : \A g \in RunDocuments \cup {"draft.json"} :
             g \in DOMAIN drafts[e] /\ drafts'[e][g] = drafts[e][g]
      BY <2>4 DEF Inv, DraftsKeepTheirSkills, RunDocuments, SkillNames
    <2>6. OneMaker'
      BY <1>1, <2>2, <2>4 DEF Inv, OneMaker
    <2>7. DraftsKeepTheirSkills'
      BY <1>1, <2>4 DEF Inv, DraftsKeepTheirSkills
    <2>8. InputsKeepTheirSkills'
      BY <1>1, <2>2, <2>4 DEF Inv, OneMaker, InputsKeepTheirSkills
    <2>9. ApprovalsAgree'
      BY <1>1, <2>5 DEF Inv, OneMaker, ApprovalsAgree
    <2>10. ASSUME NEW c \in Commands PROVE CommandOK(c)'
      <3>1. CommandOK(c)
        BY DEF Inv, CommandsOK
      <3>2. MeasuredRun(command[c].report.run) => command[c].report.run \in DOMAIN drafts
        BY DEF MeasuredRun, Inv, OneMaker
      <3>3. Follows(c)'
        <4>1. PICK run : run = command[c].report.run
          OBVIOUS
        <4>2. UnderWay(c)' => UnderWay(c)
          BY <1>1 DEF UnderWay
        <4>3. MeasuredRun(run) => MeasuredRun(run)' /\ run \in DOMAIN drafts
          BY <1>1, <3>2, <4>1 DEF MeasuredRun
        <4>4. run \in DOMAIN drafts =>
                 \A g \in RunDocuments : g \in DOMAIN drafts'[run] /\ drafts'[run][g] = drafts[run][g]
          BY <2>4, <2>5
        <4>5. Follows(c)
          BY <3>1 DEF CommandOK
        <4> QED BY <1>1, <4>1, <4>2, <4>3, <4>4, <4>5, Following
      <3>4. StagedReplaces(c)'
        BY <1>1, <2>5, <3>1, <3>2 DEF CommandOK, StagedReplaces, Follows, UnderWay
      <3> QED BY <1>1, <3>1, <3>3, <3>4 DEF CommandOK, Watches, CopiesWereThere,
             ThereTogether, StagedWasThere, PlacedWasThere, WereThere
    <2>11. ReplacementsAreMeasured'
      <3>1. \A c \in DOMAIN prepared : c \in DOMAIN drafts
        BY DEF Inv, OneMaker
      <3>2. \A run : MeasuredRun(run) => run \in DOMAIN drafts
        BY DEF MeasuredRun, Inv, OneMaker
      <3> QED BY <1>1, <2>5, <3>1, <3>2
             DEF Inv, ReplacementsAreMeasured, ReplacesMeasured, MeasuredRun
    <2> QED BY <1>2, <2>6, <2>7, <2>8, <2>9, <2>10, <2>11 DEF Inv, CommandsOK
  <1>4. CASE \E d \in DOMAIN inputs : \E f \in SkillNames \cap DOMAIN inputs[d] :
                inputs' = [inputs EXCEPT ![d][f] = Spoiled(@)] /\ drafts' = drafts
    <2>1. PICK d \in DOMAIN inputs : \E f \in SkillNames \cap DOMAIN inputs[d] :
                inputs' = [inputs EXCEPT ![d][f] = Spoiled(@)] /\ drafts' = drafts
      BY <1>4
    <2>2. PICK f \in SkillNames \cap DOMAIN inputs[d] :
                inputs' = [inputs EXCEPT ![d][f] = Spoiled(@)] /\ drafts' = drafts
      BY <2>1
    <2>3. DOMAIN inputs[d][f] = SkillParts
      BY DEF Inv, InputsKeepTheirSkills
    <2>4. /\ DOMAIN inputs' = DOMAIN inputs
          /\ \A e \in DOMAIN inputs :
               /\ DOMAIN inputs'[e] = DOMAIN inputs[e]
               /\ \A g \in DOMAIN inputs[e] :
                     \/ inputs'[e][g] = inputs[e][g]
                     \/ /\ g \in SkillNames
                        /\ DOMAIN inputs[e][g] = SkillParts
                        /\ DOMAIN inputs'[e][g] = SkillParts
                        /\ inputs'[e][g].artifact = inputs[e][g].artifact
      BY <2>2, <2>3, Spoiling
    <2>5. OneMaker'
      BY <1>1, <2>2, <2>4 DEF Inv, OneMaker
    <2>6. InputsKeepTheirSkills'
      BY <1>1, <2>2, <2>4 DEF Inv, InputsKeepTheirSkills
    <2>7. UNCHANGED elsewhere
      BY <1>1, <2>2 DEF elsewhere
    <2>8. ApprovalsAgree'
      BY <1>1, <2>2 DEF Inv, ApprovalsAgree
    <2> QED BY <1>1, <1>2, <2>5, <2>6, <2>7, <2>8, DiskMoves DEF Inv
  <1> QED BY <1>3, <1>4 DEF Damage

----------------------------------------------------------------------------
LEMMA StepInv == Inv /\ [Next]_vars => Inv'
  <1> SUFFICES ASSUME Inv, [Next]_vars PROVE Inv'
    OBVIOUS
  <1>1. CASE UNCHANGED <<tree, edits, pc, command, disk>>
    <2>1. /\ tree' = tree /\ edits' = edits /\ pc' = pc /\ command' = command
          /\ drafts' = drafts /\ prepared' = prepared /\ claimed' = claimed
          /\ requests' = requests /\ inputs' = inputs /\ endings' = endings
          /\ opened' = opened /\ shown' = shown /\ bound' = bound
      BY <1>1 DEF disk
    <2>2. ASSUME NEW c \in Commands PROVE CommandOK(c)'
      <3>1. CommandOK(c)
        BY DEF Inv, CommandsOK
      <3>2. pc'[c] = pc[c] /\ command'[c] = command[c]
        BY <2>1
      <3> QED BY <2>1, <3>1, <3>2, Staying
    <2>3. /\ ShapeOK' /\ VersionsAreGiven' /\ OneMaker' /\ DraftsKeepTheirSkills'
          /\ InputsKeepTheirSkills' /\ ApprovalsAgree' /\ TextIsMeasured'
      BY <2>1 DEF Inv, ShapeOK, VersionsAreGiven, OneMaker, DraftsKeepTheirSkills,
         InputsKeepTheirSkills, ApprovalsAgree, TextIsMeasured
    <2>4. ReplacementsAreMeasured'
      BY <2>1 DEF Inv, ReplacementsAreMeasured, ReplacesMeasured, MeasuredRun
    <2> QED BY <2>2, <2>3, <2>4 DEF Inv, CommandsOK
  <1>2. ASSUME NEW c \in Commands, CommandStep(c) PROVE Inv'
    <2>1. CASE PrepareForClimb(c)
      BY <2>1, PreparingForClimb
    <2>2. CASE PrepareReplacement(c)
      BY <2>2, PreparingReplacement
    <2>3. CASE ListFiles(c)
      BY <2>3, Listing
    <2>4. CASE CheckFile(c)
      BY <2>4, Checking
    <2>5. CASE ReadFile(c)
      BY <2>5, Reading
    <2>6. CASE EndScan(c)
      BY <2>6, EndingTheScan
    <2>7. CASE CopyFile(c)
      BY <2>7, Copying
    <2>8. CASE MakeDraft(c)
      BY <2>8, Making
    <2>9. CASE Place(c)
      BY <2>9, Placing
    <2>10. CASE Finish(c)
      BY <2>10, Stopping DEF Finish, UnderWay
    <2>11. CASE Interrupt(c)
      BY <2>11, Stopping DEF Interrupt
    <2> QED BY <1>2, <2>1, <2>2, <2>3, <2>4, <2>5, <2>6, <2>7, <2>8, <2>9, <2>10, <2>11
           DEF CommandStep
  <1>3. ASSUME NEW d \in Commands, RunStep(d) PROVE Inv'
    BY <1>3, Claiming, Staging, Ending, Showing DEF RunStep
  <1>4. CASE Edit
    BY <1>4, Editing
  <1>5. CASE Upgrade
    BY <1>1, <1>5 DEF Upgrade
  <1>6. CASE Damage
    BY <1>6, Damaging
  <1>7. CASE UNCHANGED vars
    BY <1>1, <1>7 DEF vars, disk
  <1> QED BY <1>2, <1>3, <1>4, <1>5, <1>6, <1>7 DEF Next

\* The inputs a run is given are those of a step that staged them.
LEMMA NewInputs ==
  ASSUME Inv, [Next]_vars, NEW d \in DOMAIN inputs' \ DOMAIN inputs
  PROVE  StageInputs(d)
  <1>1. inputs' # inputs
    OBVIOUS
  <1>2. ~ UNCHANGED vars
    BY <1>1 DEF vars
  <1>3. ASSUME NEW c \in Commands, CommandStep(c) PROVE FALSE
    BY <1>1, <1>3 DEF CommandStep, PrepareForClimb, PrepareReplacement, ListFiles,
       CheckFile, ReadFile, EndScan, CopyFile, MakeDraft, Place, Finish, Interrupt, disk
  <1>4. ASSUME NEW c \in Commands, RunStep(c), ~ StageInputs(c) PROVE FALSE
    BY <1>1, <1>4 DEF RunStep, ClaimDraft, RunEnds, ShowContext, OpenSource, ReadSource
  <1>5. ~ Edit /\ ~ Upgrade
    BY <1>1 DEF Edit, Upgrade, disk
  <1>6. CASE Damage
    <2>1. DOMAIN inputs' = DOMAIN inputs
      BY <1>6 DEF Damage
    <2> QED BY <2>1
  <1>7. ASSUME NEW c \in Commands, StageInputs(c) PROVE c = d
    <2> DEFINE staged == StagedInputs(c)
    <2>1. inputs' = inputs \/ inputs' = With(inputs, c, staged)
      BY <1>7 DEF StageInputs
    <2> HIDE DEF staged
    <2>2. DOMAIN inputs' \subseteq DOMAIN inputs \cup {c}
      BY <2>1 DEF With
    <2> QED BY <2>2
  <1> QED BY <1>2, <1>3, <1>4, <1>5, <1>6, <1>7 DEF Next

----------------------------------------------------------------------------
(* A draft that is left alone can be started.  What a start asks of it was   *)
(* asked when it was placed, and its backend is the one that was asked for   *)
(* when its Climb was prepared for, or before.                               *)

HasBackend(campaign) ==
    /\ "shared" \in DOMAIN campaign /\ "backend" \in DOMAIN campaign.shared
    /\ SupportedBackend(campaign)

SourceCanStart(c) ==
    pc[c] \in {"list", "check", "read", "copy"} => HasBackend(command[c].source.campaign)

StagedCanStart(c) ==
    pc[c] = "place" =>
        /\ IsFunction(command[c].staged)
        /\ "campaign.json" \in DOMAIN command[c].staged =>
              HasBackend(command[c].staged["campaign.json"])

\* A draft with its Skills as they were prepared.
Restored(d) ==
    [f \in DOMAIN drafts[d] |-> IF f \in SkillNames THEN prepared[d][f] ELSE drafts[d][f]]

DraftCanStart(d) ==
    /\ IsFunction(drafts[d])
    /\ VerifySnapshot(Restored(d))
    /\ HasBackend(drafts[d]["campaign.json"])

StartInv ==
    /\ build \in DOMAIN Catalogs
    /\ \A c \in Commands : SourceCanStart(c) /\ StagedCanStart(c)
    /\ \A d \in DOMAIN drafts : DraftCanStart(d)

LEMMA StartInit == Init => StartInv
  <1> SUFFICES ASSUME Init PROVE StartInv
    OBVIOUS
  <1>1. build \in DOMAIN Catalogs
    BY CatalogAssumption DEF Init
  <1>2. \A c \in Commands : pc[c] = "idle"
    BY DEF Init
  <1>3. DOMAIN drafts = {}
    BY DEF Init, NoFiles
  <1> QED BY <1>1, <1>2, <1>3 DEF StartInv, SourceCanStart, StagedCanStart

\* Whichever way it is named, a Climb is one of the catalog's.
LEMMA EntriesAreListed ==
  ASSUME NEW catalog, NEW reference, NEW entry \in ClimbEntries(catalog, reference)
  PROVE  entry \in Range(catalog.climbs)
  BY DEF ClimbEntries, Range

LEMMA PreparableHasBackend ==
  ASSUME build \in DOMAIN Catalogs, NEW reference,
         NEW entry \in ClimbEntries(Catalogs[build], reference),
         Preparable(Catalogs[build], entry)
  PROVE  HasBackend(SourceFromClimb(entry.held, entry.held.campaign).campaign)
  <1>1. entry \in Range(Catalogs[build].climbs)
    BY EntriesAreListed
  <1>2. /\ "shared" \in DOMAIN entry.held.campaign
        /\ "backend" \in DOMAIN entry.held.campaign.shared
    BY <1>1, CatalogAssumption
  <1>3. SupportedBackend(entry.held.campaign)
    BY DEF Preparable, BlockingIssues, SupportedBackend
  <1>4. SourceFromClimb(entry.held, entry.held.campaign).campaign = entry.held.campaign
    BY DEF SourceFromClimb
  <1> QED BY <1>2, <1>3, <1>4 DEF HasBackend

\* A replacement is evaluated where its baseline was.
LEMMA ReplacementHasBackend ==
  ASSUME NEW source, HasBackend(source), NEW baseline
  PROVE  HasBackend(DeriveReplacementCampaign(source, baseline))
  <1> DEFINE shared == [source.shared EXCEPT !["mutation"] = "replacement"]
             campaign == DeriveReplacementCampaign(source, baseline)
  <1>1. "shared" \in DOMAIN campaign /\ campaign.shared = shared
    BY DEF DeriveReplacementCampaign, HasBackend
  <1>2. "backend" \in DOMAIN shared /\ shared["backend"] = source.shared["backend"]
    BY DEF HasBackend
  <1> QED BY <1>1, <1>2 DEF HasBackend, SupportedBackend

\* A command that goes on with a supported backend.
LEMMA StartGoing ==
  ASSUME Inv, StartInv, NEW c \in Commands, NEW step, NEW x, Goes(c, step, x),
         step \in {"list", "check", "read", "copy"} => HasBackend(x.source.campaign),
         step = "place" =>
            /\ IsFunction(x.staged)
            /\ "campaign.json" \in DOMAIN x.staged => HasBackend(x.staged["campaign.json"])
  PROVE  /\ (build \in DOMAIN Catalogs)'
         /\ \A d \in Commands : SourceCanStart(d)' /\ StagedCanStart(d)'
  <1>1. /\ pc'[c] = step /\ command'[c] = x
        /\ \A d \in Commands : d # c => pc'[d] = pc[d] /\ command'[d] = command[d]
    BY Going DEF Inv
  <1>2. build' = build
    BY DEF Goes
  <1> QED BY <1>1, <1>2 DEF StartInv, SourceCanStart, StagedCanStart

\* Drafts that nobody touches.
LEMMA DraftsStay ==
  ASSUME StartInv, drafts' = drafts, prepared' = prepared
  PROVE  \A d \in DOMAIN drafts' : DraftCanStart(d)'
  BY DEF StartInv, DraftCanStart, Restored

LEMMA StartStopping ==
  ASSUME Inv, StartInv, NEW c \in Commands, NEW step \in {"failed", "done"}, Stops(c, step),
         drafts' = drafts, prepared' = prepared
  PROVE  StartInv'
  <1>1. Goes(c, step, [Idle EXCEPT !.report = command[c].report])
    BY DEF Stops
  <1>2. /\ (build \in DOMAIN Catalogs)'
        /\ \A d \in Commands : SourceCanStart(d)' /\ StagedCanStart(d)'
    BY <1>1, StartGoing
  <1> QED BY <1>2, DraftsStay DEF StartInv

\* A command that reads on keeps its source.
LEMMA StartReading ==
  ASSUME Inv, StartInv, NEW c \in Commands, pc[c] \in {"list", "check", "read", "copy"},
         NEW step \in {"check", "read", "copy"}, NEW x, Goes(c, step, x),
         x.source = command[c].source, UNCHANGED disk
  PROVE  StartInv'
  <1>1. HasBackend(x.source.campaign)
    BY DEF StartInv, SourceCanStart
  <1>2. /\ (build \in DOMAIN Catalogs)'
        /\ \A d \in Commands : SourceCanStart(d)' /\ StagedCanStart(d)'
    BY <1>1, StartGoing
  <1>3. drafts' = drafts /\ prepared' = prepared
    BY DEF disk
  <1> QED BY <1>2, <1>3, DraftsStay DEF StartInv

LEMMA StartPreparing ==
  ASSUME Inv, StartInv, NEW c \in Commands, PrepareForClimb(c) \/ PrepareReplacement(c)
  PROVE  StartInv'
  <1>1. drafts' = drafts /\ prepared' = prepared
    BY DEF PrepareForClimb, PrepareReplacement, disk
  <1>2. ASSUME NEW source, HasBackend(source.campaign), NEW x, x.source = source,
               Goes(c, "list", x)
        PROVE  StartInv'
    <2>1. /\ (build \in DOMAIN Catalogs)'
          /\ \A d \in Commands : SourceCanStart(d)' /\ StagedCanStart(d)'
      BY <1>2, StartGoing
    <2> QED BY <1>1, <2>1, DraftsStay DEF StartInv
  <1>3. ASSUME Goes(c, "failed", Idle) PROVE StartInv'
    <2>1. /\ (build \in DOMAIN Catalogs)'
          /\ \A d \in Commands : SourceCanStart(d)' /\ StagedCanStart(d)'
      BY <1>3, StartGoing
    <2> QED BY <1>1, <2>1, DraftsStay DEF StartInv
  <1>4. CASE PrepareForClimb(c)
    <2>1. PICK reference \in References :
            LET entries == ClimbEntries(Catalogs[build], reference)
                entry   == CHOOSE e \in entries : TRUE
                climb   == entry.held
            IN  IF entries # {} /\ Preparable(Catalogs[build], entry)
                THEN Goes(c, "list",
                          [Idle EXCEPT !.source = SourceFromClimb(climb, climb.campaign)])
                ELSE Goes(c, "failed", Idle)
      BY <1>4 DEF PrepareForClimb
    <2> DEFINE entry  == CHOOSE e \in ClimbEntries(Catalogs[build], reference) : TRUE
               source == SourceFromClimb(entry.held, entry.held.campaign)
               x      == [Idle EXCEPT !.source = source]
    <2>2. CASE /\ ClimbEntries(Catalogs[build], reference) # {}
               /\ Preparable(Catalogs[build], entry) /\ Goes(c, "list", x)
      <3>1. entry \in ClimbEntries(Catalogs[build], reference)
        BY <2>2
      <3>2. x.source = source
        BY DEF Idle
      <3>3. HasBackend(source.campaign)
        <4> HIDE DEF entry
        <4> QED BY <2>2, <3>1, PreparableHasBackend DEF StartInv
      <3> HIDE DEF x, source
      <3> QED BY <1>2, <2>2, <3>2, <3>3
    <2> QED BY <1>3, <2>1, <2>2
  <1>5. CASE PrepareReplacement(c)
    <2>1. PICK d \in DOMAIN inputs :
            IF CompletedRealRun(d)
            THEN Goes(c, "list",
                      [Idle EXCEPT !.source = SourceOf(inputs[d]), !.report = ReportOf(d),
                                   !.replaced = inputs[d]["skill"].artifact])
            ELSE Goes(c, "failed", Idle)
      BY <1>5 DEF PrepareReplacement
    <2> DEFINE source == SourceOf(inputs[d])
               x == [Idle EXCEPT !.source = source, !.report = ReportOf(d),
                                 !.replaced = inputs[d]["skill"].artifact]
    <2>2. CASE CompletedRealRun(d) /\ Goes(c, "list", x)
      <3>1. x.source = source
        BY DEF Idle
      <3>2. ReadsSource(inputs[d])
        BY <2>2 DEF CompletedRealRun, VerifyInputs
      <3>3. "campaign.json" \in DOMAIN inputs[d] /\ "campaign.json" \notin SkillNames
        BY <3>2 DEF ReadsSource, DocumentNames, SkillNames
      <3>4. /\ d \in DOMAIN drafts
            /\ inputs[d]["campaign.json"] = drafts[d]["campaign.json"]
        BY <3>3, GivenToTheRun
      <3>5. source.campaign = inputs[d]["campaign.json"]
        BY DEF SourceOf
      <3>6. HasBackend(source.campaign)
        BY <3>4, <3>5 DEF StartInv, DraftCanStart
      <3> HIDE DEF x, source
      <3> QED BY <1>2, <2>2, <3>1, <3>6
    <2> QED BY <1>3, <2>1, <2>2
  <1> QED BY <1>4, <1>5

LEMMA StartMaking ==
  ASSUME Inv, StartInv, NEW c \in Commands, MakeDraft(c) PROVE StartInv'
  <1> DEFINE draft == DraftOf(c)
             files == DraftFiles(draft, DraftSource(c), DraftSource(c).validation.evidence,
                          Comparison(c),
                          StagedSkill(draft.skill, draft.skill.archive, command[c].copied),
                          StagedBaseline(c))
             x == [command[c] EXCEPT !.staged = files]
  <1>1. pc[c] = "copy" /\ drafts' = drafts /\ prepared' = prepared
    BY DEF MakeDraft, disk
  <1>2. CASE Stops(c, "failed")
    BY <1>1, <1>2, StartStopping
  <1>3. CASE Goes(c, "place", x)
    <2>1. x.staged = files
      BY DEF Inv, ShapeOK, Parts
    <2>2. /\ IsFunction(files)
          /\ "campaign.json" \in DOMAIN files => files["campaign.json"] = DraftSource(c).campaign
      BY DraftFilesAre
    <2> HIDE DEF files, x
    <2>3. HasBackend(command[c].source.campaign)
      BY <1>1 DEF StartInv, SourceCanStart
    <2>4. HasBackend(DraftCampaign(c))
      BY <2>3, ReplacementHasBackend DEF DraftCampaign
    <2>5. HasBackend(DraftSource(c).campaign)
      BY <2>3, <2>4 DEF DraftSource, LocalSource
    <2>6. /\ (build \in DOMAIN Catalogs)'
          /\ \A d \in Commands : SourceCanStart(d)' /\ StagedCanStart(d)'
      BY <1>3, <2>1, <2>2, <2>5, StartGoing
    <2> QED BY <1>1, <2>6, DraftsStay DEF StartInv
  <1> QED BY <1>2, <1>3 DEF MakeDraft

LEMMA StartPlacing ==
  ASSUME Inv, StartInv, NEW c \in Commands, Place(c) PROVE StartInv'
  <1> DEFINE files == command[c].staged
             kept == Restrict(files, SkillNames \cap DOMAIN files)
             x == [command[c] EXCEPT !.staged = NoFiles]
  <1>1. pc[c] = "place"
    BY DEF Place
  <1>2. CASE Stops(c, "failed") /\ UNCHANGED <<drafts, prepared>>
    BY <1>2, StartStopping
  <1>3. CASE /\ VerifySnapshot(files) /\ Goes(c, "placed", x)
             /\ drafts' = With(drafts, c, files) /\ prepared' = With(prepared, c, kept)
    <2>1. /\ (build \in DOMAIN Catalogs)'
          /\ \A d \in Commands : SourceCanStart(d)' /\ StagedCanStart(d)'
      BY <1>3, StartGoing
    <2>2. IsFunction(files) /\ "campaign.json" \in DOMAIN files
      BY <1>1, <1>3 DEF StartInv, StagedCanStart, VerifySnapshot, ReadsSource, DocumentNames
    <2>3. HasBackend(files["campaign.json"])
      BY <1>1, <2>2 DEF StartInv, StagedCanStart
    <2>4. /\ drafts'[c] = files /\ prepared'[c] = kept
          /\ DOMAIN drafts' = DOMAIN drafts \cup {c}
          /\ \A d \in DOMAIN drafts : d # c => drafts'[d] = drafts[d] /\ prepared'[d] = prepared[d]
      <3> HIDE DEF files, kept
      <3>1. DOMAIN prepared = DOMAIN drafts
        BY DEF Inv, OneMaker
      <3>2. /\ DOMAIN drafts' = DOMAIN drafts \cup {c} /\ drafts'[c] = files
            /\ \A d \in DOMAIN drafts : d # c => drafts'[d] = drafts[d]
        BY <1>3 DEF With
      <3>3. /\ prepared'[c] = kept
            /\ \A d \in DOMAIN prepared : d # c => prepared'[d] = prepared[d]
        BY <1>3 DEF With
      <3> QED BY <3>1, <3>2, <3>3
    <2>5. \A f \in SkillNames \cap DOMAIN files : kept[f] = files[f]
      BY RestrictIs
    <2> HIDE DEF kept
    <2>6. Restored(c)' = [f \in DOMAIN files |-> files[f]]
      BY <2>4, <2>5 DEF Restored
    <2>7. files = [f \in DOMAIN files |-> files[f]]
      BY <2>2 DEF IsFunction, Restrict
    <2>8. DraftCanStart(c)'
      BY <1>3, <2>2, <2>3, <2>4, <2>6, <2>7 DEF DraftCanStart
    <2>9. ASSUME NEW d \in DOMAIN drafts, d # c PROVE DraftCanStart(d)'
      BY <2>4, <2>9 DEF StartInv, DraftCanStart, Restored
    <2> QED BY <2>1, <2>4, <2>8, <2>9 DEF StartInv
  <1> QED BY <1>2, <1>3 DEF Place

LEMMA StartReadingOn ==
  ASSUME Inv, StartInv, NEW c \in Commands,
         ListFiles(c) \/ CheckFile(c) \/ ReadFile(c) \/ EndScan(c) \/ CopyFile(c)
  PROVE  StartInv'
  <1>1. pc[c] \in {"list", "check", "read", "copy"} /\ UNCHANGED disk
    BY DEF ListFiles, CheckFile, ReadFile, EndScan, CopyFile
  <1>2. CASE Stops(c, "failed")
    BY <1>1, <1>2, StartStopping DEF disk
  <1>3. DOMAIN command[c] = Parts
    BY DEF Inv, ShapeOK
  <1>4. CASE ListFiles(c)
    <2>1. [command[c] EXCEPT !.files = DOMAIN tree, !.moments = {tree}].source
            = command[c].source
      OBVIOUS
    <2> QED BY <1>1, <1>2, <1>4, <2>1, StartReading DEF ListFiles
  <1>5. CASE CheckFile(c)
    <2>1. \A path : [command[c] EXCEPT !.file = path].source = command[c].source
      OBVIOUS
    <2> QED BY <1>1, <1>2, <1>5, <2>1, StartReading DEF CheckFile
  <1>6. CASE ReadFile(c)
    <2> DEFINE path == command[c].file
               x == [command[c] EXCEPT !.files = @ \ {path}, !.file = "none",
                                        !.scanned = With(@, path, tree[path])]
    <2>1. x.source = command[c].source
      OBVIOUS
    <2>2. Goes(c, "check", x) \/ Stops(c, "failed")
      BY <1>6 DEF ReadFile
    <2> HIDE DEF x
    <2> QED BY <1>1, <1>2, <2>1, <2>2, StartReading
  <1>7. CASE EndScan(c)
    <2>1. [command[c] EXCEPT !.files = DOMAIN command[c].scanned].source = command[c].source
      OBVIOUS
    <2> QED BY <1>1, <1>2, <1>7, <2>1, StartReading DEF EndScan
  <1>8. CASE CopyFile(c)
    <2>1. \A path : [command[c] EXCEPT !.files = @ \ {path},
                        !.copied = With(@, path, tree[path])].source = command[c].source
      OBVIOUS
    <2> QED BY <1>1, <1>2, <1>8, <2>1, StartReading DEF CopyFile
  <1> QED BY <1>4, <1>5, <1>6, <1>7, <1>8

LEMMA StartDamaging ==
  ASSUME Inv, StartInv, Damage PROVE StartInv'
  <1>1. /\ build' = build /\ pc' = pc /\ command' = command /\ prepared' = prepared
        /\ \/ drafts' = drafts
           \/ \E d \in DOMAIN drafts : \E f \in SkillNames \cap DOMAIN drafts[d] :
                 drafts' = [drafts EXCEPT ![d][f] = Spoiled(@)]
    BY DEF Damage
  <1>2. /\ (build \in DOMAIN Catalogs)'
        /\ \A d \in Commands : SourceCanStart(d)' /\ StagedCanStart(d)'
    BY <1>1 DEF StartInv, SourceCanStart, StagedCanStart
  <1>3. CASE drafts' = drafts
    BY <1>1, <1>2, <1>3, DraftsStay DEF StartInv
  <1>4. ASSUME NEW d \in DOMAIN drafts, NEW f \in SkillNames \cap DOMAIN drafts[d], NEW new,
               drafts' = [drafts EXCEPT ![d] = [drafts[d] EXCEPT ![f] = new]]
        PROVE  StartInv'
    <2>1. /\ DOMAIN drafts' = DOMAIN drafts
          /\ drafts'[d] = [drafts[d] EXCEPT ![f] = new]
          /\ \A e \in DOMAIN drafts : e # d => drafts'[e] = drafts[e]
      BY <1>4
    <2>2. /\ DOMAIN drafts'[d] = DOMAIN drafts[d]
          /\ \A g \in DOMAIN drafts[d] \ SkillNames : drafts'[d][g] = drafts[d][g]
          /\ IsFunction(drafts'[d])
      BY <2>1 DEF IsFunction, Restrict
    <2>3. Restored(d)' = Restored(d)
      BY <1>1, <2>2 DEF Restored
    <2>4. "campaign.json" \in DOMAIN drafts[d] \ SkillNames
      <3>1. ReadsSource(Restored(d))
        BY DEF StartInv, DraftCanStart, VerifySnapshot
      <3>2. DOMAIN Restored(d) = DOMAIN drafts[d]
        BY DEF Restored
      <3> QED BY <3>1, <3>2 DEF ReadsSource, DocumentNames, SkillNames
    <2>5. DraftCanStart(d)'
      BY <2>2, <2>3, <2>4 DEF StartInv, DraftCanStart
    <2>6. ASSUME NEW e \in DOMAIN drafts, e # d PROVE DraftCanStart(e)'
      BY <1>1, <2>1, <2>6 DEF StartInv, DraftCanStart, Restored
    <2> QED BY <1>2, <2>1, <2>5, <2>6 DEF StartInv
  <1> QED BY <1>1, <1>3, <1>4

LEMMA StartStep == Inv /\ StartInv /\ [Next]_vars => StartInv'
  <1> SUFFICES ASSUME Inv, StartInv, [Next]_vars PROVE StartInv'
    OBVIOUS
  <1>1. ASSUME NEW c \in Commands, CommandStep(c) PROVE StartInv'
    <2>1. CASE Finish(c) \/ Interrupt(c)
      BY <2>1, StartStopping DEF Finish, Interrupt, disk
    <2> QED BY <1>1, <2>1, StartPreparing, StartReadingOn, StartMaking, StartPlacing
           DEF CommandStep
  <1>2. ASSUME build' = build, pc' = pc, command' = command, drafts' = drafts,
               prepared' = prepared
        PROVE  StartInv'
    <2>1. \A c \in Commands : SourceCanStart(c)' /\ StagedCanStart(c)'
      BY <1>2 DEF StartInv, SourceCanStart, StagedCanStart
    <2> QED BY <1>2, <2>1, DraftsStay DEF StartInv
  <1>3. ASSUME NEW d \in Commands, RunStep(d) PROVE StartInv'
    <2>1. UNCHANGED elsewhere
      BY <1>3 DEF RunStep, ClaimDraft, StageInputs, RunEnds, ShowContext, OpenSource, ReadSource
    <2> QED BY <1>2, <2>1 DEF elsewhere
  <1>4. CASE Edit
    <2>1. build' = build /\ pc' = pc /\ drafts' = drafts /\ prepared' = prepared
      BY <1>4 DEF Edit, disk
    <2>2. ASSUME NEW c \in Commands
          PROVE  /\ command'[c].source = command[c].source
                 /\ command'[c].staged = command[c].staged
      <3>1. \/ command'[c] = command[c]
            \/ command'[c] = [command[c] EXCEPT !.moments = @ \cup {tree'}]
        BY <1>4 DEF Edit
      <3>2. DOMAIN command[c] = Parts
        BY DEF Inv, ShapeOK
      <3> QED BY <3>1, <3>2 DEF Parts
    <2>3. \A c \in Commands : SourceCanStart(c)' /\ StagedCanStart(c)'
      BY <2>1, <2>2 DEF StartInv, SourceCanStart, StagedCanStart
    <2> QED BY <2>1, <2>3, DraftsStay DEF StartInv
  <1>5. CASE Upgrade
    <2>1. /\ pc' = pc /\ command' = command /\ drafts' = drafts /\ prepared' = prepared
          /\ build < Len(Catalogs) /\ build' = build + 1
      BY <1>5 DEF Upgrade, disk
    <2>2. build' \in DOMAIN Catalogs
      BY <2>1, CatalogAssumption DEF StartInv
    <2>3. \A c \in Commands : SourceCanStart(c)' /\ StagedCanStart(c)'
      BY <2>1 DEF StartInv, SourceCanStart, StagedCanStart
    <2> QED BY <2>1, <2>2, <2>3, DraftsStay DEF StartInv
  <1>6. CASE Damage
    BY <1>6, StartDamaging
  <1>7. CASE UNCHANGED vars
    BY <1>2, <1>7 DEF vars
  <1> QED BY <1>1, <1>3, <1>4, <1>5, <1>6, <1>7 DEF Next

\* Who approves, and where, agree with each other however a start is asked for.
LEMMA ApprovalsAlwaysAgree ==
  ASSUME NEW start, Approves(start), NEW draft
  PROVE  /\ AgreeingApproval(ApprovalOf(start, draft))
         /\ ApprovalOf(start, draft).acknowledgement.policy = draft.accepts
  <1>1. CASE start.yes /\ start.surface = "host-agent"
    BY <1>1 DEF AgreeingApproval, ApprovalOf, MethodOf, ActorOf, ActorsByMethod
  <1>2. CASE start.yes /\ start.surface = "cli"
    BY <1>2 DEF AgreeingApproval, ApprovalOf, MethodOf, ActorOf, ActorsByMethod
  <1>3. CASE ~start.yes \/ start.surface \notin {"host-agent", "cli"}
    BY <1>3 DEF AgreeingApproval, ApprovalOf, MethodOf, ActorOf, ActorsByMethod
  <1> QED BY <1>1, <1>2, <1>3

LEMMA LeftAloneCanStart ==
  ASSUME Inv, StartInv, NEW d \in Unclaimed,
         \A f \in DOMAIN prepared[d] : drafts[d][f] = prepared[d][f],
         NEW start, Approves(start)
  PROVE  MayClaim(d, start)
  <1> DEFINE files == drafts[d]
             draft == files["draft.json"]
  <1>1. d \in DOMAIN drafts
    BY DEF Unclaimed
  <1>2. DraftCanStart(d)
    BY <1>1 DEF StartInv
  <1>3. files = Restored(d)
    <2>1. DOMAIN prepared[d] = SkillNames \cap DOMAIN files
      BY <1>1 DEF Inv, DraftsKeepTheirSkills
    <2>2. files = [f \in DOMAIN files |-> files[f]]
      BY <1>2 DEF DraftCanStart, IsFunction, Restrict
    <2> QED BY <2>1, <2>2 DEF Restored
  <1>4. VerifySnapshot(files) /\ SupportedBackend(files["campaign.json"])
    BY <1>2, <1>3 DEF DraftCanStart, HasBackend
  <1>5. draft.accepts = draft.policy /\ files["comparison.json"].controlled
    BY <1>4 DEF VerifySnapshot, VerifiesManifests
  <1> HIDE DEF files
  <1>6. Startable(draft, files["campaign.json"], files["comparison.json"],
                  ApprovalOf(start, draft))
    BY <1>4, <1>5, ApprovalsAlwaysAgree DEF Startable
  <1> QED BY <1>4, <1>6 DEF MayClaim, files

----------------------------------------------------------------------------
(* What a person is shown of a run.  Each task has one place in the order of *)
(* the examples, so every task is met; one that is passed over is a success, *)
(* or comes after as many as there may be.                                   *)

\* A run's deltas: as many as it has tasks, each with two numbers.
GivenDeltas(deltas) ==
    /\ Len(deltas) \in Nat /\ DOMAIN deltas = 1 .. Len(deltas)
    /\ \A i \in DOMAIN deltas : deltas[i].delta \in Int /\ deltas[i].reward \in Int

Before(deltas, i) == {j \in DOMAIN deltas : Precedes(deltas, j, i)}
RankOf(deltas, i) == OutcomeRank[Outcome(deltas[i])]

LEMMA RankIsANumber ==
  ASSUME NEW deltas, GivenDeltas(deltas), NEW i \in DOMAIN deltas
  PROVE  RankOf(deltas, i) \in 0 .. 3
  <1>1. deltas[i].delta \in Int /\ deltas[i].reward \in Int
    BY DEF GivenDeltas
  <1>2. Outcome(deltas[i]) \in {"regressed", "improved", "stable_success", "stable_failure"}
    BY <1>1 DEF Outcome
  <1> QED BY <1>2 DEF RankOf, OutcomeRank

\* The order is total and strict.
LEMMA OrderIsStrict ==
  ASSUME NEW deltas, GivenDeltas(deltas), NEW i \in DOMAIN deltas, NEW j \in DOMAIN deltas,
         NEW k \in DOMAIN deltas
  PROVE  /\ ~Precedes(deltas, i, i)
         /\ i # j => Precedes(deltas, i, j) \/ Precedes(deltas, j, i)
         /\ Precedes(deltas, i, j) /\ Precedes(deltas, j, k) => Precedes(deltas, i, k)
         /\ ~Precedes(deltas, j, i) => RankOf(deltas, i) <= RankOf(deltas, j)
  <1> DEFINE a == RankOf(deltas, i)
             b == RankOf(deltas, j)
             c == RankOf(deltas, k)
             p == deltas[i].delta
             q == deltas[j].delta
             r == deltas[k].delta
  <1>1. a \in Int /\ b \in Int /\ c \in Int
    BY RankIsANumber
  <1>2. p \in Int /\ q \in Int /\ r \in Int /\ i \in Int /\ j \in Int /\ k \in Int
    BY DEF GivenDeltas
  <1>3. /\ Precedes(deltas, i, j) <=> (a < b \/ (a = b /\ p < q) \/ (a = b /\ p = q /\ i < j))
        /\ Precedes(deltas, j, i) <=> (b < a \/ (b = a /\ q < p) \/ (b = a /\ q = p /\ j < i))
        /\ Precedes(deltas, j, k) <=> (b < c \/ (b = c /\ q < r) \/ (b = c /\ q = r /\ j < k))
        /\ Precedes(deltas, i, k) <=> (a < c \/ (a = c /\ p < r) \/ (a = c /\ p = r /\ i < k))
        /\ Precedes(deltas, i, i) <=> (a < a \/ (a = a /\ p < p) \/ (a = a /\ p = p /\ i < i))
    BY DEF Precedes, RankOf
  <1> HIDE DEF a, b, c, p, q, r
  <1>4. /\ ~Precedes(deltas, i, i)
        /\ i # j => Precedes(deltas, i, j) \/ Precedes(deltas, j, i)
        /\ Precedes(deltas, i, j) /\ Precedes(deltas, j, k) => Precedes(deltas, i, k)
        /\ ~Precedes(deltas, j, i) => a <= b
    BY ONLY <1>1, <1>2, <1>3
  <1> QED BY <1>4 DEF a, b

\* Of two tasks the earlier has fewer before it.
LEMMA FewerBefore ==
  ASSUME NEW deltas, GivenDeltas(deltas), NEW i \in DOMAIN deltas, NEW j \in DOMAIN deltas,
         Precedes(deltas, i, j)
  PROVE  /\ Cardinality(Before(deltas, i)) \in Nat /\ Cardinality(Before(deltas, j)) \in Nat
         /\ Cardinality(Before(deltas, i)) < Cardinality(Before(deltas, j))
  <1>1. IsFiniteSet(DOMAIN deltas)
    <2>1. 1 \in Int /\ Len(deltas) \in Int /\ DOMAIN deltas = 1 .. Len(deltas)
      BY DEF GivenDeltas
    <2> QED BY <2>1, FS_Interval, Zenon
  <1>2. IsFiniteSet(Before(deltas, j)) /\ IsFiniteSet(Before(deltas, i))
    BY <1>1, FS_Subset DEF Before
  <1>3. Before(deltas, i) \subseteq Before(deltas, j)
    BY OrderIsStrict DEF Before
  <1>4. i \in Before(deltas, j) /\ i \notin Before(deltas, i)
    BY OrderIsStrict DEF Before
  <1> HIDE DEF Before
  <1>5. /\ Cardinality(Before(deltas, i)) <= Cardinality(Before(deltas, j))
        /\ Cardinality(Before(deltas, i)) # Cardinality(Before(deltas, j))
    BY <1>2, <1>3, <1>4, FS_Subset
  <1>6. Cardinality(Before(deltas, i)) \in Nat /\ Cardinality(Before(deltas, j)) \in Nat
    BY <1>2, FS_CardinalityType
  <1> QED BY <1>5, <1>6

\* Every task has a place of its own, and every place its task.
LEMMA RankedIsAnOrder ==
  ASSUME NEW deltas, GivenDeltas(deltas)
  PROVE  /\ DOMAIN Ranked(deltas) = 1 .. Len(deltas)
         /\ \A n \in 1 .. Len(deltas) : Ranked(deltas)[n] \in DOMAIN deltas
         /\ \A i \in DOMAIN deltas : \E n \in 1 .. Len(deltas) : Ranked(deltas)[n] = i
         /\ \A m, n \in 1 .. Len(deltas) : m < n =>
               RankOf(deltas, Ranked(deltas)[m]) <= RankOf(deltas, Ranked(deltas)[n])
  <1> DEFINE D == DOMAIN deltas
             N == Len(deltas)
             before(i) == Cardinality(Before(deltas, i))
             place == [i \in D |-> before(i) + 1]
  <1>1. N \in Nat /\ D = 1 .. N
    BY DEF GivenDeltas
  <1>2. IsFiniteSet(D) /\ Cardinality(D) = N
    <2>1. 1 \in Int /\ N \in Int
      BY <1>1
    <2>2. IsFiniteSet(1 .. N) /\ Cardinality(1 .. N) = IF 1 > N THEN 0 ELSE N - 1 + 1
      BY <2>1, FS_Interval, Zenon
    <2> QED BY <1>1, <2>2
  <1>3. \A i \in D : before(i) \in 0 .. N - 1
    <2> SUFFICES ASSUME NEW i \in D PROVE before(i) \in 0 .. N - 1
      OBVIOUS
    <2>1. Before(deltas, i) \in SUBSET D /\ i \notin Before(deltas, i)
      BY OrderIsStrict DEF Before
    <2>2. IsFiniteSet(Before(deltas, i)) /\ before(i) <= N /\ before(i) # N
      BY <1>2, <2>1, FS_Subset
    <2>3. before(i) \in Nat
      BY <2>2, FS_CardinalityType
    <2> QED BY <1>1, <2>2, <2>3
  <1>4. \A i, j \in D : i # j => before(i) # before(j)
    BY OrderIsStrict, FewerBefore
  <1>5. \A n \in 1 .. N : \E i \in D : before(i) = n - 1
    <2> SUFFICES ASSUME NEW n \in 1 .. N, \A i \in D : before(i) # n - 1 PROVE FALSE
      OBVIOUS
    <2> DEFINE T == (1 .. N) \ {n}
    <2>1. IsFiniteSet(T) /\ Cardinality(T) = N - 1
      BY <1>1, <1>2, FS_RemoveElement
    <2>2. place \in [D -> T]
      BY <1>1, <1>3
    <2> HIDE DEF T, place
    <2>3. PICK x \in D, y \in D : x # y /\ place[x] = place[y]
      BY <1>1, <1>2, <2>1, <2>2, FS_PigeonHole
    <2>4. before(x) = before(y)
      BY <1>3, <2>3 DEF place
    <2> QED BY <1>4, <2>3, <2>4
  <1>6. \A n \in 1 .. N : /\ Ranked(deltas)[n] \in D
                          /\ before(Ranked(deltas)[n]) = n - 1
    <2> SUFFICES ASSUME NEW n \in 1 .. N
                 PROVE  Ranked(deltas)[n] \in D /\ before(Ranked(deltas)[n]) = n - 1
      OBVIOUS
    <2>1. Ranked(deltas)[n] = CHOOSE i \in D : before(i) = n - 1
      BY <1>1 DEF Ranked, Before
    <2> HIDE DEF before
    <2>2. \E i \in D : before(i) = n - 1
      BY <1>5
    <2> QED BY <2>1, <2>2
  <1>7. \A i \in D : \E n \in 1 .. N : Ranked(deltas)[n] = i
    <2> SUFFICES ASSUME NEW i \in D PROVE \E n \in 1 .. N : Ranked(deltas)[n] = i
      OBVIOUS
    <2>1. PICK n \in 1 .. N : n - 1 = before(i)
      <3>1. PICK b : b = before(i)
        OBVIOUS
      <3>2. b \in 0 .. N - 1
        BY <1>3, <3>1
      <3>3. b + 1 \in 1 .. N /\ (b + 1) - 1 = b
        BY <1>1, <3>2
      <3> QED BY <3>1, <3>3
    <2>2. Ranked(deltas)[n] \in D /\ before(Ranked(deltas)[n]) = n - 1
      BY <1>6
    <2>3. Ranked(deltas)[n] = i
      BY <1>4, <2>1, <2>2
    <2> QED BY <2>3
  <1>8. \A m, n \in 1 .. N : m < n =>
           RankOf(deltas, Ranked(deltas)[m]) <= RankOf(deltas, Ranked(deltas)[n])
    <2> SUFFICES ASSUME NEW m \in 1 .. N, NEW n \in 1 .. N, m < n
                 PROVE  RankOf(deltas, Ranked(deltas)[m]) <= RankOf(deltas, Ranked(deltas)[n])
      OBVIOUS
    <2>1. PICK i, j : i = Ranked(deltas)[m] /\ j = Ranked(deltas)[n]
      OBVIOUS
    <2>2. i \in D /\ j \in D /\ before(i) = m - 1 /\ before(j) = n - 1
      BY <1>6, <2>1
    <2>3. ~ (before(j) < before(i))
      BY <1>1, <2>2
    <2>4. ~Precedes(deltas, j, i)
      BY <2>2, <2>3, FewerBefore
    <2> QED BY <2>1, <2>2, <2>4, OrderIsStrict
  <1>9. DOMAIN Ranked(deltas) = 1 .. N
    BY <1>1 DEF Ranked
  <1> QED BY <1>6, <1>7, <1>8, <1>9

\* Induction over the natural numbers, for a set.
LEMMA SetInduction ==
  ASSUME NEW S, 0 \in S, \A n \in Nat : n \in S => n + 1 \in S
  PROVE  \A n \in Nat : n \in S
  <1> DEFINE T == {n \in Nat : n \notin S}
             R == {ss \in Nat \X Nat : ss[1] < ss[2]}
  <1> SUFFICES ASSUME T # {} PROVE FALSE
    OBVIOUS
  <1>1. IsWellFoundedOn(R, Nat)
    BY NatLessThanWellFounded DEF OpToRel
  <1>2. PICK n \in T : \A m \in T : ~(<<m, n>> \in R)
    BY <1>1, WFMin
  <1>3. n \in Nat /\ n # 0
    OBVIOUS
  <1>4. n - 1 \in Nat /\ n - 1 < n /\ (n - 1) + 1 = n
    BY <1>3
  <1>5. <<n - 1, n>> \in R /\ n - 1 \in T
    BY <1>3, <1>4
  <1> QED BY <1>2, <1>5

\* The examples as they are taken, one place after the other.
Takes(taken, deltas, ranked, last) ==
  taken = [n \in 0 .. last |->
              IF n = 0 THEN <<>>
              ELSE IF PassesOver(deltas, taken[n - 1], ranked[n]) THEN taken[n - 1]
              ELSE Append(taken[n - 1], ranked[n])]

LEMMA TakingExists ==
  ASSUME NEW deltas, NEW ranked, NEW last \in Nat
  PROVE  \E taken : Takes(taken, deltas, ranked, last)
  <1> DEFINE S == {m \in Nat : \E taken : Takes(taken, deltas, ranked, m)}
  <1>1. 0 \in S
    <2>1. Takes([n \in 0 .. 0 |-> <<>>], deltas, ranked, 0)
      BY DEF Takes
    <2> QED BY <2>1
  <1>2. ASSUME NEW m \in Nat, m \in S PROVE m + 1 \in S
    <2>1. PICK taken : Takes(taken, deltas, ranked, m)
      BY <1>2
    <2> DEFINE next(t, n) == IF PassesOver(deltas, t, ranked[n]) THEN t ELSE Append(t, ranked[n])
               longer == [n \in 0 .. m + 1 |->
                            IF n = m + 1 THEN next(taken[m], m + 1) ELSE taken[n]]
    <2>2. taken = [n \in 0 .. m |-> IF n = 0 THEN <<>> ELSE next(taken[n - 1], n)]
      BY <2>1 DEF Takes
    <2> HIDE DEF next
    <2>3. ASSUME NEW n \in 0 .. m + 1
          PROVE  longer[n] = IF n = 0 THEN <<>> ELSE next(longer[n - 1], n)
      <3>1. CASE n = 0
        <4>1. 0 \in 0 .. m /\ 0 # m + 1
          OBVIOUS
        <4>2. taken[0] = <<>>
          BY <2>2, <4>1
        <4> QED BY <3>1, <4>1, <4>2
      <3>2. CASE n # 0 /\ n # m + 1
        <4>1. n \in 0 .. m /\ n - 1 \in 0 .. m + 1 /\ n - 1 # m + 1
          BY <3>2
        <4>2. taken[n] = next(taken[n - 1], n)
          BY <2>2, <3>2, <4>1
        <4> QED BY <3>2, <4>1, <4>2
      <3>3. CASE n = m + 1
        <4>1. n # 0 /\ m \in 0 .. m + 1 /\ m # m + 1 /\ n - 1 = m
          BY <3>3
        <4> QED BY <3>3, <4>1
      <3> QED BY <3>1, <3>2, <3>3
    <2>4. Takes(longer, deltas, ranked, m + 1)
      <3> HIDE DEF longer
      <3>1. longer = [n \in 0 .. m + 1 |-> longer[n]]
        BY DEF longer
      <3>2. [n \in 0 .. m + 1 |-> longer[n]]
              = [n \in 0 .. m + 1 |-> IF n = 0 THEN <<>> ELSE next(longer[n - 1], n)]
        BY <2>3
      <3> QED BY <3>1, <3>2, Zenon DEF Takes, next
    <2> QED BY <2>4
  <1> HIDE DEF S
  <1>3. last \in S
    BY <1>1, <1>2, SetInduction
  <1> QED BY <1>3 DEF S

LEMMA SelectTakes ==
  ASSUME NEW deltas, Len(deltas) \in Nat
  PROVE  \E taken : /\ Takes(taken, deltas, Ranked(deltas), Len(deltas))
                    /\ Select(deltas) = taken[Len(deltas)]
  <1> DEFINE taken == CHOOSE t : Takes(t, deltas, Ranked(deltas), Len(deltas))
  <1>1. Takes(taken, deltas, Ranked(deltas), Len(deltas))
    BY TakingExists
  <1>2. Select(deltas) = taken[Len(deltas)]
    BY DEF Select, Takes
  <1> QED BY <1>1, <1>2

Successes(deltas, chosen) ==
    {k \in DOMAIN chosen : Outcome(deltas[chosen[k]]) = "stable_success"}

\* What is so of the examples among the first tasks of the order.
TakenWell(deltas, ranked, chosen, n) ==
    /\ chosen \in Seq(DOMAIN deltas) /\ Len(chosen) <= ExampleLimit
    /\ IsFiniteSet(Successes(deltas, chosen))
    /\ Cardinality(Successes(deltas, chosen)) <= ExampleContrastLimit
    /\ \A k \in DOMAIN chosen : \E m \in 1 .. n : chosen[k] = ranked[m]
    /\ \A m \in 1 .. n :
          \/ \E k \in DOMAIN chosen : chosen[k] = ranked[m]
          \/ Outcome(deltas[ranked[m]]) = "stable_success"
          \/ /\ Len(chosen) = ExampleLimit
             /\ \A k \in DOMAIN chosen : RankOf(deltas, chosen[k]) <= RankOf(deltas, ranked[m])

LEMMA TakingStep ==
  ASSUME NEW deltas, GivenDeltas(deltas), NEW ranked, ranked = Ranked(deltas),
         NEW n \in 1 .. Len(deltas), NEW chosen, TakenWell(deltas, ranked, chosen, n - 1),
         NEW next, next = IF PassesOver(deltas, chosen, ranked[n]) THEN chosen
                          ELSE Append(chosen, ranked[n])
  PROVE  TakenWell(deltas, ranked, next, n)
  <1>1. /\ n - 1 \in Nat /\ n \in Nat /\ Len(deltas) \in Nat
        /\ \A m \in 1 .. n : m = n \/ (m \in 1 .. n - 1 /\ m < n)
        /\ \A m \in 1 .. n - 1 : m \in 1 .. n
        /\ \A m \in 1 .. n : m \in 1 .. Len(deltas)
    BY DEF GivenDeltas
  <1>2. /\ ranked[n] \in DOMAIN deltas
        /\ \A m \in 1 .. n - 1 : RankOf(deltas, ranked[m]) <= RankOf(deltas, ranked[n])
    <2>1. /\ \A k \in 1 .. Len(deltas) : ranked[k] \in DOMAIN deltas
          /\ \A k, m \in 1 .. Len(deltas) : k < m =>
                RankOf(deltas, ranked[k]) <= RankOf(deltas, ranked[m])
      BY RankedIsAnOrder
    <2>2. \A m \in 1 .. n - 1 : m \in 1 .. Len(deltas) /\ m < n
      BY <1>1
    <2> QED BY <2>1, <2>2
  <1>3. /\ chosen \in Seq(DOMAIN deltas) /\ Len(chosen) <= ExampleLimit
        /\ IsFiniteSet(Successes(deltas, chosen))
        /\ Cardinality(Successes(deltas, chosen)) <= ExampleContrastLimit
        /\ \A k \in DOMAIN chosen : \E m \in 1 .. n - 1 : chosen[k] = ranked[m]
    BY DEF TakenWell
  <1>4. Len(chosen) \in Nat /\ ExampleLimit \in Nat /\ ExampleContrastLimit \in Nat
    BY <1>3, LimitAssumption
  <1>5. CASE PassesOver(deltas, chosen, ranked[n])
    <2>1. next = chosen
      BY <1>5
    <2>2. \/ Len(chosen) = ExampleLimit
          \/ Outcome(deltas[ranked[n]]) = "stable_success"
      BY <1>3, <1>4, <1>5 DEF PassesOver
    <2>3. \A k \in DOMAIN chosen : RankOf(deltas, chosen[k]) <= RankOf(deltas, ranked[n])
      BY <1>2, <1>3
    <2>4. ASSUME NEW m \in 1 .. n
          PROVE  \/ \E k \in DOMAIN chosen : chosen[k] = ranked[m]
                 \/ Outcome(deltas[ranked[m]]) = "stable_success"
                 \/ /\ Len(chosen) = ExampleLimit
                    /\ \A k \in DOMAIN chosen :
                          RankOf(deltas, chosen[k]) <= RankOf(deltas, ranked[m])
      <3>1. CASE m = n
        BY <2>2, <2>3, <3>1
      <3>2. CASE m \in 1 .. n - 1
        BY <3>2 DEF TakenWell
      <3> QED BY <1>1, <3>1, <3>2
    <2>5. \A k \in DOMAIN chosen : \E m \in 1 .. n : chosen[k] = ranked[m]
      BY <1>1, <1>3
    <2> QED BY <1>3, <2>1, <2>4, <2>5 DEF TakenWell
  <1>6. CASE ~PassesOver(deltas, chosen, ranked[n])
    <2> DEFINE last == Len(chosen) + 1
    <2>1. /\ next = Append(chosen, ranked[n]) /\ next \in Seq(DOMAIN deltas)
          /\ Len(next) = last /\ DOMAIN next = 1 .. last /\ DOMAIN chosen = 1 .. Len(chosen)
          /\ next[last] = ranked[n]
          /\ \A k \in DOMAIN chosen : next[k] = chosen[k]
      BY <1>2, <1>3, <1>6
    <2>2. /\ ~(Len(chosen) >= ExampleLimit)
          /\ Outcome(deltas[ranked[n]]) = "stable_success" =>
                ~(Cardinality(Successes(deltas, chosen)) >= ExampleContrastLimit)
      BY <1>6 DEF PassesOver, Successes
    <2>3. /\ last \in 1 .. last /\ last \notin DOMAIN chosen
          /\ \A k \in 1 .. last : k \in DOMAIN chosen \/ k = last
          /\ \A k \in DOMAIN chosen : k \in 1 .. last
          /\ last <= ExampleLimit
      BY <1>4, <2>1, <2>2
    <2>4. Cardinality(Successes(deltas, chosen)) \in Nat
      BY <1>3, FS_CardinalityType
    <2>5. /\ IsFiniteSet(Successes(deltas, next))
          /\ Cardinality(Successes(deltas, next)) <= ExampleContrastLimit
      <3>1. last \notin Successes(deltas, chosen)
        BY <2>3 DEF Successes
      <3>2. CASE Outcome(deltas[ranked[n]]) = "stable_success"
        <4>1. Successes(deltas, next) = Successes(deltas, chosen) \cup {last}
          BY <2>1, <2>3, <3>2 DEF Successes
        <4>2. /\ IsFiniteSet(Successes(deltas, chosen) \cup {last})
              /\ Cardinality(Successes(deltas, chosen) \cup {last})
                    = Cardinality(Successes(deltas, chosen)) + 1
          BY <1>3, <3>1, FS_AddElement
        <4>3. PICK few : few = Cardinality(Successes(deltas, chosen))
          OBVIOUS
        <4>4. few \in Nat /\ ~(few >= ExampleContrastLimit)
          BY <2>2, <2>4, <3>2, <4>3
        <4>5. few + 1 <= ExampleContrastLimit
          BY <1>4, <4>4
        <4> QED BY <4>1, <4>2, <4>3, <4>5
      <3>3. CASE Outcome(deltas[ranked[n]]) # "stable_success"
        <4>1. Successes(deltas, next) = Successes(deltas, chosen)
          BY <2>1, <2>3, <3>3 DEF Successes
        <4> QED BY <1>3, <4>1
      <3> QED BY <3>2, <3>3
    <2>6. ASSUME NEW k \in DOMAIN next PROVE \E m \in 1 .. n : next[k] = ranked[m]
      <3>1. CASE k = last
        BY <1>1, <2>1, <3>1
      <3>2. CASE k \in DOMAIN chosen
        BY <1>1, <1>3, <2>1, <3>2
      <3> QED BY <2>1, <2>3, <3>1, <3>2
    <2>7. ASSUME NEW m \in 1 .. n
          PROVE  \/ \E k \in DOMAIN next : next[k] = ranked[m]
                 \/ Outcome(deltas[ranked[m]]) = "stable_success"
      <3>1. CASE m = n
        BY <2>1, <2>3, <3>1
      <3>2. CASE m \in 1 .. n - 1
        <4>1. \/ \E k \in DOMAIN chosen : chosen[k] = ranked[m]
              \/ Outcome(deltas[ranked[m]]) = "stable_success"
              \/ Len(chosen) = ExampleLimit
          BY <3>2 DEF TakenWell
        <4>2. Len(chosen) # ExampleLimit
          BY <1>4, <2>2
        <4> QED BY <2>1, <2>3, <4>1, <4>2
      <3> QED BY <1>1, <3>1, <3>2
    <2> QED BY <2>1, <2>3, <2>5, <2>6, <2>7 DEF TakenWell
  <1> QED BY <1>5, <1>6

LEMMA SelectTakesWell ==
  ASSUME NEW deltas, GivenDeltas(deltas)
  PROVE  TakenWell(deltas, Ranked(deltas), Select(deltas), Len(deltas))
  <1> DEFINE N == Len(deltas)
             ranked == Ranked(deltas)
  <1>1. N \in Nat
    BY DEF GivenDeltas
  <1>2. PICK taken : Takes(taken, deltas, ranked, N) /\ Select(deltas) = taken[N]
    BY <1>1, SelectTakes
  <1> DEFINE S == {n \in Nat : n <= N => TakenWell(deltas, ranked, taken[n], n)}
  <1> HIDE DEF N, ranked
  <1>3. 0 \in S
    <2>1. taken[0] = <<>>
      BY <1>1, <1>2 DEF Takes
    <2>2. Successes(deltas, <<>>) = {}
      BY DEF Successes
    <2>3. IsFiniteSet({}) /\ Cardinality({}) = 0
      BY FS_EmptySet
    <2>4. <<>> \in Seq(DOMAIN deltas) /\ Len(<<>>) = 0 /\ DOMAIN <<>> = {} /\ 1 .. 0 = {}
      OBVIOUS
    <2>5. 0 <= ExampleLimit /\ 0 <= ExampleContrastLimit
      BY LimitAssumption
    <2>6. TakenWell(deltas, ranked, <<>>, 0)
      BY <2>2, <2>3, <2>4, <2>5 DEF TakenWell
    <2> QED BY <2>1, <2>6
  <1>4. ASSUME NEW n \in Nat, n \in S PROVE n + 1 \in S
    <2> SUFFICES ASSUME n + 1 <= N PROVE TakenWell(deltas, ranked, taken[n + 1], n + 1)
      OBVIOUS
    <2>1. n + 1 \in 1 .. N /\ n + 1 \in 0 .. N /\ n + 1 # 0 /\ (n + 1) - 1 = n /\ n <= N
      BY <1>1
    <2>2. TakenWell(deltas, ranked, taken[n], (n + 1) - 1)
      BY <1>4, <2>1
    <2>3. taken[n + 1] = IF PassesOver(deltas, taken[n], ranked[n + 1]) THEN taken[n]
                         ELSE Append(taken[n], ranked[n + 1])
      BY <1>2, <2>1 DEF Takes
    <2> QED BY <2>1, <2>2, <2>3, TakingStep DEF N, ranked
  <1> HIDE DEF S
  <1>5. N \in S
    BY <1>1, <1>3, <1>4, SetInduction
  <1>6. TakenWell(deltas, ranked, taken[N], N)
    BY <1>1, <1>5 DEF S
  <1> QED BY <1>2, <1>6 DEF N, ranked

----------------------------------------------------------------------------
\* A context that is shown is made of how a run ended, which does not change.
ExamplesFrom(deltas, receipts) ==
    LET chosen == Select(deltas)
    IN  [k \in DOMAIN chosen |-> ExampleOf(deltas[chosen[k]], receipts)]

ContextInv ==
    /\ \A d \in DOMAIN endings : endings[d] \in Endings
    /\ "context" \in DOMAIN shown =>
          /\ shown.run \in DOMAIN endings
          /\ \E receipts : shown.context.examples
                             = ExamplesFrom(endings[shown.run].deltas, receipts)

LEMMA ContextStep == Inv /\ ContextInv /\ [Next]_vars => ContextInv'
  <1> SUFFICES ASSUME Inv, ContextInv, [Next]_vars PROVE ContextInv'
    OBVIOUS
  <1>1. CASE endings' = endings /\ shown' = shown
    BY <1>1 DEF ContextInv
  <1>2. ASSUME NEW c \in Commands, CommandStep(c) PROVE ContextInv'
    <2>1. endings' = endings /\ shown' = shown
      BY <1>2 DEF CommandStep, PrepareForClimb, PrepareReplacement, ListFiles, CheckFile,
         ReadFile, EndScan, CopyFile, MakeDraft, Place, Finish, Interrupt, disk
    <2> QED BY <1>1, <2>1
  <1>3. ASSUME NEW d \in Commands, RunStep(d) PROVE ContextInv'
    <2>1. CASE ClaimDraft(d) \/ StageInputs(d) \/ OpenSource(d)
      BY <1>1, <2>1 DEF ClaimDraft, StageInputs, OpenSource
    <2>2. CASE RunEnds(d)
      <3>1. PICK ending \in Endings : endings' = With(endings, d, ending)
        BY <2>2 DEF RunEnds
      <3>2. d \notin DOMAIN endings /\ shown' = shown
        BY <2>2 DEF RunEnds
      <3>3. /\ DOMAIN endings' = DOMAIN endings \cup {d} /\ endings'[d] = ending
            /\ \A e \in DOMAIN endings : endings'[e] = endings[e]
        BY <3>1, <3>2 DEF With
      <3> QED BY <3>2, <3>3 DEF ContextInv
    <2>3. CASE ShowContext(d)
      <3>1. /\ d \in DOMAIN endings /\ endings' = endings
            /\ shown' = [run |-> d, context |-> ImprovementContext(ReportOf(d),
                            endings[d].receipts, inputs[d]["skill"].artifact)]
        BY <2>3 DEF ShowContext, CompletedRealRun
      <3>2. ImprovementContext(ReportOf(d), endings[d].receipts,
                               inputs[d]["skill"].artifact).examples
              = ExamplesFrom(endings[d].deltas, endings[d].receipts)
        BY DEF ImprovementContext, ReportOf, ExamplesFrom
      <3> HIDE DEF ExamplesFrom
      <3> QED BY <3>1, <3>2 DEF ContextInv
    <2>4. CASE ReadSource(d)
      <3>1. /\ endings' = endings
            /\ \/ shown' = shown
               \/ shown' = [run |-> d, text |-> inputs[d]["skill"].files[EntryFile]]
        BY <2>4 DEF ReadSource
      <3> QED BY <1>1, <3>1 DEF ContextInv
    <2> QED BY <1>3, <2>1, <2>2, <2>3, <2>4 DEF RunStep
  <1>4. CASE Edit \/ Upgrade \/ Damage
    BY <1>1, <1>4 DEF Edit, Upgrade, Damage, disk
  <1>5. CASE UNCHANGED vars
    BY <1>1, <1>5 DEF vars
  <1> QED BY <1>2, <1>3, <1>4, <1>5 DEF Next

LEMMA ContextLeavesNothingWorseOut ==
  ASSUME ContextInv PROVE NothingWorseIsLeftOut
  <1> SUFFICES ASSUME "context" \in DOMAIN shown PROVE NothingWorseIsLeftOut
    BY DEF NothingWorseIsLeftOut
  <1> DEFINE deltas  == endings[shown.run].deltas
             kept    == shown.context.examples
             chosen  == Select(deltas)
             rank(o) == OutcomeRank[o]
             left    == {i \in DOMAIN deltas : \A k \in DOMAIN kept :
                            kept[k].task # deltas[i].task}
  <1>1. GivenDeltas(deltas)
    BY EndingAssumption DEF ContextInv, GivenDeltas
  <1>2. TakenWell(deltas, Ranked(deltas), chosen, Len(deltas))
    BY <1>1, SelectTakesWell
  <1>3. PICK receipts : kept = ExamplesFrom(deltas, receipts)
    BY DEF ContextInv
  <1>4. /\ DOMAIN kept = DOMAIN chosen /\ kept = [k \in DOMAIN kept |-> kept[k]]
        /\ \A k \in DOMAIN chosen : /\ kept[k].task = deltas[chosen[k]].task
                                    /\ kept[k].outcome = Outcome(deltas[chosen[k]])
    <2> HIDE DEF kept
    <2>1. kept = [k \in DOMAIN chosen |-> ExampleOf(deltas[chosen[k]], receipts)]
      BY <1>3 DEF ExamplesFrom
    <2>2. \A d : ExampleOf(d, receipts).task = d.task /\ ExampleOf(d, receipts).outcome = Outcome(d)
      BY DEF ExampleOf
    <2> HIDE DEF chosen, deltas
    <2> QED BY <2>1, <2>2
  <1> HIDE DEF kept, chosen, deltas
  <1>5. /\ chosen \in Seq(DOMAIN deltas) /\ Len(chosen) <= ExampleLimit
        /\ Cardinality(Successes(deltas, chosen)) <= ExampleContrastLimit
    BY <1>2 DEF TakenWell
  <1>6. Len(kept) = Len(chosen)
    <2>1. DOMAIN kept = 1 .. Len(chosen) /\ Len(chosen) \in Nat
      BY <1>4, <1>5
    <2> QED BY <1>4, <2>1
  <1>7. {k \in DOMAIN kept : kept[k].outcome = "stable_success"} = Successes(deltas, chosen)
    BY <1>4 DEF Successes
  <1>8. ASSUME NEW i \in left
        PROVE  \/ Outcome(deltas[i]) = "stable_success"
               \/ /\ Len(kept) = ExampleLimit
                  /\ \A k \in DOMAIN kept : rank(kept[k].outcome) <= rank(Outcome(deltas[i]))
    <2>1. PICK m \in 1 .. Len(deltas) : Ranked(deltas)[m] = i
      BY <1>1, RankedIsAnOrder
    <2>2. \/ \E k \in DOMAIN chosen : chosen[k] = i
          \/ Outcome(deltas[i]) = "stable_success"
          \/ /\ Len(chosen) = ExampleLimit
             /\ \A k \in DOMAIN chosen : RankOf(deltas, chosen[k]) <= RankOf(deltas, i)
      BY <1>2, <2>1 DEF TakenWell
    <2>3. ~ \E k \in DOMAIN chosen : chosen[k] = i
      BY <1>4
    <2> QED BY <1>4, <1>6, <2>2, <2>3 DEF RankOf
  <1> QED BY <1>5, <1>6, <1>7, <1>8 DEF NothingWorseIsLeftOut, deltas, kept

----------------------------------------------------------------------------
\* The inductive invariant holds in every reachable state.
THEOREM InvHolds == Spec => []Inv
  <1>1. Init => Inv
    BY InitInv
  <1>2. Inv /\ [Next]_vars => Inv'
    BY StepInv
  <1> QED BY <1>1, <1>2, PTL DEF Spec

\* However long the directory is edited while it is read, the files of a draft
\* were all there at one moment of that time.
THEOREM SnapshotsWereThere == Spec => []SnapshotWasThere
  <1>1. Inv => SnapshotWasThere
    <2> SUFFICES ASSUME Inv, NEW c \in DOMAIN prepared, pc[c] = "placed"
                 PROVE  WereThere(c, prepared[c]["skill"].files)
      BY DEF SnapshotWasThere, WereThere
    <2>1. c \in Commands
      BY DEF Inv, OneMaker
    <2>2. PlacedWasThere(c)
      BY <2>1 DEF Inv, CommandsOK, CommandOK
    <2> QED BY <2>2 DEF PlacedWasThere
  <1> QED BY <1>1, InvHolds, PTL

\* What follows from a run, however often one follows from another and whatever
\* is damaged meanwhile, is about the Skill that run measured.
THEOREM RevisionsFollowTheRun == Spec => []WhatFollowsIsMeasured
  <1>1. Inv => WhatFollowsIsMeasured
    BY DEF Inv, ReplacementsAreMeasured, TextIsMeasured, ReplacesMeasured, MeasuredRun,
       WhatFollowsIsMeasured, RunDocuments
  <1> QED BY <1>1, InvHolds, PTL

\* Whichever start gets as far as staging a draft, and whatever is damaged
\* before, the run is given what the command verified that prepared it.
THEOREM RunsAreGivenWhatWasPrepared == Spec => StagedAsPrepared
  <1> DEFINE Given ==
        \A d \in DOMAIN inputs' \ DOMAIN inputs :
          /\ AgreeingApproval(requests'[d])
          /\ requests'[d].policy = requests'[d].acknowledgement.policy
          /\ DOMAIN inputs'[d] = DOMAIN drafts[d]
          /\ \A f \in DOMAIN inputs'[d] :
                inputs'[d][f] = IF f \in SkillNames THEN prepared[d][f]
                                ELSE drafts[d][f]
  <1>1. Inv /\ [Next]_vars => Given
    <2> SUFFICES ASSUME Inv, [Next]_vars, NEW d \in DOMAIN inputs' \ DOMAIN inputs
                 PROVE  /\ AgreeingApproval(requests'[d])
                        /\ requests'[d].policy = requests'[d].acknowledgement.policy
                        /\ DOMAIN inputs'[d] = DOMAIN drafts[d]
                        /\ \A f \in DOMAIN inputs'[d] :
                              inputs'[d][f] = IF f \in SkillNames THEN prepared[d][f]
                                              ELSE drafts[d][f]
      OBVIOUS
    <2> DEFINE staged == StagedInputs(d)
               request == RequestOf(d)
    <2>1. StageInputs(d)
      BY NewInputs
    <2>2. d \in DOMAIN claimed /\ d \in DOMAIN drafts
      BY <2>1 DEF StageInputs, Inv, OneMaker
    <2>3. VerifyInputs(staged, drafts[d]["draft.json"]) /\ inputs' = With(inputs, d, staged)
      BY <2>1 DEF StageInputs
    <2>4. requests' = With(requests, d, request)
      BY <2>1 DEF StageInputs
    <2>5. AgreeingApproval(request) /\ request.policy = request.acknowledgement.policy
      BY <2>2, RequestsAgree
    <2>6. /\ DOMAIN staged = DOMAIN drafts[d]
          /\ \A f \in DOMAIN drafts[d] :
                IF f \in SkillNames
                THEN staged[f].artifact = drafts[d][f].artifact /\ Trimmed(staged[f])
                ELSE staged[f] = drafts[d][f]
      BY StagedInputsAre
    <2> HIDE DEF staged, request
    <2>7. inputs'[d] = staged
      BY <2>3 DEF With
    <2>8. requests'[d] = request
      BY <2>4 DEF With
    <2>9. ASSUME NEW f \in SkillNames \cap DOMAIN drafts[d]
          PROVE  staged[f] = prepared[d][f]
      <3>1. VerifySkill(staged[f])
        BY <2>3, <2>6 DEF VerifyInputs, VerifiesBaselineSkill, SkillNames
      <3>2. staged[f] = Described(staged[f].artifact)
        BY <2>6, <3>1, VerifiedIsDescribed
      <3>3. /\ staged[f].artifact = prepared[d][f].artifact
            /\ prepared[d][f] = Described(prepared[d][f].artifact)
        BY <2>2, <2>6 DEF Inv, DraftsKeepTheirSkills
      <3> QED BY <3>2, <3>3
    <2> QED BY <2>5, <2>6, <2>7, <2>8, <2>9
  <1>2. Spec => [][Given]_vars
    BY <1>1, InvHolds, PTL DEF Spec
  <1> QED BY <1>2 DEF StagedAsPrepared
\* Whatever is edited, upgraded, killed or damaged elsewhere, a draft whose
\* files are as they were placed is had by the first start somebody approves of.
THEOREM DraftsStayStartable == Spec => []PreparedCanStart
  <1>1. Inv /\ StartInv => PreparedCanStart
    BY LeftAloneCanStart DEF PreparedCanStart
  <1>2. Spec => []StartInv
    <2>1. Inv /\ StartInv /\ [Next]_vars => StartInv'
      BY StartStep
    <2> QED BY <2>1, StartInit, InvHolds, PTL DEF Spec
  <1> QED BY <1>1, <1>2, InvHolds, PTL
\* However a run's tasks turned out, a person who is shown some of them is shown
\* no task in the place of one that fared worse.
THEOREM NothingWorseIsKeptBack == Spec => []NothingWorseIsLeftOut
  <1>1. Init => ContextInv
    BY DEF Init, ContextInv, NoFiles, Nothing
  <1>2. Inv /\ ContextInv /\ [Next]_vars => ContextInv'
    BY ContextStep
  <1>3. ContextInv => NothingWorseIsLeftOut
    BY ContextLeavesNothingWorseOut
  <1> QED BY <1>1, <1>2, <1>3, InvHolds, PTL DEF Spec
=============================================================================
