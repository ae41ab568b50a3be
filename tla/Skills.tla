------------------------------- MODULE Skills -------------------------------
(***************************************************************************)
(* What may be a Skill, and what a Skill is once it has been taken: the    *)
(* scanner (skills/scanner.py), the snapshot (skills/service.py), the      *)
(* archive (skills/archive.py) and the checks made of a staged copy        *)
(* (drafts/store.py, runs/artifacts.py, uplift/source.py).                 *)
(*                                                                         *)
(* A directory is a function from the paths in it to what is there: a file *)
(* is [type, size, text, version], and version tells its bytes apart.      *)
(***************************************************************************)
EXTENDS Naturals, FiniteSets, Functions, Folds

CONSTANTS
    PathFacts,     \* of each path: its hidden part, suffix and case-folded form
    SkillPolicy    \* the suffixes and the limits of an instruction Skill

ASSUME PolicyAssumption ==
    /\ \A p \in DOMAIN PathFacts :
          DOMAIN PathFacts[p] = {"hidden", "suffix", "folded"}
    /\ SkillPolicy.files \in Nat /\ SkillPolicy.fileBytes \in Nat
    /\ SkillPolicy.totalBytes \in Nat

EntryFile == "SKILL.md"

\* A Skill is named by its directory or by its entry file.
ResolvesSkillRoot(directory, named) ==
    /\ named \in {"directory", EntryFile}
    /\ EntryFile \in DOMAIN directory
    /\ directory[EntryFile].type # "other"

EnumeratesFiles(directory) == Cardinality(DOMAIN directory) <= SkillPolicy.files

\* What a file must look like before it is read.
ValidatesFile(directory, path) ==
    /\ path \in DOMAIN directory
    /\ ~PathFacts[path].hidden
    /\ directory[path].type = "regular"
    /\ PathFacts[path].suffix \in SkillPolicy.suffixes
    /\ directory[path].size <= SkillPolicy.fileBytes

TotalBytes(files) == FoldFunction(LAMBDA f, total : f.size + total, 0, files)

\* What was read must be text and, with what was read before it, not too much.
ReadsFile(scanned, file) ==
    /\ TotalBytes(scanned) + file.size <= SkillPolicy.totalBytes
    /\ file.text

CaseCollisions(files) ==
    {p \in DOMAIN files : \E q \in DOMAIN files \ {p} :
        PathFacts[p].folded = PathFacts[q].folded}

ScanIsASkill(scanned) == EntryFile \in DOMAIN scanned /\ CaseCollisions(scanned) = {}

----------------------------------------------------------------------------
(* The artifact.  The root digest is of every path and what it holds. *)

ContentDigest(files) == files
BuildDeterministicTar(files) == [members |-> files, normalized |-> TRUE]

ArtifactOf(files, parent) ==
    [root |-> ContentDigest(files), listed |-> files,
     archive |-> BuildDeterministicTar(files), parent |-> parent,
     size |-> TotalBytes(files)]

StagedSkill(artifact, archive, files) ==
    [artifact |-> artifact, archive |-> archive, files |-> files]

\* A copy takes the artifact and the archive as they are, and the files the
\* artifact lists.
CopySkill(artifact, staged) ==
    StagedSkill(artifact, staged.archive,
                Restrict(staged.files, DOMAIN artifact.listed \cap DOMAIN staged.files))

VerifyArchive(archive, artifact) ==
    /\ archive = artifact.archive
    /\ archive.normalized /\ archive.members = artifact.listed

HoldsListedFiles(staged) ==
    \A p \in DOMAIN staged.artifact.listed :
        p \in DOMAIN staged.files /\ staged.files[p] = staged.artifact.listed[p]

VerifySkill(staged) ==
    /\ ContentDigest(staged.artifact.listed) = staged.artifact.root
    /\ HoldsListedFiles(staged)
    /\ VerifyArchive(staged.archive, staged.artifact)

\* Mutant of ReadsSourceSkill: the artifact alone is checked.
TrustsArtifact(staged) ==
    /\ ContentDigest(staged.artifact.listed) = staged.artifact.root
    /\ EntryFile \in DOMAIN staged.artifact.listed

\* The text of the Skill a run measured, for the person who revises it.
ReadsSourceSkill(staged) ==
    /\ ContentDigest(staged.artifact.listed) = staged.artifact.root
    /\ HoldsListedFiles(staged)
    /\ EntryFile \in DOMAIN staged.artifact.listed
    /\ staged.artifact.listed[EntryFile].text
=============================================================================
