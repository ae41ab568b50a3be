---------------------------- MODULE Publication ----------------------------
(***************************************************************************)
(* The publication of one finished run: `techtree publish` commands that   *)
(* plan, ask a person, record the attempt, send the proof and file the run *)
(* log's receipt.  They share the run's publication journal and its receipt*)
(* file, under no lock, and the public run log.                            *)
(*                                                                         *)
(* Source: src/techtree/publication/service.py, journal.py, transport.py,  *)
(* verify.py and cli/commands/publish.py.  The run log is not in the       *)
(* repository; what is assumed of it is that it answers a submission it    *)
(* has accepted before with the receipt it gave then.                      *)
(***************************************************************************)
EXTENDS Integers, Sequences

CONSTANTS
  Publishers,    \* processes running the command
  MaxAttempts,   \* bound: commands run
  MaxCrashes,    \* bound: processes that die, or fail as no one handles
  None

ASSUME Bounds == MaxAttempts \in Nat /\ MaxCrashes \in Nat

ASSUME NoneIsNoName == None \notin {"receipt", "partial", "failed", "conflict"}

VARIABLES
  journal,     \* the lines of publication.jsonl
  receipt,     \* the receipt file: None, "partial" or the log's "receipt"
  accepted,    \* whether the run log has accepted the run's proof
  step,        \* per publisher: its next step
  entry,       \* per publisher: the status it records next
  counted,     \* per publisher: the sequence it found for it
  failure,     \* per publisher: why its attempt failed
  overlapped,  \* whether two commands were ever at work at once (history)
  attempts, crashes

vars == <<journal, receipt, accepted, step, entry, counted, failure,
          overlapped, attempts, crashes>>

Statuses == {"pending", "published", "failed"}

\* How a line is on disk: with its end; complete but for its end; cut short; or
\* the remains of one line with another after it.
Forms == {"whole", "unended", "torn", "joined"}

PublisherSteps == {"idle", "asked", "count", "append", "submit", "sent",
                   "file", "write", "compare"}

Init ==
  /\ journal = <<>>
  /\ receipt = None
  /\ accepted = FALSE
  /\ step = [p \in Publishers |-> "idle"]
  /\ entry = [p \in Publishers |-> "pending"]
  /\ counted = [p \in Publishers |-> 0]
  /\ failure = [p \in Publishers |-> None]
  /\ overlapped = FALSE
  /\ attempts = 0
  /\ crashes = 0

-----------------------------------------------------------------------------
(* The journal *)

\* entries(): every line parses and carries its own position.
Readable(lines) ==
  \A n \in 1 .. Len(lines) : lines[n].form \in {"whole", "unended"}
                             /\ lines[n].sequence = n - 1

Published(lines) == \E n \in 1 .. Len(lines) : lines[n].status = "published"

\* A line is written at the end of the file, whatever the file ends with.
Written(lines, line) ==
  IF lines # <<>> /\ lines[Len(lines)].form \in {"unended", "torn"}
  THEN [lines EXCEPT ![Len(lines)].form = "joined"]
  ELSE Append(lines, line)

Goto(p, next) == step' = [step EXCEPT ![p] = next]

\* The attempt goes on to record how it stands.
Record(p, status) == entry' = [entry EXCEPT ![p] = status] /\ Goto(p, "count")

Fail(p, why) == failure' = [failure EXCEPT ![p] = why] /\ Record(p, "failed")

-----------------------------------------------------------------------------
(* One command *)

\* Mutant of Plan: a run that is published may be planned again.
PlanAgain(p) ==
  /\ step[p] = "idle"
  /\ attempts < MaxAttempts
  /\ attempts' = attempts + 1
  /\ overlapped' = (overlapped \/ \E q \in Publishers : step[q] # "idle")
  /\ Readable(journal)
  /\ Goto(p, "asked")
  /\ failure' = [failure EXCEPT ![p] = None]
  /\ UNCHANGED <<journal, receipt, accepted, entry, counted, crashes>>

\* plan: refused if the journal cannot be read or says the run is published.
Plan(p) ==
  /\ step[p] = "idle"
  /\ attempts < MaxAttempts
  /\ attempts' = attempts + 1
  /\ overlapped' = (overlapped \/ \E q \in Publishers : step[q] # "idle")
  /\ Readable(journal)
  /\ ~Published(journal)
  /\ Goto(p, "asked")
  /\ failure' = [failure EXCEPT ![p] = None]
  /\ UNCHANGED <<journal, receipt, accepted, entry, counted, crashes>>

\* A person reads the plan and takes any time to answer.
Decline(p) ==
  /\ step[p] = "asked"
  /\ Goto(p, "idle")
  /\ UNCHANGED <<journal, receipt, accepted, entry, counted, failure,
                 overlapped, attempts, crashes>>

\* publish: the pending line goes down before anything is sent.
Confirm(p) ==
  /\ step[p] = "asked"
  /\ Record(p, "pending")
  /\ UNCHANGED <<journal, receipt, accepted, counted, failure,
                 overlapped, attempts, crashes>>

NextSequence(p) == Len(journal)

\* next_sequence: a journal that cannot be read ends the command, whatever it
\* was about to say.
Count(p) ==
  /\ step[p] = "count"
  /\ IF Readable(journal)
     THEN counted' = [counted EXCEPT ![p] = NextSequence(p)] /\ Goto(p, "append")
     ELSE UNCHANGED counted /\ Goto(p, "idle")
  /\ UNCHANGED <<journal, receipt, accepted, entry, failure, overlapped,
                 attempts, crashes>>

LineOf(p, form) == [sequence |-> counted[p], status |-> entry[p], form |-> form]

AppendEntry(p) ==
  /\ step[p] = "append"
  /\ journal' = Written(journal, LineOf(p, "whole"))
  /\ Goto(p, IF entry[p] = "pending" THEN "submit" ELSE "idle")
  /\ UNCHANGED <<receipt, accepted, entry, counted, failure, overlapped,
                 attempts, crashes>>

\* The request may or may not get there; the log accepts it or does not.
Submit(p) ==
  /\ step[p] = "submit"
  /\ accepted' \in {accepted, TRUE}
  /\ Goto(p, "sent")
  /\ UNCHANGED <<journal, receipt, entry, counted, failure, overlapped,
                 attempts, crashes>>

\* Mutant of NoReceipt: an answer is filed before it is verified.
NoReceiptButFiled(p) ==
  /\ step[p] = "sent"
  /\ receipt' = IF receipt = None THEN "unverified" ELSE receipt
  /\ Fail(p, "failed")
  /\ UNCHANGED <<journal, accepted, counted, overlapped, attempts, crashes>>

\* The answer may be lost, refused or not this run's receipt, also when the log
\* accepted the proof: nothing is filed then.
NoReceipt(p) ==
  /\ step[p] = "sent"
  /\ Fail(p, "failed")
  /\ UNCHANGED <<journal, receipt, accepted, counted, overlapped, attempts, crashes>>

\* verify_publication_receipt: only the log's own word on this proof passes.
GoodReceipt(p) ==
  /\ step[p] = "sent"
  /\ accepted
  /\ Goto(p, "file")
  /\ UNCHANGED <<journal, receipt, accepted, entry, counted, failure, overlapped,
                 attempts, crashes>>

\* The receipt is created exclusively, and then written.
OpenReceipt(p) ==
  /\ step[p] = "file"
  /\ IF receipt = None
     THEN receipt' = "partial" /\ Goto(p, "write")
     ELSE UNCHANGED receipt /\ Goto(p, "compare")
  /\ UNCHANGED <<journal, accepted, entry, counted, failure, overlapped,
                 attempts, crashes>>

WriteReceipt(p) ==
  /\ step[p] = "write"
  /\ receipt' = "receipt"
  /\ Record(p, "published")
  /\ UNCHANGED <<journal, accepted, counted, failure, overlapped, attempts, crashes>>

\* Mutant of CompareReceipt: a receipt that is there is taken for this one.
CompareAnyReceipt(p) ==
  /\ step[p] = "compare"
  /\ Record(p, "published") /\ UNCHANGED failure
  /\ UNCHANGED <<journal, receipt, accepted, counted, overlapped, attempts, crashes>>

\* Mutant of CompareReceipt: a receipt that is there is always a conflict.
CompareNoReceipt(p) ==
  /\ step[p] = "compare"
  /\ Fail(p, "conflict")
  /\ UNCHANGED <<journal, receipt, accepted, counted, overlapped, attempts, crashes>>

\* One that was there already is read: the same bytes are the same answer.
CompareReceipt(p) ==
  /\ step[p] = "compare"
  /\ IF receipt = "receipt"
     THEN Record(p, "published") /\ UNCHANGED failure
     ELSE Fail(p, "conflict")
  /\ UNCHANGED <<journal, receipt, accepted, counted, overlapped, attempts, crashes>>

\* The process dies, or fails with an error publish does not record.  A line it
\* was writing may be there in part.
Crash(p) ==
  /\ step[p] # "idle"
  /\ crashes < MaxCrashes
  /\ crashes' = crashes + 1
  /\ Goto(p, "idle")
  /\ \/ UNCHANGED journal
     \/ step[p] = "append" /\ \E form \in {"unended", "torn"} :
                                journal' = Written(journal, LineOf(p, form))
  /\ UNCHANGED <<receipt, accepted, entry, counted, failure, overlapped, attempts>>

Next ==
  \E p \in Publishers :
    \/ Plan(p) \/ Decline(p) \/ Confirm(p) \/ Count(p) \/ AppendEntry(p)
    \/ Submit(p) \/ NoReceipt(p) \/ GoodReceipt(p)
    \/ OpenReceipt(p) \/ WriteReceipt(p) \/ CompareReceipt(p)
    \/ Crash(p)

Spec == Init /\ [][Next]_vars

-----------------------------------------------------------------------------
(* Properties *)

Lines == [sequence : Nat, status : Statuses, form : Forms]

\* Every variable stays in its domain, and the receipt file is nothing, the
\* log's receipt, or what a command on its way to write that has left.
TypeOK ==
  /\ journal \in Seq(Lines)
  /\ receipt \in {None, "partial", "receipt"}
  /\ accepted \in BOOLEAN
  /\ step \in [Publishers -> PublisherSteps]
  /\ entry \in [Publishers -> Statuses]
  /\ counted \in [Publishers -> Nat]
  /\ failure \in [Publishers -> {None, "failed", "conflict"}]
  /\ overlapped \in BOOLEAN
  /\ attempts \in 0 .. MaxAttempts
  /\ crashes \in 0 .. MaxCrashes

\* Wherever commands died and however many raced, a line that says the run is
\* published is backed by the whole receipt of a proof the log did accept.
PublishedIsFiled ==
  /\ Published(journal) => receipt = "receipt"
  /\ receipt = "receipt" => accepted

\* A retry of an attempt whose answer was lost, or that died before it could say
\* how it went, meets the receipt it wrote itself and converges.  Only a receipt
\* that was cut short while it was written, or another command, stands in its way
\* there.  A retry that finds a torn line in publication.jsonl does not get so far:
\* it ends before it sends anything (Count), as does every later one.
LoneRetryConverges ==
  \A p \in Publishers :
    failure[p] = "conflict" => overlapped \/ receipt = "partial"

\* A published run stays published: nothing is recorded after it, also when
\* the line that says so lost its end.
LonePublishedIsFinal ==
  [][Published(journal) /\ ~overlapped /\ ~overlapped' => journal' = journal]_vars

-----------------------------------------------------------------------------
(* A claim of the repository that the code does not keep *)

\* "sequence numbers that start at zero and increase by exactly one"
\* (publication/journal.py).
JournalIsAHistory == Readable(journal)
=============================================================================
