------------------------- MODULE PublicationProofs -------------------------
(***************************************************************************)
(* Theorems about Publication, for any number of commands, attempts and    *)
(* crashes: its types, and that a run is recorded as published only with   *)
(* the receipt of an accepted proof on disk.                               *)
(***************************************************************************)
EXTENDS Publication, TLAPS

\* What makes PublishedIsFiled inductive: a command that is about to file or
\* compare a receipt holds the answer of a log that accepted the proof; the one
\* that created the file is the one to write it; and a command about to record
\* a publication has seen the whole receipt on disk.
FilingIsBacked ==
  \A p \in Publishers :
    /\ step[p] \in {"file", "write", "compare"} => accepted
    /\ step[p] \in {"count", "append"} /\ entry[p] = "published" => receipt = "receipt"

Inv == TypeOK /\ FilingIsBacked /\ PublishedIsFiled

\* Writing a line keeps a sequence of lines one, and makes a run published only
\* if the line does.
LEMMA WrittenLines ==
  ASSUME NEW lines \in Seq(Lines), NEW line \in Lines
  PROVE  /\ Written(lines, line) \in Seq(Lines)
         /\ Published(Written(lines, line)) =>
              Published(lines) \/ line.status = "published"
  <1>1. CASE lines # <<>> /\ lines[Len(lines)].form \in {"unended", "torn"}
    <2> DEFINE n == Len(lines)
    <2>1. n \in 1 .. Len(lines) /\ lines[n] \in Lines
      BY <1>1
    <2>2. [lines[n] EXCEPT !.form = "joined"] \in Lines
      BY <2>1 DEF Lines, Forms
    <2>3. Written(lines, line) = [lines EXCEPT ![n] = [lines[n] EXCEPT !.form = "joined"]]
      BY <1>1 DEF Written
    <2>4. Written(lines, line) \in Seq(Lines)
      BY <2>1, <2>2, <2>3
    <2>5. \A m \in 1 .. Len(lines) : Written(lines, line)[m].status = lines[m].status
      BY <2>1, <2>3 DEF Lines
    <2>6. Len(Written(lines, line)) = Len(lines)
      BY <2>1, <2>2, <2>3
    <2> QED BY <2>4, <2>5, <2>6 DEF Published
  <1>2. CASE ~(lines # <<>> /\ lines[Len(lines)].form \in {"unended", "torn"})
    <2>1. Written(lines, line) = Append(lines, line)
      BY <1>2 DEF Written
    <2>2. Len(Append(lines, line)) = Len(lines) + 1
      OBVIOUS
    <2>3. \A m \in 1 .. Len(lines) + 1 :
            Append(lines, line)[m] = IF m = Len(lines) + 1 THEN line ELSE lines[m]
      OBVIOUS
    <2>4. Published(Append(lines, line)) => Published(lines) \/ line.status = "published"
      <3> SUFFICES ASSUME NEW m \in 1 .. Len(lines) + 1,
                          Append(lines, line)[m].status = "published",
                          line.status # "published"
                   PROVE  Published(lines)
        BY <2>2 DEF Published
      <3>1. m \in 1 .. Len(lines) /\ lines[m].status = "published"
        BY <2>3
      <3> QED BY <3>1 DEF Published
    <2> QED BY <2>1, <2>4
  <1> QED BY <1>1, <1>2

\* The line a command writes is a line.
LEMMA LineOfIsALine ==
  ASSUME TypeOK, NEW p \in Publishers, NEW form \in Forms
  PROVE  LineOf(p, form) \in Lines /\ LineOf(p, form).status = entry[p]
  BY DEF TypeOK, LineOf, Lines

LEMMA InitInv == Init => Inv
  <1> SUFFICES ASSUME Init PROVE Inv
    OBVIOUS
  <1>1. TypeOK
    <2>1. journal \in Seq(Lines)
      BY DEF Init
    <2>2. attempts \in 0 .. MaxAttempts /\ crashes \in 0 .. MaxCrashes
      BY Bounds DEF Init
    <2>3. /\ step \in [Publishers -> PublisherSteps]
          /\ entry \in [Publishers -> Statuses]
          /\ counted \in [Publishers -> Nat]
          /\ failure \in [Publishers -> {None, "failed", "conflict"}]
      BY DEF Init, PublisherSteps, Statuses
    <2> QED BY <2>1, <2>2, <2>3 DEF Init, TypeOK
  <1>2. FilingIsBacked
    BY DEF Init, FilingIsBacked
  <1>3. ~Published(journal)
    BY DEF Init, Published
  <1>4. receipt # "receipt"
    BY NoneIsNoName DEF Init
  <1> QED BY <1>1, <1>2, <1>3, <1>4 DEF Inv, PublishedIsFiled

\* Every step of a command keeps the invariant.
LEMMA StepInv == Inv /\ [Next]_vars => Inv'
  <1> SUFFICES ASSUME Inv, [Next]_vars PROVE Inv'
    OBVIOUS
  <1> USE DEF Inv
  <1>1. CASE UNCHANGED vars
    BY <1>1 DEF vars, TypeOK, FilingIsBacked, PublishedIsFiled, Published
  <1>2. ASSUME NEW p \in Publishers, Plan(p) PROVE Inv'
    <2>1. TypeOK'
      BY <1>2, Bounds DEF Plan, TypeOK, Goto, PublisherSteps
    <2> QED BY <1>2, <2>1 DEF Plan, TypeOK, Goto, FilingIsBacked, PublishedIsFiled, Published
  <1>3. ASSUME NEW p \in Publishers, Decline(p) PROVE Inv'
    <2>1. TypeOK'
      BY <1>3 DEF Decline, TypeOK, Goto, PublisherSteps
    <2> QED BY <1>3, <2>1 DEF Decline, TypeOK, Goto, FilingIsBacked, PublishedIsFiled, Published
  <1>4. ASSUME NEW p \in Publishers, Confirm(p) PROVE Inv'
    <2>1. TypeOK'
      BY <1>4 DEF Confirm, Record, TypeOK, Goto, PublisherSteps, Statuses
    <2> QED BY <1>4, <2>1 DEF Confirm, Record, TypeOK, Goto, FilingIsBacked,
               PublishedIsFiled, Published
  <1>5. ASSUME NEW p \in Publishers, Count(p) PROVE Inv'
    <2>1. TypeOK'
      <3>1. NextSequence(p) \in Nat
        BY DEF NextSequence, TypeOK
      <3> QED BY <1>5, <3>1 DEF Count, TypeOK, Goto, PublisherSteps
    <2> QED BY <1>5, <2>1 DEF Count, TypeOK, Goto, FilingIsBacked, PublishedIsFiled, Published
  <1>6. ASSUME NEW p \in Publishers, AppendEntry(p) PROVE Inv'
    <2>1. LineOf(p, "whole") \in Lines /\ LineOf(p, "whole").status = entry[p]
      BY LineOfIsALine DEF Forms
    <2>2. journal \in Seq(Lines)
      BY DEF TypeOK
    <2>3. /\ journal' \in Seq(Lines)
          /\ Published(journal') => Published(journal) \/ entry[p] = "published"
      BY <1>6, <2>1, <2>2, WrittenLines DEF AppendEntry
    <2>4. TypeOK'
      BY <1>6, <2>3 DEF AppendEntry, TypeOK, Goto, PublisherSteps
    <2>5. PublishedIsFiled'
      BY <1>6, <2>3 DEF AppendEntry, FilingIsBacked, PublishedIsFiled
    <2>6. FilingIsBacked'
      BY <1>6 DEF AppendEntry, TypeOK, Goto, FilingIsBacked
    <2> QED BY <2>4, <2>5, <2>6
  <1>7. ASSUME NEW p \in Publishers, Submit(p) PROVE Inv'
    <2>1. TypeOK'
      BY <1>7 DEF Submit, TypeOK, Goto, PublisherSteps
    <2> QED BY <1>7, <2>1 DEF Submit, TypeOK, Goto, FilingIsBacked, PublishedIsFiled, Published
  <1>8. ASSUME NEW p \in Publishers, NoReceipt(p) PROVE Inv'
    <2>1. TypeOK'
      BY <1>8 DEF NoReceipt, Fail, Record, TypeOK, Goto, PublisherSteps, Statuses
    <2> QED BY <1>8, <2>1 DEF NoReceipt, Fail, Record, TypeOK, Goto, FilingIsBacked,
               PublishedIsFiled, Published
  <1>9. ASSUME NEW p \in Publishers, GoodReceipt(p) PROVE Inv'
    <2>1. TypeOK'
      BY <1>9 DEF GoodReceipt, TypeOK, Goto, PublisherSteps
    <2> QED BY <1>9, <2>1 DEF GoodReceipt, TypeOK, Goto, FilingIsBacked,
               PublishedIsFiled, Published
  <1>10. ASSUME NEW p \in Publishers, OpenReceipt(p) PROVE Inv'
    <2>1. TypeOK'
      BY <1>10 DEF OpenReceipt, TypeOK, Goto, PublisherSteps
    <2>2. receipt = "receipt" => receipt' = "receipt"
      BY <1>10, NoneIsNoName DEF OpenReceipt
    <2>3. receipt' = "receipt" => receipt = "receipt"
      BY <1>10 DEF OpenReceipt
    <2> QED BY <1>10, <2>1, <2>2, <2>3 DEF OpenReceipt, TypeOK, Goto, FilingIsBacked,
               PublishedIsFiled, Published
  <1>11. ASSUME NEW p \in Publishers, WriteReceipt(p) PROVE Inv'
    <2>1. TypeOK'
      BY <1>11 DEF WriteReceipt, Record, TypeOK, Goto, PublisherSteps, Statuses
    <2> QED BY <1>11, <2>1 DEF WriteReceipt, Record, TypeOK, Goto, FilingIsBacked,
               PublishedIsFiled, Published
  <1>12. ASSUME NEW p \in Publishers, CompareReceipt(p) PROVE Inv'
    <2>1. TypeOK'
      BY <1>12 DEF CompareReceipt, Fail, Record, TypeOK, Goto, PublisherSteps, Statuses
    <2> QED BY <1>12, <2>1 DEF CompareReceipt, Fail, Record, TypeOK, Goto, FilingIsBacked,
               PublishedIsFiled, Published
  <1>13. ASSUME NEW p \in Publishers, Crash(p) PROVE Inv'
    <2>1. /\ journal' \in Seq(Lines)
          /\ Published(journal') =>
               Published(journal) \/ (step[p] = "append" /\ entry[p] = "published")
      <3>1. CASE UNCHANGED journal
        BY <3>1 DEF TypeOK, Published
      <3>2. CASE step[p] = "append" /\ \E form \in {"unended", "torn"} :
                                         journal' = Written(journal, LineOf(p, form))
        <4>1. PICK form \in {"unended", "torn"} : journal' = Written(journal, LineOf(p, form))
          BY <3>2
        <4>2. LineOf(p, form) \in Lines /\ LineOf(p, form).status = entry[p]
          BY LineOfIsALine DEF Forms
        <4>3. journal \in Seq(Lines)
          BY DEF TypeOK
        <4> QED BY <3>2, <4>1, <4>2, <4>3, WrittenLines
      <3> QED BY <1>13, <3>1, <3>2 DEF Crash
    <2>2. TypeOK'
      BY <1>13, <2>1, Bounds DEF Crash, TypeOK, Goto, PublisherSteps
    <2>3. PublishedIsFiled'
      BY <1>13, <2>1 DEF Crash, FilingIsBacked, PublishedIsFiled
    <2>4. FilingIsBacked'
      BY <1>13 DEF Crash, TypeOK, Goto, FilingIsBacked
    <2> QED BY <2>2, <2>3, <2>4
  <1> QED BY <1>1, <1>2, <1>3, <1>4, <1>5, <1>6, <1>7, <1>8, <1>9, <1>10, <1>11,
             <1>12, <1>13 DEF Next

\* Types: in particular the receipt file never holds anything but the run log's
\* own receipt, or a part of it.
THEOREM PublicationTypes == Spec => []TypeOK
  <1>1. Inv => TypeOK
    BY DEF Inv
  <1> QED BY <1>1, InitInv, StepInv, PTL DEF Spec

\* A run recorded as published has the whole receipt of an accepted proof on
\* disk, however many commands raced and wherever they died.
THEOREM PublishedRunsAreFiled == Spec => []PublishedIsFiled
  <1>1. Inv => PublishedIsFiled
    BY DEF Inv
  <1> QED BY <1>1, InitInv, StepInv, PTL DEF Spec

-----------------------------------------------------------------------------
(* Commands run one after the other *)

\* Until two commands overlap, at most one is at work.
OneAtATime ==
  ~overlapped =>
    \A p, q \in Publishers : step[p] # "idle" /\ step[q] # "idle" => p = q

\* A command compares or writes a receipt file that is there; the one that
\* created it did so in front of no conflict, and nobody has met one since.
ConflictsComeAfter ==
  \A p \in Publishers :
    /\ step[p] \in {"write", "compare"} => receipt # None
    /\ step[p] = "write" /\ ~overlapped =>
         \A q \in Publishers : failure[q] # "conflict"

\* Until two commands overlap, nobody is at work on a published run.
PublishedIsLeftAlone ==
  Published(journal) /\ ~overlapped => \A p \in Publishers : step[p] = "idle"

LoneInv == OneAtATime /\ ConflictsComeAfter /\ LoneRetryConverges /\ PublishedIsLeftAlone

LEMMA InitLoneInv == Init => LoneInv
  BY NoneIsNoName DEF Init, LoneInv, OneAtATime, ConflictsComeAfter, LoneRetryConverges,
                      PublishedIsLeftAlone, Published

\* What a command at work does keeps the others' steps: the invariant holds after
\* it if the command's own next step fits the receipt, the failures and the lines.
LEMMA LoneStep ==
  ASSUME Inv, LoneInv, NEW p \in Publishers, step[p] # "idle", NEW next \in PublisherSteps,
         Goto(p, next), UNCHANGED overlapped,
         receipt # None => receipt' # None,
         next \in {"write", "compare"} => receipt' # None,
         failure' \in [Publishers -> {None, "failed", "conflict"}],
         \A q \in Publishers : q # p => failure'[q] = failure[q],
         next = "write" /\ ~overlapped => \A q \in Publishers : failure'[q] # "conflict",
         LoneRetryConverges',
         Published(journal') /\ ~overlapped => next = "idle"
  PROVE  LoneInv'
  <1>1. step' = [step EXCEPT ![p] = next] /\ step \in [Publishers -> PublisherSteps]
    BY DEF Goto, Inv, TypeOK
  <1>2. step'[p] = next /\ \A q \in Publishers : q # p => step'[q] = step[q]
    BY <1>1
  <1>3. ~overlapped => \A q \in Publishers : q # p => step'[q] = "idle"
    BY <1>2 DEF LoneInv, OneAtATime
  <1>4. OneAtATime'
    BY <1>3 DEF OneAtATime
  <1>5. ConflictsComeAfter'
    <2> SUFFICES ASSUME NEW q \in Publishers
                 PROVE  /\ step'[q] \in {"write", "compare"} => receipt' # None
                        /\ step'[q] = "write" /\ ~overlapped =>
                             \A r \in Publishers : failure'[r] # "conflict"
      BY DEF ConflictsComeAfter
    <2>1. CASE q = p
      BY <1>2, <2>1
    <2>2. CASE q # p
      BY <1>2, <1>3, <2>2 DEF LoneInv, ConflictsComeAfter
    <2> QED BY <2>1, <2>2
  <1>6. PublishedIsLeftAlone'
    BY <1>2, <1>3 DEF PublishedIsLeftAlone
  <1> QED BY <1>4, <1>5, <1>6 DEF LoneInv

\* A command that leaves receipt, failures and lines alone.
LEMMA LoneMove ==
  ASSUME Inv, LoneInv, NEW p \in Publishers, step[p] # "idle", NEW next \in PublisherSteps,
         Goto(p, next), UNCHANGED <<overlapped, receipt, failure>>,
         next # "write", next = "compare" => receipt # None,
         Published(journal') /\ ~overlapped => next = "idle"
  PROVE  LoneInv'
  <1>1. LoneRetryConverges'
    BY DEF LoneInv, LoneRetryConverges
  <1>2. failure \in [Publishers -> {None, "failed", "conflict"}]
    BY DEF Inv, TypeOK
  <1> QED BY <1>1, <1>2, LoneStep

\* At work, and alone: the run is not published yet.
LEMMA WorkIsBeforePublication ==
  ASSUME LoneInv, NEW p \in Publishers, step[p] # "idle"
  PROVE  ~(Published(journal) /\ ~overlapped)
  BY DEF LoneInv, PublishedIsLeftAlone

LEMMA StepLoneInv == Inv /\ LoneInv /\ [Next]_vars => LoneInv'
  <1> SUFFICES ASSUME Inv, LoneInv, [Next]_vars PROVE LoneInv'
    OBVIOUS
  <1>1. CASE UNCHANGED vars
    BY <1>1 DEF vars, LoneInv, OneAtATime, ConflictsComeAfter, LoneRetryConverges,
                PublishedIsLeftAlone, Published
  <1>2. ASSUME NEW p \in Publishers, Plan(p) PROVE LoneInv'
    <2>1. /\ step' = [step EXCEPT ![p] = "asked"] /\ step \in [Publishers -> PublisherSteps]
          /\ failure' = [failure EXCEPT ![p] = None]
          /\ failure \in [Publishers -> {None, "failed", "conflict"}]
          /\ UNCHANGED <<journal, receipt>>
          /\ ~Published(journal)
          /\ overlapped' = (overlapped \/ \E q \in Publishers : step[q] # "idle")
      BY <1>2 DEF Plan, Goto, Inv, TypeOK
    <2>2. /\ step'[p] = "asked" /\ \A q \in Publishers : q # p => step'[q] = step[q]
          /\ failure'[p] = None /\ \A q \in Publishers : q # p => failure'[q] = failure[q]
      BY <2>1
    <2>3. ~overlapped' => ~overlapped /\ \A q \in Publishers : step[q] = "idle"
      BY <2>1
    <2>4. OneAtATime'
      BY <2>2, <2>3 DEF OneAtATime
    <2>5. ConflictsComeAfter'
      BY <2>1, <2>2, <2>3, NoneIsNoName DEF ConflictsComeAfter, LoneInv
    <2>6. LoneRetryConverges'
      BY <2>1, <2>2, <2>3, NoneIsNoName DEF LoneRetryConverges, LoneInv
    <2>7. PublishedIsLeftAlone'
      BY <2>1 DEF PublishedIsLeftAlone, Published
    <2> QED BY <2>4, <2>5, <2>6, <2>7 DEF LoneInv
  <1>3. ASSUME NEW p \in Publishers, Decline(p) PROVE LoneInv'
    BY <1>3, LoneMove DEF Decline, PublisherSteps
  <1>4. ASSUME NEW p \in Publishers, Confirm(p) PROVE LoneInv'
    <2>1. step[p] # "idle" /\ Goto(p, "count") /\ UNCHANGED <<overlapped, receipt, failure, journal>>
      BY <1>4 DEF Confirm, Record
    <2>2. ~(Published(journal') /\ ~overlapped)
      BY <2>1, WorkIsBeforePublication DEF Published
    <2> QED BY <2>1, <2>2, LoneMove DEF PublisherSteps
  <1>5. ASSUME NEW p \in Publishers, Count(p) PROVE LoneInv'
    <2>1. /\ step[p] # "idle" /\ UNCHANGED <<overlapped, receipt, failure, journal>>
          /\ Goto(p, "append") \/ Goto(p, "idle")
      BY <1>5 DEF Count
    <2>2. ~(Published(journal') /\ ~overlapped)
      BY <2>1, WorkIsBeforePublication DEF Published
    <2> QED BY <2>1, <2>2, LoneMove DEF PublisherSteps
  <1>6. ASSUME NEW p \in Publishers, AppendEntry(p) PROVE LoneInv'
    <2>1. /\ step[p] # "idle" /\ UNCHANGED <<overlapped, receipt, failure>>
          /\ Goto(p, IF entry[p] = "pending" THEN "submit" ELSE "idle")
      BY <1>6 DEF AppendEntry
    <2>2. LineOf(p, "whole") \in Lines /\ LineOf(p, "whole").status = entry[p]
      BY LineOfIsALine DEF Forms, Inv
    <2>3. Published(journal') => Published(journal) \/ entry[p] = "published"
      BY <1>6, <2>2, WrittenLines DEF AppendEntry, Inv, TypeOK
    <2>4. Published(journal') /\ ~overlapped => entry[p] # "pending"
      BY <2>1, <2>3, WorkIsBeforePublication
    <2> QED BY <2>1, <2>4, LoneMove DEF PublisherSteps
  <1>7. ASSUME NEW p \in Publishers, Submit(p) PROVE LoneInv'
    <2>1. step[p] # "idle" /\ Goto(p, "sent") /\ UNCHANGED <<overlapped, receipt, failure, journal>>
      BY <1>7 DEF Submit
    <2>2. ~(Published(journal') /\ ~overlapped)
      BY <2>1, WorkIsBeforePublication DEF Published
    <2> QED BY <2>1, <2>2, LoneMove DEF PublisherSteps
  <1>8. ASSUME NEW p \in Publishers, NoReceipt(p) PROVE LoneInv'
    <2>1. /\ step[p] # "idle" /\ Goto(p, "count") /\ UNCHANGED <<overlapped, receipt, journal>>
          /\ failure' = [failure EXCEPT ![p] = "failed"]
      BY <1>8 DEF NoReceipt, Fail, Record
    <2>2. ~(Published(journal') /\ ~overlapped)
      BY <2>1, WorkIsBeforePublication DEF Published
    <2>3. failure \in [Publishers -> {None, "failed", "conflict"}]
      BY DEF Inv, TypeOK
    <2>4. LoneRetryConverges'
      BY <2>1, <2>3 DEF LoneInv, LoneRetryConverges
    <2> QED BY <2>1, <2>2, <2>3, <2>4, LoneStep DEF PublisherSteps
  <1>9. ASSUME NEW p \in Publishers, GoodReceipt(p) PROVE LoneInv'
    <2>1. step[p] # "idle" /\ Goto(p, "file") /\ UNCHANGED <<overlapped, receipt, failure, journal>>
      BY <1>9 DEF GoodReceipt
    <2>2. ~(Published(journal') /\ ~overlapped)
      BY <2>1, WorkIsBeforePublication DEF Published
    <2> QED BY <2>1, <2>2, LoneMove DEF PublisherSteps
  <1>10. ASSUME NEW p \in Publishers, OpenReceipt(p) PROVE LoneInv'
    <2>1. step[p] # "idle" /\ UNCHANGED <<overlapped, failure, journal>>
      BY <1>10 DEF OpenReceipt
    <2>2. ~(Published(journal') /\ ~overlapped)
      BY <2>1, WorkIsBeforePublication DEF Published
    <2>3. CASE receipt = None
      <3>1. receipt' = "partial" /\ Goto(p, "write")
        BY <1>10, <2>3 DEF OpenReceipt
      <3>2. ~overlapped => \A q \in Publishers : failure[q] # "conflict"
        BY <2>3, NoneIsNoName DEF LoneInv, LoneRetryConverges
      <3>3. LoneRetryConverges'
        BY <3>1 DEF LoneRetryConverges
      <3>4. failure \in [Publishers -> {None, "failed", "conflict"}]
        BY DEF Inv, TypeOK
      <3> QED BY <2>1, <2>2, <3>1, <3>2, <3>3, <3>4, LoneStep, NoneIsNoName DEF PublisherSteps
    <2>4. CASE receipt # None
      <3>1. UNCHANGED receipt /\ Goto(p, "compare")
        BY <1>10, <2>4 DEF OpenReceipt
      <3> QED BY <2>1, <2>2, <2>4, <3>1, LoneMove DEF PublisherSteps
    <2> QED BY <2>3, <2>4
  <1>11. ASSUME NEW p \in Publishers, WriteReceipt(p) PROVE LoneInv'
    <2>1. /\ step[p] = "write" /\ receipt' = "receipt" /\ Goto(p, "count")
          /\ UNCHANGED <<overlapped, failure, journal>>
      BY <1>11 DEF WriteReceipt, Record
    <2>2. ~(Published(journal') /\ ~overlapped)
      BY <2>1, WorkIsBeforePublication DEF Published
    <2>3. failure \in [Publishers -> {None, "failed", "conflict"}]
      BY DEF Inv, TypeOK
    <2>4. LoneRetryConverges'
      BY <2>1 DEF LoneInv, ConflictsComeAfter, LoneRetryConverges
    <2> QED BY <2>1, <2>2, <2>3, <2>4, LoneStep, NoneIsNoName DEF PublisherSteps
  <1>12. ASSUME NEW p \in Publishers, CompareReceipt(p) PROVE LoneInv'
    <2>1. /\ step[p] = "compare" /\ UNCHANGED <<overlapped, receipt, journal>>
          /\ Goto(p, "count")
      BY <1>12 DEF CompareReceipt, Fail, Record
    <2>2. ~(Published(journal') /\ ~overlapped)
      BY <2>1, WorkIsBeforePublication DEF Published
    <2>3. CASE receipt = "receipt"
      BY <1>12, <2>1, <2>2, <2>3, LoneMove DEF CompareReceipt, PublisherSteps
    <2>4. CASE receipt # "receipt"
      <3>1. failure' = [failure EXCEPT ![p] = "conflict"]
        BY <1>12, <2>4 DEF CompareReceipt, Fail
      <3>2. failure \in [Publishers -> {None, "failed", "conflict"}]
        BY DEF Inv, TypeOK
      <3>3. receipt = "partial"
        BY <2>1, <2>4 DEF LoneInv, ConflictsComeAfter, Inv, TypeOK
      <3>4. LoneRetryConverges'
        BY <2>1, <3>3 DEF LoneRetryConverges
      <3> QED BY <2>1, <2>2, <3>1, <3>2, <3>4, LoneStep DEF PublisherSteps
    <2> QED BY <2>3, <2>4
  <1>13. ASSUME NEW p \in Publishers, Crash(p) PROVE LoneInv'
    BY <1>13, LoneMove DEF Crash, PublisherSteps
  <1> QED BY <1>1, <1>2, <1>3, <1>4, <1>5, <1>6, <1>7, <1>8, <1>9, <1>10, <1>11,
             <1>12, <1>13 DEF Next

\* A retry converges: of commands run one after the other, none finds that the
\* receipt on disk is not the run log's, unless writing it was cut short.
THEOREM LoneRetriesConverge == Spec => []LoneRetryConverges
  <1>1. LoneInv => LoneRetryConverges
    BY DEF LoneInv
  <1> QED BY <1>1, InitInv, StepInv, InitLoneInv, StepLoneInv, PTL DEF Spec

\* Nothing is recorded after a publication by commands run one after the other.
THEOREM LonePublicationsStay == Spec => LonePublishedIsFinal
  <1> DEFINE Stays == Published(journal) /\ ~overlapped /\ ~overlapped' => journal' = journal
  <1>1. LoneInv /\ [Next]_vars => [Stays]_vars
    <2> SUFFICES ASSUME LoneInv, [Next]_vars, Published(journal), ~overlapped
                 PROVE  journal' = journal
      OBVIOUS
    <2>1. \A p \in Publishers : step[p] = "idle"
      BY DEF LoneInv, PublishedIsLeftAlone
    <2>2. CASE UNCHANGED vars
      BY <2>2 DEF vars
    <2>3. ASSUME NEW p \in Publishers, AppendEntry(p) \/ Crash(p) PROVE FALSE
      BY <2>1, <2>3 DEF AppendEntry, Crash
    <2>4. ASSUME Next PROVE journal' = journal
      BY <2>3, <2>4 DEF Next, Plan, Decline, Confirm, Count, Submit, NoReceipt, GoodReceipt,
                  OpenReceipt, WriteReceipt, CompareReceipt
    <2> QED BY <2>2, <2>4
  <1> QED BY <1>1, InitInv, StepInv, InitLoneInv, StepLoneInv, PTL DEF Spec, LonePublishedIsFinal
=============================================================================
