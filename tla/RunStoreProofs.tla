--------------------------- MODULE RunStoreProofs ---------------------------
(***************************************************************************)
(* Proofs about RunStore, for any set of processes, pids, digests and      *)
(* variants and any bounds: the journal stays legal whatever calls are     *)
(* interleaved and interrupted, the files its events announce exist, a run *)
(* that was asked to stop never rejoins its path, the store implements the *)
(* lifecycle, and neither a reader nor state.json is ever ahead of the     *)
(* journal or taken back.                                                  *)
(***************************************************************************)
EXTENDS RunStore, SequenceTheorems, WellFoundedInduction, TLAPS

-----------------------------------------------------------------------------
(* Lemmas about the machine *)

\* The events the operations build are well-formed.
LEMMA CreatedEventType == CreatedEvent \in Events
  BY DEF CreatedEvent, Events, EventKinds, Phases, WorkingPhases, TerminalPhases

LEMMA DetailsAreDetails ==
  ASSUME NEW kind \in EventKinds
  PROVE  DetailsOf(kind) \subseteq Pids \union Digests \union Variants \union {None}
  BY DEF DetailsOf

LEMMA EventAfterType ==
  ASSUME NEW state, state.sequence \in Nat, state.phase \in Phases,
         NEW phase \in Phases \union {None}, NEW kind \in EventKinds,
         NEW detail \in DetailsOf(kind)
  PROVE  EventAfter(state, phase, kind, detail) \in Events
  <1>1. detail \in Pids \union Digests \union Variants \union {None}
    BY DetailsAreDetails
  <1> QED BY <1>1 DEF EventAfter, Events

\* What an event that may be appended tells of the one before it.
LEMMA AppliesFacts ==
  ASSUME NEW state, NEW event, Applies(state, event)
  PROVE  /\ event.sequence = state.sequence + 1
         /\ event.previous_phase = state.phase
         /\ KindAgrees(event)
         /\ PhaseAllows(state.phase, event)
  BY DEF Applies

\* An event moves a run along an allowed transition or leaves it where it is.
LEMMA AppliesMoves ==
  ASSUME NEW state, NEW event, Applies(state, event), state.phase \in Phases
  PROVE  event.phase = state.phase \/ event.phase \in AllowedTransitions[state.phase]
  BY AppliesFacts DEF PhaseAllows

\* A run that is stopping or has stopped records nothing but reports on what was
\* in flight and the event that ends it.
LEMMA StoppingIsFinal ==
  ASSUME NEW state, NEW event, Applies(state, event), state.phase \in StopPhases
  PROVE  /\ event.phase \in StopPhases
         /\ event.kind \in {"progress.updated", "run.failed", "run.cancelled"}
  <1>1. /\ event.previous_phase = state.phase
        /\ KindAgrees(event)
        /\ PhaseAllows(state.phase, event)
    BY AppliesFacts
  <1>2. /\ AllowedTransitions["cancel_requested"] = {"cancelled", "failed"}
        /\ AllowedTransitions["failed"] = {}
        /\ AllowedTransitions["cancelled"] = {}
    BY DEF AllowedTransitions, Phases, WorkingPhases, TerminalPhases
  <1>3. state.phase \in {"cancel_requested", "failed", "cancelled"}
    BY DEF StopPhases
  <1>4. CASE event.phase = state.phase
    <2>1. state.phase = "cancel_requested" /\ event.kind \in SamePhaseKinds
      BY <1>1, <1>2, <1>3, <1>4 DEF PhaseAllows, IsTerminal
    <2>2. event.kind \notin DOMAIN OnlyInPhase
      BY <1>1, <1>4, <2>1 DEF KindAgrees, OnlyInPhase, VariantKinds
    <2> QED BY <1>4, <2>1, <2>2 DEF SamePhaseKinds, OnlyInPhase, StopPhases
  <1>5. CASE event.phase # state.phase
    <2>1. state.phase = "cancel_requested" /\ event.phase \in {"cancelled", "failed"}
      BY <1>1, <1>2, <1>3, <1>5 DEF PhaseAllows
    <2>2. event.kind = ExclusiveKind[event.phase]
      BY <1>1, <1>5, <2>1 DEF KindAgrees, ExclusiveKind, TerminalPhases
    <2> QED BY <2>1, <2>2 DEF ExclusiveKind, TerminalPhases, StopPhases
  <1> QED BY <1>4, <1>5

\* The event that asks a run to stop takes it to cancel_requested.
LEMMA CancelEntersCancelRequested ==
  ASSUME NEW event, KindAgrees(event), event.kind = "cancel.requested"
  PROVE  event.phase = "cancel_requested"
  BY DEF KindAgrees, ExclusiveKind, TerminalPhases

\* The events of a legal journal are numbered from zero without a gap.
LEMMA LegalSequences ==
  ASSUME journal \in Seq(Events), journal # <<>>, JournalIsLegal
  PROVE  /\ Len(journal) \in Nat \ {0}
         /\ journal[Len(journal)] \in Events
         /\ journal[Len(journal)].sequence = Len(journal) - 1
         /\ HeadState(journal).sequence = Len(journal) - 1
         /\ HeadState(journal).phase = journal[Len(journal)].phase
         /\ HeadState(journal).phase \in Phases
  <1>1. Len(journal) \in Nat \ {0} /\ journal[Len(journal)] \in Events
    OBVIOUS
  <1>2. journal[Len(journal)].sequence = Len(journal) - 1
    <2>1. CASE Len(journal) = 1
      BY <1>1, <2>1 DEF JournalIsLegal, CreatedEvent
    <2>2. CASE Len(journal) # 1
      <3>1. Len(journal) \in 2 .. Len(journal)
        <4>1. \A k \in Nat \ {0} : k # 1 => k \in 2 .. k
          OBVIOUS
        <4> QED BY <1>1, <2>2, <4>1
      <3>2. Applies([sequence |-> Len(journal) - 2, phase |-> journal[Len(journal) - 1].phase],
                    journal[Len(journal)])
        BY <3>1 DEF JournalIsLegal
      <3>3. journal[Len(journal)].sequence = (Len(journal) - 2) + 1
        BY <3>2, AppliesFacts
      <3> QED BY <1>1, <3>3
    <2> QED BY <2>1, <2>2
  <1>3. journal[Len(journal)].phase \in Phases
    BY <1>1 DEF Events
  <1> QED BY <1>1, <1>2, <1>3 DEF HeadState, HeadPhase

-----------------------------------------------------------------------------
(* The inductive invariant *)

LEMMA InitInv == Init => Inv
  <1> SUFFICES ASSUME Init PROVE Inv
    OBVIOUS
  <1> USE DEF Init
  <1>1. ShapeOK
    <2>1. journal \in Seq(Events)
      OBVIOUS
    <2>2. crashes \in 0 .. MaxCrashes
      BY StoreBounds
    <2> QED BY <2>1, <2>2 DEF ShapeOK, Steps
  <1>2. LockIsHeld
    BY StoreBounds DEF LockIsHeld, Locked
  <1>3. PreparedFollows /\ PreparedIsBacked
    BY DEF PreparedFollows, PreparedIsBacked
  <1>4. JournalHasRequest /\ JournalIsLegal
    BY DEF JournalHasRequest, JournalIsLegal
  <1>5. AnnouncedFilesExist /\ CancelSticks /\ CancelNeverRejoins
    BY DEF AnnouncedFilesExist, CancelSticks, CancelNeverRejoins
  <1> QED BY <1>1, <1>2, <1>3, <1>4, <1>5 DEF Inv

\* The conjuncts that speak of the journal and the two announced files alone.
\* Only appending an event and writing one of those files can disturb them.
JournalInv ==
  /\ JournalHasRequest
  /\ JournalIsLegal
  /\ AnnouncedFilesExist
  /\ CancelSticks
  /\ CancelNeverRejoins

LEMMA JournalInvUntouched ==
  ASSUME JournalInv, UNCHANGED <<journal, pid_file, report>>, requested => requested'
  PROVE  JournalInv'
  BY DEF JournalInv, JournalHasRequest, JournalIsLegal, AnnouncedFilesExist,
         CancelSticks, CancelNeverRejoins

\* Preparing an event: the lock is taken, the event follows the journal.
LEMMA PrepareInv ==
  ASSUME Inv, NEW p \in Procs, pc[p] = "idle", UNCHANGED <<files, view, crashes>>,
         NEW phase \in Phases \union {None}, NEW kind \in EventKinds,
         NEW detail \in DetailsOf(kind),
         NEW step, Prepare(p, phase, kind, detail, step),
         \/ step = "append" /\ kind \notin {"worker.started", "result.written"}
         \/ step = "write_pid" /\ kind = "worker.started"
         \/ step = "write_result" /\ kind = "result.written"
  PROVE  Inv'
  <1> DEFINE event == EventAfter(HeadState(journal), phase, kind, detail)
  <1>1. /\ lock = None /\ requested /\ journal # <<>> /\ Applies(HeadState(journal), event)
        /\ lock' = p
        /\ pending' = [pending EXCEPT ![p] = event]
        /\ pc' = [pc EXCEPT ![p] = step]
    BY DEF Prepare, LockFree, Goto
  <1>2. ShapeOK /\ LockIsHeld /\ PreparedFollows /\ PreparedIsBacked /\ JournalInv
    BY DEF Inv, JournalInv
  <1>3. event \in Events
    <2>1. /\ HeadState(journal).sequence \in Nat
          /\ HeadState(journal).phase \in Phases
      BY <1>1, <1>2, LegalSequences DEF ShapeOK, JournalInv
    <2> QED BY <2>1, EventAfterType
  <1>4. \A q \in Procs : pc[q] \notin Locked
    BY <1>1, <1>2, StoreBounds DEF LockIsHeld
  <1>5. step \in {"append", "write_pid", "write_result"}
    OBVIOUS
  <1>6. ShapeOK'
    BY <1>1, <1>2, <1>3, <1>5 DEF ShapeOK, Steps, files
  <1>7. LockIsHeld'
    BY <1>1, <1>2, <1>4, <1>5 DEF LockIsHeld, Locked, ShapeOK
  <1>8. PreparedFollows'
    BY <1>1, <1>2, <1>3, <1>4 DEF PreparedFollows, Locked, ShapeOK, files
  <1>9. PreparedIsBacked'
    <2>1. event.kind = kind
      BY DEF EventAfter
    <2> QED BY <1>1, <1>2, <1>4, <2>1 DEF PreparedIsBacked, Locked, ShapeOK, files
  <1>10. JournalInv'
    BY <1>2, JournalInvUntouched DEF files
  <1> QED BY <1>6, <1>7, <1>8, <1>9, <1>10 DEF Inv, JournalInv

\* The other operations that write a file of the run, or none.
LEMMA CreateInv ==
  ASSUME Inv, NEW p \in Procs, Create(p)
  PROVE  Inv'
  <1> USE DEF Create, Goto, LockFree
  <1>1. ShapeOK /\ LockIsHeld /\ PreparedFollows /\ PreparedIsBacked /\ JournalInv
    BY DEF Inv, JournalInv
  <1>2. \A q \in Procs : pc[q] \notin Locked
    BY <1>1, StoreBounds DEF LockIsHeld
  <1>3. journal = <<>>
    BY <1>1 DEF JournalInv, JournalHasRequest
  <1>4. ShapeOK'
    BY <1>1, CreatedEventType DEF ShapeOK, Steps
  <1>5. LockIsHeld'
    BY <1>1, <1>2 DEF LockIsHeld, Locked, ShapeOK
  <1>6. PreparedFollows'
    BY <1>1, <1>2, <1>3, CreatedEventType DEF PreparedFollows, Locked, ShapeOK
  <1>7. PreparedIsBacked'
    BY <1>1, <1>2 DEF PreparedIsBacked, Locked, ShapeOK, CreatedEvent
  <1>8. JournalInv'
    BY <1>1, JournalInvUntouched
  <1> QED BY <1>4, <1>5, <1>6, <1>7, <1>8 DEF Inv, JournalInv

LEMMA WritePidFileInv ==
  ASSUME Inv, NEW p \in Procs, WritePidFile(p)
  PROVE  Inv'
  <1> USE DEF WritePidFile, Goto
  <1>1. ShapeOK /\ LockIsHeld /\ PreparedFollows /\ PreparedIsBacked /\ JournalInv
    BY DEF Inv, JournalInv
  <1>2. pending[p].kind = "worker.started" /\ pending[p].detail \in Pids
    <2>1. journal # <<>> /\ KindAgrees(pending[p]) /\ pending[p].kind = "worker.started"
      BY <1>1, AppliesFacts DEF PreparedFollows, PreparedIsBacked
    <2>2. pending[p].detail \in DetailsOf(pending[p].kind)
      BY <2>1 DEF KindAgrees
    <2>3. DetailsOf("worker.started") = Pids
      BY DEF DetailsOf, VariantKinds
    <2> QED BY <2>1, <2>2, <2>3
  <1>3. lock = p /\ \A q \in Procs : q # p => pc[q] \notin Locked
    BY <1>1 DEF LockIsHeld, Locked
  <1>4. ShapeOK'
    BY <1>1, <1>2 DEF ShapeOK, Steps
  <1>5. LockIsHeld'
    BY <1>1, <1>3 DEF LockIsHeld, Locked, ShapeOK
  <1>6. PreparedFollows'
    BY <1>1, <1>3, AppliesFacts DEF PreparedFollows, Locked, ShapeOK
  <1>7. PreparedIsBacked'
    BY <1>1, <1>2, <1>3, NoneIsNoValue DEF PreparedIsBacked, Locked, ShapeOK
  <1>8. JournalInv'
    <2>1. pid_file' # None
      BY <1>2, NoneIsNoValue
    <2> QED BY <1>1, <2>1 DEF JournalInv, JournalHasRequest, JournalIsLegal,
                              AnnouncedFilesExist, CancelSticks, CancelNeverRejoins
  <1> QED BY <1>4, <1>5, <1>6, <1>7, <1>8 DEF Inv, JournalInv

LEMMA WriteReportInv ==
  ASSUME Inv, NEW p \in Procs, WriteReport(p)
  PROVE  Inv'
  <1> USE DEF WriteReport, Goto
  <1>1. ShapeOK /\ LockIsHeld /\ PreparedFollows /\ PreparedIsBacked /\ JournalInv
    BY DEF Inv, JournalInv
  <1>2. /\ journal # <<>> /\ Applies(HeadState(journal), pending[p])
        /\ pending[p].kind = "result.written" /\ pending[p] \in Events
        /\ pending[p].detail \in Digests
    <2>1. /\ journal # <<>> /\ Applies(HeadState(journal), pending[p])
          /\ pending[p].kind = "result.written" /\ pending[p] \in Events
      BY <1>1 DEF PreparedFollows, PreparedIsBacked
    <2>2. pending[p].detail \in DetailsOf(pending[p].kind)
      BY <2>1, AppliesFacts DEF KindAgrees
    <2>3. DetailsOf("result.written") = Digests
      BY DEF DetailsOf, VariantKinds
    <2> QED BY <2>1, <2>2, <2>3
  <1>3. lock = p /\ \A q \in Procs : q # p => pc[q] \notin Locked
    BY <1>1 DEF LockIsHeld, Locked
  <1>4. CASE report = None
    <2>1. ShapeOK'
      BY <1>1, <1>2, <1>4 DEF ShapeOK, Steps
    <2>2. LockIsHeld'
      BY <1>1, <1>3, <1>4 DEF LockIsHeld, Locked, ShapeOK
    <2>3. PreparedFollows'
      BY <1>1, <1>2, <1>3, <1>4 DEF PreparedFollows, Locked, ShapeOK
    <2>4. PreparedIsBacked'
      BY <1>1, <1>2, <1>3, <1>4 DEF PreparedIsBacked, Locked, ShapeOK
    <2>5. JournalInv'
      <3>1. \A n \in 1 .. Len(journal) : journal[n].kind # "result.written"
        <4> SUFFICES ASSUME NEW n \in 1 .. Len(journal), journal[n].kind = "result.written"
                     PROVE  FALSE
          OBVIOUS
        <4>1. report = journal[n].detail
          BY <1>1 DEF JournalInv, AnnouncedFilesExist
        <4>2. n # 1
          BY <1>1, <1>2 DEF JournalInv, JournalIsLegal, CreatedEvent
        <4>3. KindAgrees(journal[n])
          <5>1. n \in 2 .. Len(journal)
            BY <4>2
          <5> QED BY <1>1, <1>2, <5>1, AppliesFacts DEF JournalInv, JournalIsLegal
        <4>4. journal[n].detail \in Digests
          BY <4>3 DEF KindAgrees, DetailsOf, VariantKinds
        <4> QED BY <1>4, <4>1, <4>4, NoneIsNoValue
      <3> QED BY <1>1, <1>4, <3>1 DEF JournalInv, JournalHasRequest, JournalIsLegal,
                                      AnnouncedFilesExist, CancelSticks, CancelNeverRejoins
    <2> QED BY <2>1, <2>2, <2>3, <2>4, <2>5 DEF Inv, JournalInv
  <1>5. CASE report # None
    <2>1. ShapeOK'
      BY <1>1, <1>5 DEF ShapeOK, Steps
    <2>2. LockIsHeld'
      BY <1>1, <1>3, <1>5, StoreBounds DEF LockIsHeld, Locked, ShapeOK
    <2>3. PreparedFollows' /\ PreparedIsBacked'
      BY <1>1, <1>3, <1>5 DEF PreparedFollows, PreparedIsBacked, Locked, ShapeOK
    <2>4. JournalInv'
      BY <1>1, <1>5, JournalInvUntouched
    <2> QED BY <2>1, <2>2, <2>3, <2>4 DEF Inv, JournalInv
  <1> QED BY <1>4, <1>5

\* Appending a prepared event: this is where the journal's history is made.
LEMMA CommitEventInv ==
  ASSUME Inv, NEW p \in Procs, CommitEvent(p)
  PROVE  Inv'
  <1> DEFINE event == pending[p]
  <1>1. ShapeOK /\ LockIsHeld /\ PreparedFollows /\ PreparedIsBacked /\ JournalInv
    BY DEF Inv, JournalInv
  <1>2. /\ pc[p] = "append" /\ journal' = Append(journal, event)
        /\ pending' = [pending EXCEPT ![p] = None]
        /\ pc' = [pc EXCEPT ![p] = "project"]
        /\ UNCHANGED <<requested, pid_file, report, heartbeat, lock, crashes>>
    BY DEF CommitEvent, Goto
  <1>3. event \in Events
    BY <1>1, <1>2 DEF PreparedFollows
  <1>4. lock = p /\ \A q \in Procs : q # p => pc[q] \notin Locked
    BY <1>1, <1>2 DEF LockIsHeld, Locked
  <1>5. /\ Len(journal) \in Nat /\ Len(journal') = Len(journal) + 1
        /\ \A n \in 1 .. Len(journal) : journal'[n] = journal[n] /\ journal[n] \in Events
        /\ journal'[Len(journal) + 1] = event
        /\ journal' # <<>>
    BY <1>1, <1>2, <1>3 DEF ShapeOK
  <1>6. ShapeOK'
    BY <1>1, <1>2, <1>3 DEF ShapeOK, Steps
  <1>7. LockIsHeld'
    BY <1>1, <1>2, <1>4 DEF LockIsHeld, Locked, ShapeOK
  <1>8. PreparedFollows' /\ PreparedIsBacked'
    BY <1>1, <1>2, <1>4 DEF PreparedFollows, PreparedIsBacked, Locked, ShapeOK
  <1>9. CASE journal = <<>>
    <2>1. event = CreatedEvent /\ Len(journal) = 0
      BY <1>1, <1>2, <1>9 DEF PreparedFollows
    <2>2. JournalHasRequest'
      BY <1>1, <1>2 DEF PreparedFollows, JournalHasRequest
    <2>3. JournalIsLegal'
      BY <1>5, <2>1 DEF JournalIsLegal
    <2>4. AnnouncedFilesExist' /\ CancelSticks' /\ CancelNeverRejoins'
      BY <1>5, <2>1 DEF AnnouncedFilesExist, CancelSticks, CancelNeverRejoins, CreatedEvent
    <2> QED BY <1>6, <1>7, <1>8, <2>2, <2>3, <2>4 DEF Inv
  <1>10. CASE journal # <<>>
    <2>1. Applies(HeadState(journal), event)
      BY <1>1, <1>2, <1>10 DEF PreparedFollows
    <2>2. /\ Len(journal) \in Nat \ {0}
          /\ HeadState(journal) = [sequence |-> Len(journal) - 1,
                                   phase |-> journal[Len(journal)].phase]
      BY <1>1, <1>10, LegalSequences DEF ShapeOK, JournalInv, HeadState, HeadPhase
    <2>3. JournalHasRequest'
      BY <1>1, <1>2, <1>10 DEF JournalInv, JournalHasRequest
    <2>4. JournalIsLegal'
      <3>1. journal'[1] = CreatedEvent
        BY <1>1, <1>5, <1>10, <2>2 DEF JournalInv, JournalIsLegal
      <3>2. ASSUME NEW n \in 2 .. Len(journal')
            PROVE  Applies([sequence |-> n - 2, phase |-> journal'[n - 1].phase], journal'[n])
        <4>1. CASE n = Len(journal) + 1
          BY <1>5, <2>1, <2>2, <4>1
        <4>2. CASE n # Len(journal) + 1
          <5>1. n \in 2 .. Len(journal) /\ n \in 1 .. Len(journal) /\ n - 1 \in 1 .. Len(journal)
            BY <1>5, <4>2
          <5> QED BY <1>1, <1>5, <1>10, <5>1 DEF JournalInv, JournalIsLegal
        <4> QED BY <4>1, <4>2
      <3> QED BY <3>1, <3>2 DEF JournalIsLegal
    <2>5. AnnouncedFilesExist'
      <3> SUFFICES ASSUME NEW n \in 1 .. Len(journal')
                   PROVE  /\ journal'[n].kind = "worker.started" => pid_file' # None
                          /\ journal'[n].kind = "result.written" => report' = journal'[n].detail
        BY DEF AnnouncedFilesExist
      <3>1. CASE n = Len(journal) + 1
        BY <1>1, <1>2, <1>5, <3>1 DEF PreparedIsBacked
      <3>2. CASE n # Len(journal) + 1
        <4>1. n \in 1 .. Len(journal)
          BY <1>5, <3>2
        <4> QED BY <1>1, <1>2, <1>5, <4>1 DEF JournalInv, AnnouncedFilesExist
      <3> QED BY <3>1, <3>2
    <2>6. ASSUME NEW m \in 1 .. Len(journal), journal[m].kind = "cancel.requested"
          PROVE  /\ event.phase \in StopPhases
                 /\ event.kind \in {"progress.updated", "run.failed", "run.cancelled"}
      <3>1. Len(journal) \in 1 .. Len(journal) /\ m <= Len(journal)
        BY <2>2
      <3>2. journal[Len(journal)].phase \in StopPhases
        BY <1>1, <2>6, <3>1 DEF JournalInv, CancelSticks
      <3>3. HeadState(journal).phase \in StopPhases
        BY <2>2, <3>2
      <3> QED BY <2>1, <3>3, StoppingIsFinal
    <2>7. CancelSticks'
      <3> SUFFICES ASSUME NEW m \in 1 .. Len(journal'), NEW n \in 1 .. Len(journal'),
                          m <= n, journal'[m].kind = "cancel.requested"
                   PROVE  journal'[n].phase \in StopPhases
        BY DEF CancelSticks
      <3>1. CASE n # Len(journal) + 1
        <4>1. m \in 1 .. Len(journal) /\ n \in 1 .. Len(journal)
          BY <1>5, <3>1
        <4> QED BY <1>1, <1>5, <4>1 DEF JournalInv, CancelSticks
      <3>2. CASE n = Len(journal) + 1 /\ m # Len(journal) + 1
        <4>1. m \in 1 .. Len(journal)
          BY <1>5, <3>2
        <4> QED BY <1>5, <2>6, <3>2, <4>1
      <3>3. CASE n = Len(journal) + 1 /\ m = Len(journal) + 1
        <4>1. event.phase = "cancel_requested"
          BY <1>5, <2>1, <3>3, AppliesFacts, CancelEntersCancelRequested
        <4> QED BY <1>5, <3>3, <4>1 DEF StopPhases
      <3> QED BY <3>1, <3>2, <3>3
    <2>8. CancelNeverRejoins'
      <3> SUFFICES ASSUME NEW m \in 1 .. Len(journal'), NEW n \in 1 .. Len(journal'),
                          m < n, journal'[m].kind = "cancel.requested"
                   PROVE  journal'[n].kind \in {"progress.updated", "run.failed", "run.cancelled"}
        BY DEF CancelNeverRejoins
      <3>1. m \in 1 .. Len(journal)
        BY <1>5
      <3>2. CASE n = Len(journal) + 1
        BY <1>5, <2>6, <3>1, <3>2
      <3>3. CASE n # Len(journal) + 1
        <4>1. n \in 1 .. Len(journal)
          BY <1>5, <3>3
        <4> QED BY <1>1, <1>5, <3>1, <4>1 DEF JournalInv, CancelNeverRejoins
      <3> QED BY <3>2, <3>3
    <2> QED BY <1>6, <1>7, <1>8, <2>3, <2>4, <2>5, <2>7, <2>8 DEF Inv
  <1> QED BY <1>9, <1>10

\* A step that releases the lock or drops what was prepared disturbs neither
\* the journal nor the operations of the others.
LEMMA LeaveInv ==
  ASSUME Inv, NEW p \in Procs,
         UNCHANGED <<requested, journal, pid_file, report, heartbeat>>,
         lock' = IF lock = p THEN None ELSE lock,
         pc' = [pc EXCEPT ![p] = "idle"],
         pending' \in {pending, [pending EXCEPT ![p] = None]},
         crashes' \in 0 .. MaxCrashes
  PROVE  Inv'
  <1>1. ShapeOK /\ LockIsHeld /\ PreparedFollows /\ PreparedIsBacked /\ JournalInv
    BY DEF Inv, JournalInv
  <1>2. ShapeOK'
    BY <1>1 DEF ShapeOK, Steps
  <1>3. LockIsHeld'
    BY <1>1, StoreBounds DEF LockIsHeld, Locked, ShapeOK
  <1>4. PreparedFollows' /\ PreparedIsBacked'
    BY <1>1 DEF PreparedFollows, PreparedIsBacked, ShapeOK
  <1>5. JournalInv'
    BY <1>1, JournalInvUntouched
  <1> QED BY <1>2, <1>3, <1>4, <1>5 DEF Inv, JournalInv

\* A step between operations that prepare nothing: taking the lock to project,
\* moving on to write the projection, or reading without the lock.
LEMMA MoveInv ==
  ASSUME Inv, NEW p \in Procs,
         UNCHANGED <<requested, journal, pid_file, report, pending, crashes>>,
         heartbeat' \in BOOLEAN,
         NEW step \in {"idle", "project", "store", "read", "rebuild"},
         pc' = [pc EXCEPT ![p] = step],
         \/ pc[p] \notin Locked /\ step \notin Locked /\ UNCHANGED lock
         \/ pc[p] \in Locked /\ step \in Locked /\ UNCHANGED lock
         \/ lock = None /\ step \in Locked /\ lock' = p
  PROVE  Inv'
  <1>1. ShapeOK /\ LockIsHeld /\ PreparedFollows /\ PreparedIsBacked /\ JournalInv
    BY DEF Inv, JournalInv
  <1>2. ShapeOK'
    BY <1>1 DEF ShapeOK, Steps
  <1>3. LockIsHeld'
    BY <1>1, StoreBounds DEF LockIsHeld, ShapeOK
  <1>4. PreparedFollows' /\ PreparedIsBacked'
    BY <1>1 DEF PreparedFollows, PreparedIsBacked, ShapeOK
  <1>5. JournalInv'
    BY <1>1, JournalInvUntouched
  <1> QED BY <1>2, <1>3, <1>4, <1>5 DEF Inv, JournalInv

\* Every step of every process keeps the invariant.
LEMMA NextInv ==
  ASSUME Inv, [Next]_vars
  PROVE  Inv'
  <1>1. ShapeOK /\ LockIsHeld
    BY DEF Inv
  <1>2. CASE UNCHANGED vars
    <2>1. JournalInv /\ JournalInv'
      BY <1>2, JournalInvUntouched DEF Inv, JournalInv, vars
    <2> QED BY <1>2, <2>1 DEF Inv, JournalInv, ShapeOK, LockIsHeld, PreparedFollows,
                              PreparedIsBacked, vars
  <1>3. ASSUME NEW p \in Procs, Call(p)
        PROVE  Inv'
    <2>1. CASE Create(p)
      BY <2>1, CreateInv
    <2>2. ASSUME NEW kind \in AppendedKinds, NEW phase \in Phases \union {None},
                 NEW detail \in DetailsOf(kind), AppendEvent(p, phase, kind, detail)
          PROVE  Inv'
      <3>1. kind \in EventKinds /\ kind \notin {"worker.started", "result.written"}
        BY DEF AppendedKinds
      <3>2. /\ pc[p] = "idle" /\ Prepare(p, phase, kind, detail, "append")
            /\ UNCHANGED <<files, view, crashes>>
        BY <2>2 DEF AppendEvent
      <3> QED BY <3>1, <3>2, PrepareInv
    <2>3. CASE RequestCancel(p)
      <3>1. "cancel.requested" \in EventKinds /\ "cancel_requested" \in Phases
        BY DEF EventKinds, Phases
      <3>2. None \in DetailsOf("cancel.requested")
        BY DEF DetailsOf, VariantKinds
      <3>3. /\ pc[p] = "idle"
            /\ Prepare(p, "cancel_requested", "cancel.requested", None, "append")
            /\ UNCHANGED <<files, view, crashes>>
        BY <2>3 DEF RequestCancel
      <3> QED BY <3>1, <3>2, <3>3, PrepareInv
    <2>4. ASSUME NEW pid \in Pids, WritePid(p, pid)
          PROVE  Inv'
      <3>1. "worker.started" \in EventKinds /\ pid \in DetailsOf("worker.started")
        BY DEF EventKinds, DetailsOf, VariantKinds
      <3>2. /\ pc[p] = "idle" /\ Prepare(p, None, "worker.started", pid, "write_pid")
            /\ UNCHANGED <<files, view, crashes>>
        BY <2>4 DEF WritePid
      <3> QED BY <3>1, <3>2, PrepareInv
    <2>5. ASSUME NEW digest \in Digests, WriteResult(p, digest)
          PROVE  Inv'
      <3>1. "result.written" \in EventKinds /\ digest \in DetailsOf("result.written")
        BY DEF EventKinds, DetailsOf, VariantKinds
      <3>2. /\ pc[p] = "idle" /\ Prepare(p, None, "result.written", digest, "write_result")
            /\ UNCHANGED <<files, view, crashes>>
        BY <2>5 DEF WriteResult
      <3> QED BY <3>1, <3>2, PrepareInv
    <2>6. CASE WriteHeartbeat(p)
      BY <2>6, MoveInv DEF WriteHeartbeat, Goto, LockFree, Locked
    <2>7. CASE ReadCache(p)
      <3>1. heartbeat \in BOOLEAN
        BY <1>1 DEF ShapeOK
      <3> QED BY <2>7, <3>1, MoveInv DEF ReadCache, Goto, Locked, files
    <2>8. CASE AskRebuild(p)
      <3>1. heartbeat \in BOOLEAN
        BY <1>1 DEF ShapeOK
      <3> QED BY <2>8, <3>1, MoveInv DEF AskRebuild, Goto, Locked, files
    <2> QED BY <1>3, <2>1, <2>2, <2>3, <2>4, <2>5, <2>6, <2>7, <2>8 DEF Call
  <1>4. ASSUME NEW p \in Procs, Continue(p)
        PROVE  Inv'
    <2> heartbeat \in BOOLEAN /\ crashes \in 0 .. MaxCrashes
      BY <1>1 DEF ShapeOK
    <2>1. CASE WritePidFile(p)
      BY <2>1, WritePidFileInv
    <2>2. CASE WriteReport(p)
      BY <2>2, WriteReportInv
    <2>3. CASE CommitEvent(p)
      BY <2>3, CommitEventInv
    <2>4. CASE ReduceJournal(p)
      BY <2>4, MoveInv DEF ReduceJournal, Goto, Locked, files
    <2>5. CASE StoreProjection(p)
      <3>1. lock = p
        BY <1>1, <2>5 DEF LockIsHeld, Locked, StoreProjection
      <3> QED BY <2>5, <3>1, LeaveInv DEF StoreProjection, Goto
    <2>6. CASE CompareWithJournal(p)
      <3> DEFINE step == IF view[p].sequence < ReduceEvents(journal).sequence
                         THEN "rebuild" ELSE "idle"
      <3>1. step \in {"idle", "rebuild"}
        OBVIOUS
      <3>2. /\ pc[p] = "read" /\ pc' = [pc EXCEPT ![p] = step]
            /\ UNCHANGED <<files, lock, pending, crashes>>
        BY <2>6 DEF CompareWithJournal, Goto
      <3> HIDE DEF step
      <3> QED BY <3>1, <3>2, MoveInv DEF Locked, files
    <2>7. CASE RebuildState(p)
      BY <2>7, MoveInv DEF RebuildState, Goto, LockFree, Locked, files
    <2> QED BY <1>4, <2>1, <2>2, <2>3, <2>4, <2>5, <2>6, <2>7 DEF Continue
  <1>5. ASSUME NEW p \in Procs, Crash(p)
        PROVE  Inv'
    <2>1. crashes' \in 0 .. MaxCrashes
      BY <1>1, <1>5, StoreBounds DEF Crash, ShapeOK
    <2> QED BY <1>5, <2>1, LeaveInv DEF Crash, Goto, files
  <1> QED BY <1>2, <1>3, <1>4, <1>5 DEF Next

\* The inductive invariant holds in every reachable state.
THEOREM Invariance == Spec => []Inv
  BY InitInv, NextInv, PTL DEF Spec

-----------------------------------------------------------------------------
(* What the store promises *)

\* Whatever operations are interleaved and wherever a process dies, the journal
\* of a run replays: RunStore serialises its writers.
THEOREM JournalStaysLegal == Spec => []JournalIsLegal
  <1>1. Inv => JournalIsLegal
    BY DEF Inv
  <1> QED BY <1>1, Invariance, PTL

\* write_pid and write_result leave no event whose file is missing.
THEOREM AnnouncedFilesAlwaysExist == Spec => []AnnouncedFilesExist
  <1>1. Inv => AnnouncedFilesExist
    BY DEF Inv
  <1> QED BY <1>1, Invariance, PTL

\* A run that was asked to stop records no further work and never completes.
THEOREM CancelledRunsStop == Spec => []CancelNeverRejoins
  <1>1. Inv => CancelNeverRejoins
    BY DEF Inv
  <1> QED BY <1>1, Invariance, PTL

-----------------------------------------------------------------------------
(* The store implements the lifecycle *)

LEMMA LifecycleInit == Init => Lifecycle!Init
  BY DEF Init, Lifecycle!Init

\* The instance reads the same transition table.
LEMMA SameTable ==
  /\ Lifecycle!Phases = Phases
  /\ Lifecycle!AllowedTransitions = AllowedTransitions
  <1>1. Lifecycle!Phases = Phases /\ Lifecycle!TerminalPhases = TerminalPhases
    BY DEF Lifecycle!Phases, Phases, Lifecycle!WorkingPhases, WorkingPhases,
           Lifecycle!TerminalPhases, TerminalPhases
  <1>2. ASSUME NEW target
        PROVE  Lifecycle!NextOnPath(target) = NextOnPath(target)
    BY DEF Lifecycle!NextOnPath, NextOnPath, Lifecycle!NormalPath, NormalPath
  <1> QED BY <1>1, <1>2 DEF Lifecycle!AllowedTransitions, AllowedTransitions

\* Appending an event is a move of the run, its creation, or no step at all.
LEMMA CommitIsAMove ==
  ASSUME Inv, NEW p \in Procs, CommitEvent(p)
  PROVE  [Lifecycle!Next]_(Lifecycle!vars)
  <1> DEFINE event == pending[p]
  <1>1. /\ pc[p] = "append" /\ journal' = Append(journal, event) /\ report' = report
    BY DEF CommitEvent
  <1>2. journal \in Seq(Events) /\ JournalIsLegal /\ event \in Events
    BY <1>1 DEF Inv, ShapeOK, PreparedFollows
  <1>3. journal' # <<>> /\ HeadPhase(journal') = event.phase
    BY <1>1, <1>2 DEF HeadPhase
  <1>4. CASE journal = <<>>
    <2>1. event = CreatedEvent
      BY <1>1, <1>4 DEF Inv, PreparedFollows
    <2>2. Lifecycle!Create
      BY <1>1, <1>3, <1>4, <2>1 DEF Lifecycle!Create, CreatedEvent
    <2> QED BY <2>2 DEF Lifecycle!Next
  <1>5. CASE journal # <<>>
    <2>1. Applies(HeadState(journal), event)
      BY <1>1, <1>5 DEF Inv, PreparedFollows
    <2>2. HeadState(journal).phase = HeadPhase(journal) /\ HeadPhase(journal) \in Phases
      BY <1>2, <1>5, LegalSequences DEF HeadState
    <2>3. CASE event.phase = HeadPhase(journal)
      BY <1>1, <1>3, <1>5, <2>3 DEF Lifecycle!vars
    <2>4. CASE event.phase # HeadPhase(journal)
      <3>1. event.phase \in AllowedTransitions[HeadPhase(journal)]
        BY <2>1, <2>2, <2>4, AppliesMoves
      <3>2. event.phase \in Phases /\ "absent" \notin Phases
        BY <1>2 DEF Events, Phases, WorkingPhases, TerminalPhases
      <3>3. Lifecycle!Move(event.phase)
        BY <1>1, <1>3, <1>5, <2>2, <3>1, <3>2, SameTable DEF Lifecycle!Move
      <3> QED BY <3>2, <3>3, SameTable DEF Lifecycle!Next
    <2> QED BY <2>3, <2>4
  <1> QED BY <1>4, <1>5

\* Writing the report is recording it; a refused one is no step at all.
LEMMA WriteReportIsRecorded ==
  ASSUME Inv, NEW p \in Procs, WriteReport(p)
  PROVE  [Lifecycle!Next]_(Lifecycle!vars)
  <1>1. pc[p] = "write_result" /\ journal' = journal
    BY DEF WriteReport
  <1>2. /\ journal # <<>> /\ Applies(HeadState(journal), pending[p])
        /\ pending[p].kind = "result.written"
    BY <1>1 DEF Inv, PreparedFollows, PreparedIsBacked
  <1>3. CASE report # None
    BY <1>1, <1>3 DEF WriteReport, Lifecycle!vars
  <1>4. CASE report = None
    <2>1. KindAgrees(pending[p]) /\ pending[p].previous_phase = HeadState(journal).phase
      BY <1>2, AppliesFacts
    <2>2. pending[p].phase = "building_report" /\ pending[p].phase = pending[p].previous_phase
      BY <1>2, <2>1 DEF KindAgrees, OnlyInPhase, VariantKinds, SamePhaseKinds
    <2>3. HeadPhase(journal) = "building_report"
      BY <2>1, <2>2 DEF HeadState
    <2>4. pending[p].detail \in Digests
      BY <1>2, <2>1 DEF KindAgrees, DetailsOf, VariantKinds
    <2>5. Lifecycle!RecordReport(pending[p].detail)
      BY <1>1, <1>2, <1>4, <2>3 DEF WriteReport, Lifecycle!RecordReport
    <2> QED BY <2>4, <2>5 DEF Lifecycle!Next
  <1> QED BY <1>3, <1>4

\* Every other step leaves what a watcher sees alone.
LEMMA NextIsALifecycleStep ==
  ASSUME Inv, [Next]_vars
  PROVE  [Lifecycle!Next]_(Lifecycle!vars)
  <1>1. CASE UNCHANGED <<journal, report>>
    BY <1>1 DEF Lifecycle!vars
  <1>2. CASE UNCHANGED vars
    BY <1>1, <1>2 DEF vars
  <1>3. ASSUME NEW p \in Procs, Call(p)
        PROVE  UNCHANGED <<journal, report>>
    BY <1>3 DEF Call, Create, AppendEvent, RequestCancel, WritePid, WriteResult,
                WriteHeartbeat, ReadCache, AskRebuild, files
  <1>4. ASSUME NEW p \in Procs, Continue(p)
        PROVE  [Lifecycle!Next]_(Lifecycle!vars)
    <2>1. CASE CommitEvent(p)
      BY <2>1, CommitIsAMove
    <2>2. CASE WriteReport(p)
      BY <2>2, WriteReportIsRecorded
    <2>3. CASE ~CommitEvent(p) /\ ~WriteReport(p)
      <3>1. UNCHANGED <<journal, report>>
        BY <1>4, <2>3 DEF Continue, WritePidFile, ReduceJournal, StoreProjection,
                          CompareWithJournal, RebuildState, files
      <3> QED BY <3>1, <1>1
    <2> QED BY <2>1, <2>2, <2>3
  <1>5. ASSUME NEW p \in Procs, Crash(p)
        PROVE  UNCHANGED <<journal, report>>
    BY <1>5 DEF Crash, files
  <1> QED BY <1>1, <1>2, <1>3, <1>4, <1>5 DEF Next

\* To a watcher of its phase and its report, a run directory is a lifecycle.
THEOREM StoreImplementsLifecycle == Spec => LifecycleSpec
  BY LifecycleInit, NextIsALifecycleStep, Invariance, PTL
     DEF Spec, LifecycleSpec, Lifecycle!Spec

-----------------------------------------------------------------------------
(* The reduction of a journal *)

\* Induction over the natural numbers, for a set in place of a predicate.
LEMMA SetInduction ==
  ASSUME NEW S, 0 \in S, \A n \in Nat : n \in S => n + 1 \in S
  PROVE  \A n \in Nat : n \in S
  <1> DEFINE T == {n \in Nat : n \notin S}
             R == {ss \in Nat \X Nat : ss[1] < ss[2]}
  <1> SUFFICES ASSUME T # {} PROVE FALSE
    OBVIOUS
  <1>1. IsWellFoundedOn(R, Nat)
    BY NatLessThanWellFounded DEF OpToRel
  <1>2. PICK n \in T : \A m \in T : ~(<<m, n>> \in R)
    BY <1>1, WFMin
  <1>3. n \in Nat /\ n # 0
    OBVIOUS
  <1>4. n - 1 \in Nat /\ n - 1 < n /\ (n - 1) + 1 = n
    BY <1>3
  <1>5. <<n - 1, n>> \in R /\ n - 1 \in T
    BY <1>3, <1>4
  <1> QED BY <1>2, <1>5

\* The states a fold over the events up to one of them passes through.
IsFold(state, events, last) ==
  state = [n \in 0 .. last |-> IF n = 0 THEN OpeningState ELSE Project(state[n - 1], events[n])]

\* There is such a fold, over any events.
LEMMA FoldExists ==
  ASSUME NEW events, NEW last \in Nat
  PROVE  \E state : IsFold(state, events, last)
  <1> DEFINE S == {m \in Nat : \E state : IsFold(state, events, m)}
  <1>1. 0 \in S
    <2>1. IsFold([n \in 0 .. 0 |-> OpeningState], events, 0)
      BY DEF IsFold
    <2> QED BY <2>1
  <1>2. ASSUME NEW m \in Nat, m \in S PROVE m + 1 \in S
    <2>1. PICK state : IsFold(state, events, m)
      BY <1>2
    <2> DEFINE longer == [n \in 0 .. m + 1 |->
                            IF n = m + 1 THEN Project(state[m], events[m + 1]) ELSE state[n]]
    <2>2. ASSUME NEW n \in 0 .. m + 1
          PROVE  longer[n] = IF n = 0 THEN OpeningState ELSE Project(longer[n - 1], events[n])
      <3>1. CASE n = 0
        <4>1. 0 \in 0 .. m /\ 0 # m + 1
          OBVIOUS
        <4>2. state[0] = OpeningState
          BY <2>1, <4>1 DEF IsFold
        <4> QED BY <3>1, <4>1, <4>2
      <3>2. CASE n # 0 /\ n # m + 1
        <4>1. n \in 0 .. m /\ n - 1 \in 0 .. m + 1 /\ n - 1 # m + 1
          BY <3>2
        <4>2. state[n] = Project(state[n - 1], events[n])
          BY <2>1, <3>2, <4>1 DEF IsFold
        <4> QED BY <3>2, <4>1, <4>2
      <3>3. CASE n = m + 1
        <4>1. n # 0 /\ m \in 0 .. m + 1 /\ m # m + 1 /\ n - 1 = m
          BY <3>3
        <4> QED BY <3>3, <4>1
      <3> QED BY <3>1, <3>2, <3>3
    <2>3. IsFold(longer, events, m + 1)
      <3> HIDE DEF longer
      <3>1. longer = [n \in 0 .. m + 1 |-> longer[n]]
        BY DEF longer
      <3>2. [n \in 0 .. m + 1 |-> longer[n]]
              = [n \in 0 .. m + 1 |->
                   IF n = 0 THEN OpeningState ELSE Project(longer[n - 1], events[n])]
        BY <2>2
      <3> QED BY <3>1, <3>2, Zenon DEF IsFold
    <2> QED BY <2>3
  <1> HIDE DEF S
  <1>3. last \in S
    BY <1>1, <1>2, SetInduction
  <1> QED BY <1>3 DEF S

\* The reduction of a journal is the last state of such a fold.
LEMMA ReductionIsAFold ==
  ASSUME NEW events, Len(events) \in Nat
  PROVE  \E state : IsFold(state, events, Len(events)) /\ ReduceEvents(events) = state[Len(events)]
  <1> DEFINE fold == CHOOSE state : IsFold(state, events, Len(events))
  <1>1. IsFold(fold, events, Len(events))
    BY FoldExists
  <1>2. ReduceEvents(events) = fold[Len(events)]
    BY DEF ReduceEvents, IsFold
  <1> QED BY <1>1, <1>2

\* The last event of a journal gives its reduction the phase and the number.
LEMMA ReductionShowsTheLast ==
  ASSUME NEW events, Len(events) \in Nat \ {0}
  PROVE  /\ ReduceEvents(events).sequence = events[Len(events)].sequence
         /\ ReduceEvents(events).phase = events[Len(events)].phase
  <1>1. PICK state : /\ IsFold(state, events, Len(events))
                     /\ ReduceEvents(events) = state[Len(events)]
    BY ReductionIsAFold
  <1>2. Len(events) \in 0 .. Len(events) /\ Len(events) # 0
    OBVIOUS
  <1>3. state[Len(events)] = Project(state[Len(events) - 1], events[Len(events)])
    BY <1>1, <1>2 DEF IsFold
  <1> QED BY <1>1, <1>3 DEF Project

\* The state an event that may be appended leaves is a state.
LEMMA ProjectType ==
  ASSUME NEW state \in States, NEW event \in Events, event.detail \in DetailsOf(event.kind)
  PROVE  Project(state, event) \in States
  <1>1. event.kind = "worker.started" => event.detail \in Pids
    BY DEF DetailsOf, VariantKinds
  <1>2. event.kind \in {"result.written", "run.completed"} => event.detail \in Digests
    BY DEF DetailsOf, VariantKinds
  <1>3. event.phase \in Phases /\ event.sequence \in Nat
    BY DEF Events
  <1> DEFINE Stamps == Nat \union {None}
             entered == state.phase # event.phase
             carried == [v \in Variants |-> IF entered THEN None ELSE state.variant_progress[v]]
             spoken == IF event.kind \in VariantKinds
                       THEN [carried EXCEPT ![event.detail] = event.sequence] ELSE carried
  <1>4. carried \in [Variants -> Stamps]
    BY DEF States
  <1>5. spoken \in [Variants -> Stamps]
    BY <1>3, <1>4
  <1>6. Project(state, event).variant_progress = spoken
    BY DEF Project
  <1>7. /\ Project(state, event) =
             [phase |-> Project(state, event).phase,
              sequence |-> Project(state, event).sequence,
              worker_pid |-> Project(state, event).worker_pid,
              worker_started_at |-> Project(state, event).worker_started_at,
              cancel_requested_at |-> Project(state, event).cancel_requested_at,
              error |-> Project(state, event).error,
              progress |-> Project(state, event).progress,
              variant_progress |-> Project(state, event).variant_progress,
              result_digest |-> Project(state, event).result_digest]
    BY DEF Project
  <1>8. /\ Project(state, event).phase \in Phases
        /\ Project(state, event).sequence \in Nat
        /\ Project(state, event).worker_pid \in Pids \union {None}
        /\ Project(state, event).result_digest \in Digests \union {None}
    BY <1>1, <1>2, <1>3 DEF Project, States
  <1>9. /\ Project(state, event).worker_started_at \in Stamps
        /\ Project(state, event).cancel_requested_at \in Stamps
        /\ Project(state, event).error \in Stamps
        /\ Project(state, event).progress \in Stamps
    BY <1>3 DEF Project, States
  <1> HIDE DEF spoken
  <1> QED BY <1>5, <1>6, <1>7, <1>8, <1>9 DEF States

\* What a legal journal reduces to is a state.
LEMMA ReductionType ==
  ASSUME journal \in Seq(Events), journal # <<>>, JournalIsLegal
  PROVE  ReduceEvents(journal) \in States
  <1>1. PICK state : IsFold(state, journal, Len(journal))
                     /\ ReduceEvents(journal) = state[Len(journal)]
    BY ReductionIsAFold
  <1> DEFINE S == {n \in Nat : n <= Len(journal) => state[n] \in States}
  <1>2. 0 \in S
    <2>1. state[0] = OpeningState
      BY <1>1 DEF IsFold
    <2>2. OpeningState \in States
      BY DEF OpeningState, States, Phases, WorkingPhases
    <2> QED BY <2>1, <2>2
  <1>3. ASSUME NEW n \in Nat, n \in S PROVE n + 1 \in S
    <2> SUFFICES ASSUME n + 1 <= Len(journal) PROVE state[n + 1] \in States
      OBVIOUS
    <2>1. n + 1 \in 1 .. Len(journal) /\ state[n] \in States /\ journal[n + 1] \in Events
      BY <1>3
    <2>2. state[n + 1] = Project(state[n], journal[n + 1])
      <3>1. n + 1 \in 0 .. Len(journal) /\ n + 1 # 0 /\ (n + 1) - 1 = n
        BY <2>1
      <3> QED BY <1>1, <3>1 DEF IsFold
    <2>3. journal[n + 1].detail \in DetailsOf(journal[n + 1].kind)
      <3>1. CASE n = 0
        BY <3>1 DEF JournalIsLegal, CreatedEvent, DetailsOf, VariantKinds
      <3>2. CASE n # 0
        <4>1. n + 1 \in 2 .. Len(journal)
          BY <2>1, <3>2
        <4>2. KindAgrees(journal[n + 1])
          BY <4>1, AppliesFacts DEF JournalIsLegal
        <4> QED BY <4>2 DEF KindAgrees
      <3> QED BY <3>1, <3>2
    <2> QED BY <2>1, <2>2, <2>3, ProjectType
  <1> HIDE DEF S
  <1>4. Len(journal) \in S
    BY <1>2, <1>3, SetInduction
  <1> QED BY <1>1, <1>4 DEF S

\* What an append leaves of a sequence is that sequence.
LEMMA AppendKeeps ==
  ASSUME NEW S, NEW s \in Seq(S), NEW e \in S, NEW t, t = Append(s, e)
  PROVE  Len(t) = Len(s) + 1 /\ SubSeq(t, 1, Len(s)) = s
  <1>1. Len(s) \in Nat /\ t \in Seq(S) /\ Len(t) = Len(s) + 1 /\ \A n \in 1 .. Len(s) : t[n] = s[n]
    OBVIOUS
  <1> DEFINE u == SubSeq(t, 1, Len(s))
  <1>2. u \in Seq(S) /\ Len(u) = Len(s) /\ \A n \in 1 .. Len(s) : u[n] = t[n]
    BY <1>1
  <1>3. u = s
    <2> HIDE DEF u
    <2> QED BY <1>1, <1>2, SeqEqual
  <1> QED BY <1>1, <1>3

-----------------------------------------------------------------------------
(* What readers and writers know of the reduction *)

\* Cache and views: what is stored or was read is behind the journal, and what
\* the holder of the lock is about to store is level with it.
ProjectionFollows ==
  /\ cache # None => cache \in States /\ cache.sequence < Len(journal)
  /\ \A p \in Procs :
       /\ pc[p] = "read" => view[p] \in States /\ view[p].sequence < Len(journal)
       /\ pc[p] = "project" => journal # <<>>
       /\ pc[p] = "store" => view[p] \in States /\ view[p].sequence = Len(journal) - 1
  /\ view \in [Procs -> States \union {None}]

LEMMA InitProjection == Init => ProjectionFollows
  BY DEF Init, ProjectionFollows

\* A step that leaves journal and cache alone, and takes its process nowhere the
\* invariant speaks of unless it can.
LEMMA MoveProjection ==
  ASSUME Inv, ProjectionFollows, NEW p \in Procs, UNCHANGED <<journal, cache>>,
         NEW step, pc' = [pc EXCEPT ![p] = step], step \notin {"read", "store"},
         step = "project" => journal # <<>>,
         view' \in {view, [view EXCEPT ![p] = None]}
  PROVE  ProjectionFollows'
  <1>1. pc \in [Procs -> Steps] /\ view \in [Procs -> States \union {None}]
    BY DEF Inv, ShapeOK, ProjectionFollows
  <1>2. view' \in [Procs -> States \union {None}]
    BY <1>1
  <1>3. ASSUME NEW q \in Procs
        PROVE  /\ pc'[q] = "read" => view'[q] \in States /\ view'[q].sequence < Len(journal)
               /\ pc'[q] = "project" => journal # <<>>
               /\ pc'[q] = "store" => view'[q] \in States /\ view'[q].sequence = Len(journal) - 1
    <2>1. CASE q = p
      BY <1>1, <2>1
    <2>2. CASE q # p
      <3>1. pc'[q] = pc[q] /\ view'[q] = view[q]
        BY <1>1, <2>2
      <3> QED BY <3>1 DEF ProjectionFollows
    <2> QED BY <2>1, <2>2
  <1> QED BY <1>2, <1>3 DEF ProjectionFollows

LEMMA CommitProjection ==
  ASSUME Inv, ProjectionFollows, NEW p \in Procs, CommitEvent(p)
  PROVE  ProjectionFollows'
  <1>1. /\ pc[p] = "append" /\ journal' = Append(journal, pending[p])
        /\ pc' = [pc EXCEPT ![p] = "project"] /\ UNCHANGED <<cache, view>>
    BY DEF CommitEvent, Goto
  <1>2. /\ journal \in Seq(Events) /\ pc \in [Procs -> Steps]
        /\ \A q \in Procs : pc[q] \in Locked <=> lock = q
    BY DEF Inv, ShapeOK, LockIsHeld
  <1>3. Len(journal) \in Nat /\ Len(journal') = Len(journal) + 1 /\ journal' # <<>>
    BY <1>1, <1>2
  <1>4. \A q \in Procs : q # p => pc'[q] = pc[q] /\ pc[q] # "store"
    BY <1>1, <1>2 DEF Locked
  <1>5. \A s \in States : s.sequence \in Nat
    BY DEF States
  <1>6. cache' # None => cache' \in States /\ cache'.sequence < Len(journal')
    BY <1>1, <1>3, <1>5 DEF ProjectionFollows
  <1>7. ASSUME NEW q \in Procs
        PROVE  /\ pc'[q] = "read" => view'[q] \in States /\ view'[q].sequence < Len(journal')
               /\ pc'[q] = "project" => journal' # <<>>
               /\ pc'[q] # "store"
    <2>1. pc'[p] = "project"
      BY <1>1, <1>2
    <2>2. CASE q = p
      BY <1>3, <2>1, <2>2
    <2>3. CASE q # p
      <3>1. pc'[q] = "read" => view'[q] \in States /\ view'[q].sequence < Len(journal)
        BY <1>1, <1>4, <2>3 DEF ProjectionFollows
      <3> QED BY <1>3, <1>4, <1>5, <2>3, <3>1
    <2> QED BY <2>2, <2>3
  <1>8. view' \in [Procs -> States \union {None}]
    BY <1>1 DEF ProjectionFollows
  <1> QED BY <1>6, <1>7, <1>8 DEF ProjectionFollows

LEMMA ReduceProjection ==
  ASSUME Inv, ProjectionFollows, NEW p \in Procs, ReduceJournal(p)
  PROVE  ProjectionFollows'
  <1>1. /\ pc[p] = "project" /\ view' = [view EXCEPT ![p] = ReduceEvents(journal)]
        /\ pc' = [pc EXCEPT ![p] = "store"] /\ UNCHANGED <<journal, cache>>
    BY DEF ReduceJournal, Goto, files
  <1>2. /\ journal \in Seq(Events) /\ JournalIsLegal /\ pc \in [Procs -> Steps]
        /\ journal # <<>> /\ view \in [Procs -> States \union {None}]
    BY <1>1 DEF Inv, ShapeOK, ProjectionFollows
  <1>3. ReduceEvents(journal) \in States /\ ReduceEvents(journal).sequence = Len(journal) - 1
    BY <1>2, ReductionType, ReductionShowsTheLast, LegalSequences
  <1>4. ASSUME NEW q \in Procs
        PROVE  /\ pc'[q] = "read" => view'[q] \in States /\ view'[q].sequence < Len(journal)
               /\ pc'[q] = "project" => journal # <<>>
               /\ pc'[q] = "store" => view'[q] \in States /\ view'[q].sequence = Len(journal) - 1
    <2>1. CASE q = p
      BY <1>1, <1>2, <1>3, <2>1
    <2>2. CASE q # p
      <3>1. pc'[q] = pc[q] /\ view'[q] = view[q]
        BY <1>1, <1>2, <2>2
      <3> QED BY <3>1 DEF ProjectionFollows
    <2> QED BY <2>1, <2>2
  <1>5. view' \in [Procs -> States \union {None}]
    BY <1>1, <1>2, <1>3
  <1> QED BY <1>1, <1>4, <1>5 DEF ProjectionFollows

LEMMA StoreProjectionFollows ==
  ASSUME Inv, ProjectionFollows, NEW p \in Procs, StoreProjection(p)
  PROVE  /\ ProjectionFollows'
         /\ cache' \in States /\ cache'.sequence = Len(journal) - 1
  <1>1. /\ pc[p] = "store" /\ cache' = view[p] /\ view' = [view EXCEPT ![p] = None]
        /\ pc' = [pc EXCEPT ![p] = "idle"] /\ UNCHANGED journal
    BY DEF StoreProjection, Goto
  <1>2. /\ journal \in Seq(Events) /\ pc \in [Procs -> Steps]
        /\ view \in [Procs -> States \union {None}]
    BY DEF Inv, ShapeOK, ProjectionFollows
  <1>3. cache' \in States /\ cache'.sequence = Len(journal) - 1
    BY <1>1 DEF ProjectionFollows
  <1>4. cache'.sequence < Len(journal)
    BY <1>2, <1>3
  <1>5. ASSUME NEW q \in Procs
        PROVE  /\ pc'[q] = "read" => view'[q] \in States /\ view'[q].sequence < Len(journal)
               /\ pc'[q] = "project" => journal # <<>>
               /\ pc'[q] = "store" => view'[q] \in States /\ view'[q].sequence = Len(journal) - 1
    <2>1. CASE q = p
      BY <1>1, <1>2, <2>1
    <2>2. CASE q # p
      <3>1. pc'[q] = pc[q] /\ view'[q] = view[q]
        BY <1>1, <1>2, <2>2
      <3> QED BY <3>1 DEF ProjectionFollows
    <2> QED BY <2>1, <2>2
  <1>6. view' \in [Procs -> States \union {None}]
    BY <1>1, <1>2
  <1> QED BY <1>1, <1>3, <1>4, <1>5, <1>6 DEF ProjectionFollows

LEMMA ReadProjection ==
  ASSUME Inv, ProjectionFollows, NEW p \in Procs, ReadCache(p)
  PROVE  ProjectionFollows'
  <1>1. /\ view' = [view EXCEPT ![p] = cache] /\ UNCHANGED <<journal, cache>>
        /\ pc' = [pc EXCEPT ![p] = IF cache = None THEN "rebuild" ELSE "read"]
    BY DEF ReadCache, Goto, files
  <1>2. /\ pc \in [Procs -> Steps] /\ view \in [Procs -> States \union {None}]
        /\ cache \in States \union {None}
    BY DEF Inv, ShapeOK, ProjectionFollows
  <1>3. ASSUME NEW q \in Procs
        PROVE  /\ pc'[q] = "read" => view'[q] \in States /\ view'[q].sequence < Len(journal)
               /\ pc'[q] = "project" => journal # <<>>
               /\ pc'[q] = "store" => view'[q] \in States /\ view'[q].sequence = Len(journal) - 1
    <2>1. CASE q = p
      BY <1>1, <1>2, <2>1 DEF ProjectionFollows
    <2>2. CASE q # p
      <3>1. pc'[q] = pc[q] /\ view'[q] = view[q]
        BY <1>1, <1>2, <2>2
      <3> QED BY <3>1 DEF ProjectionFollows
    <2> QED BY <2>1, <2>2
  <1>4. view' \in [Procs -> States \union {None}]
    BY <1>1, <1>2
  <1> QED BY <1>1, <1>3, <1>4 DEF ProjectionFollows

LEMMA StepProjection ==
  ASSUME Inv, ProjectionFollows, [Next]_vars
  PROVE  ProjectionFollows'
  <1>1. CASE UNCHANGED vars
    BY <1>1 DEF vars, ProjectionFollows
  <1>2. ASSUME NEW p \in Procs, Call(p) PROVE ProjectionFollows'
    <2>1. CASE ReadCache(p)
      BY <2>1, ReadProjection
    <2>2. CASE Create(p)
      BY <2>2, MoveProjection DEF Create, Goto
    <2>3. ASSUME NEW kind \in AppendedKinds, NEW phase \in Phases \union {None},
                 NEW detail \in DetailsOf(kind), AppendEvent(p, phase, kind, detail)
          PROVE  ProjectionFollows'
      BY <2>3, MoveProjection DEF AppendEvent, Prepare, Goto, files
    <2>4. CASE RequestCancel(p)
      BY <2>4, MoveProjection DEF RequestCancel, Prepare, Goto, files
    <2>5. ASSUME NEW pid \in Pids, WritePid(p, pid) PROVE ProjectionFollows'
      BY <2>5, MoveProjection DEF WritePid, Prepare, Goto, files
    <2>6. ASSUME NEW digest \in Digests, WriteResult(p, digest) PROVE ProjectionFollows'
      BY <2>6, MoveProjection DEF WriteResult, Prepare, Goto, files
    <2>7. CASE WriteHeartbeat(p)
      BY <2>7, MoveProjection DEF WriteHeartbeat, Goto
    <2>8. CASE AskRebuild(p)
      BY <2>8, MoveProjection DEF AskRebuild, Goto, files
    <2> QED BY <1>2, <2>1, <2>2, <2>3, <2>4, <2>5, <2>6, <2>7, <2>8 DEF Call
  <1>3. ASSUME NEW p \in Procs, Continue(p) PROVE ProjectionFollows'
    <2>1. CASE WritePidFile(p)
      BY <2>1, MoveProjection DEF WritePidFile, Goto
    <2>2. CASE WriteReport(p)
      BY <2>2, MoveProjection DEF WriteReport, Goto
    <2>3. CASE CommitEvent(p)
      BY <2>3, CommitProjection
    <2>4. CASE ReduceJournal(p)
      BY <2>4, ReduceProjection
    <2>5. CASE StoreProjection(p)
      BY <2>5, StoreProjectionFollows
    <2>6. CASE CompareWithJournal(p)
      <3> DEFINE step == IF view[p].sequence < ReduceEvents(journal).sequence
                         THEN "rebuild" ELSE "idle"
      <3>1. step \in {"idle", "rebuild"}
        OBVIOUS
      <3>2. /\ pc' = [pc EXCEPT ![p] = step] /\ view' = [view EXCEPT ![p] = None]
            /\ UNCHANGED <<journal, cache>>
        BY <2>6 DEF CompareWithJournal, Goto, files
      <3> HIDE DEF step
      <3> QED BY <3>1, <3>2, MoveProjection
    <2>7. CASE RebuildState(p)
      BY <2>7, MoveProjection DEF RebuildState, Goto, files
    <2> QED BY <1>3, <2>1, <2>2, <2>3, <2>4, <2>5, <2>6, <2>7 DEF Continue
  <1>4. ASSUME NEW p \in Procs, Crash(p) PROVE ProjectionFollows'
    BY <1>4, MoveProjection DEF Crash, Goto, files
  <1> QED BY <1>1, <1>2, <1>3, <1>4 DEF Next

\* What is known of cache and views holds in every reachable state.
THEOREM ProjectionInvariance == Spec => []ProjectionFollows
  BY InitInv, NextInv, InitProjection, StepProjection, PTL DEF Spec

\* state() never meets a journal behind the cache it has read.
THEOREM ReadersAreNeverAhead == Spec => []ReaderNeverAhead
  <1>1. ProjectionFollows => ReaderNeverAhead
    BY DEF ProjectionFollows, ReaderNeverAhead
  <1> QED BY <1>1, ProjectionInvariance, PTL

\* The journal is only appended to, and state.json is never replaced by an older
\* state, whoever was interrupted and whoever rebuilt it.
THEOREM HistoriesOnlyGrow == Spec => HistoryOnlyGrows
  <1> DEFINE Grows ==
               /\ \/ journal' = journal
                  \/ /\ Len(journal') = Len(journal) + 1
                     /\ SubSeq(journal', 1, Len(journal)) = journal
               /\ cache # None => cache' # None /\ cache'.sequence >= cache.sequence
  <1>1. ASSUME Inv, ProjectionFollows, [Next]_vars PROVE [Grows]_vars
    <2>1. \A s \in States : s.sequence \in Nat
      BY DEF States
    <2>2. cache # None => cache.sequence \in Nat /\ cache.sequence < Len(journal)
      BY <1>1, <2>1 DEF ProjectionFollows
    <2>3. ASSUME UNCHANGED <<journal, cache>> PROVE Grows
      BY <2>2, <2>3
    <2>4. CASE UNCHANGED vars
      BY <2>4 DEF vars
    <2>5. ASSUME NEW p \in Procs, Call(p) PROVE UNCHANGED <<journal, cache>>
      BY <2>5 DEF Call, Create, AppendEvent, RequestCancel, WritePid, WriteResult,
                  WriteHeartbeat, ReadCache, AskRebuild, files
    <2>6. ASSUME NEW p \in Procs, CommitEvent(p) PROVE Grows
      <3>1. /\ journal' = Append(journal, pending[p]) /\ UNCHANGED cache
            /\ journal \in Seq(Events) /\ pending[p] \in Events
        BY <1>1, <2>6 DEF CommitEvent, Inv, ShapeOK, PreparedFollows
      <3> DEFINE event == pending[p]
      <3>2. journal' = Append(journal, event) /\ event \in Events /\ journal \in Seq(Events)
        BY <3>1
      <3> HIDE DEF event
      <3>3. Len(journal') = Len(journal) + 1 /\ SubSeq(journal', 1, Len(journal)) = journal
        BY <3>2, AppendKeeps
      <3>4. cache # None => cache' # None /\ cache'.sequence >= cache.sequence
        BY <2>2, <3>1
      <3> QED BY <3>3, <3>4, Zenon
    <2>7. ASSUME NEW p \in Procs, StoreProjection(p) PROVE Grows
      <3>1. cache' \in States /\ cache'.sequence = Len(journal) - 1 /\ UNCHANGED journal
        BY <1>1, <2>7, StoreProjectionFollows DEF StoreProjection
      <3>2. cache' # None
        BY <3>1, NoneIsNoState
      <3>3. Len(journal) \in Nat
        BY <1>1 DEF Inv, ShapeOK
      <3>4. cache # None => cache'.sequence >= cache.sequence
        BY <2>2, <3>1, <3>3
      <3> QED BY <3>1, <3>2, <3>4
    <2>8. ASSUME NEW p \in Procs, Continue(p), ~CommitEvent(p), ~StoreProjection(p)
          PROVE  UNCHANGED <<journal, cache>>
      BY <2>8 DEF Continue, WritePidFile, WriteReport, ReduceJournal, CompareWithJournal,
                  RebuildState, files
    <2>9. ASSUME NEW p \in Procs, Crash(p) PROVE UNCHANGED <<journal, cache>>
      BY <2>9 DEF Crash, files
    <2> HIDE DEF Grows
    <2> QED BY <1>1, <2>3, <2>4, <2>5, <2>6, <2>7, <2>8, <2>9 DEF Next
  <1> QED BY <1>1, InitInv, NextInv, InitProjection, StepProjection, PTL
          DEF Spec, HistoryOnlyGrows

\* Every journal of the store is one that a replay from its first event accepts:
\* each event applies to what the events before it reduce to.
THEOREM JournalsReplay == Spec => [](journal # <<>> => Readable(journal))
  <1>1. ASSUME Inv, journal # <<>> PROVE Readable(journal)
    <2>1. journal \in Seq(Events) /\ JournalIsLegal
      BY <1>1 DEF Inv, ShapeOK
    <2>2. ASSUME NEW n \in 2 .. Len(journal)
          PROVE  Applies(ReduceEvents(SubSeq(journal, 1, n - 1)), journal[n])
      <3> DEFINE before == SubSeq(journal, 1, n - 1)
      <3>1. n - 1 \in 1 .. Len(journal) /\ n - 1 \in Nat \ {0}
        BY <2>1
      <3>2. Len(before) = n - 1 /\ before[n - 1] = journal[n - 1]
        BY <2>1, <3>1
      <3>3. /\ ReduceEvents(before).sequence = journal[n - 1].sequence
            /\ ReduceEvents(before).phase = journal[n - 1].phase
        <4> HIDE DEF before
        <4> QED BY <3>1, <3>2, ReductionShowsTheLast
      <3>4. journal[n - 1].sequence = n - 2
        <4>1. CASE n = 2
          BY <1>1, <2>1, <4>1 DEF JournalIsLegal, CreatedEvent
        <4>2. CASE n # 2
          <5>1. n - 1 \in 2 .. Len(journal)
            BY <3>1, <4>2
          <5>2. journal[n - 1].sequence = ((n - 1) - 2) + 1
            BY <1>1, <2>1, <5>1, AppliesFacts DEF JournalIsLegal
          <5> QED BY <3>1, <5>2
        <4> QED BY <4>1, <4>2
      <3>5. Applies([sequence |-> n - 2, phase |-> journal[n - 1].phase], journal[n])
        BY <1>1, <2>1 DEF JournalIsLegal
      <3> HIDE DEF before
      <3> QED BY <3>3, <3>4, <3>5 DEF Applies, before
    <2> QED BY <1>1, <2>1, <2>2 DEF Readable, JournalIsLegal
  <1> QED BY <1>1, Invariance, PTL
=============================================================================
