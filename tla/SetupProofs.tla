----------------------------- MODULE SetupProofs -----------------------------
(***************************************************************************)
(* Proofs about the commands that make a machine ready, for any number of  *)
(* them, on any hosts and with any bounds on what is killed or fails.      *)
(*                                                                         *)
(* What an engine's directory holds follows from the step its installer is *)
(* at, which only the holder of the install lock can take: the inductive   *)
(* invariant says which half of an engine each of those steps finds.  The  *)
(* identity needs no lock: the private half is created exclusively, and    *)
(* whoever created it is the only command that ever writes either half.    *)
(***************************************************************************)
EXTENDS Setup, FiniteSetTheorems, FunctionTheorems, WellFoundedInduction, TLAPS

Places == {"idle", "locking", "discard", "look", "clear", "copy", "sync", "check",
           "undo", "record", "unmark", "activate", "rehash", "query",
           "identity", "create", "write", "publish", "pair", "sign"} \cup Ended

\* The steps an installation makes under the install lock.
Installing == {"discard", "look", "clear", "copy", "sync", "check", "undo",
               "record", "unmark"}

\* The steps a setup makes once it has made the engine active.
Activated == {"rehash", "query", "identity", "create", "write", "publish",
              "pair", "sign", "done"}

PlacesOK == pc \in [Commands -> Places]

InstallersHoldTheLock == \A p \in Commands : pc[p] \in Installing => lock = p

\* What each step of an installation finds: the one that copies starts from
\* nothing, and no step but the last sees a record.
InstallersKnow ==
    \A p \in Commands :
        /\ At(p, "copy") => engine.bundle # "whole" /\ engine.venv = "absent"
        /\ At(p, "sync") => engine.bundle = "whole" /\ engine.venv \in {"absent", "part"}
        /\ At(p, "check") => engine.bundle = "whole" /\ engine.venv = "whole"
        /\ pc[p] \in {"record", "unmark"} =>
              engine.bundle = "whole" /\ engine.venv \in {"whole", "broken"}
        /\ pc[p] \in {"copy", "sync", "check", "undo", "record"} => marker /\ ~Recorded
        /\ At(p, "unmark") => Recorded

\* Unless an environment was doubted, a recorded engine is whole and stays.
RecordedIsWhole ==
    \/ doubted
    \/ /\ Recorded => Whole
       /\ engine.venv # "broken"
       /\ \A p \in Commands : At(p, "clear") => ~Recorded

ActivatedIsRecorded ==
    \A p \in Commands :
        kind[p] = "setup" /\ pc[p] \in Activated => active /\ (Recorded \/ doubted)

\* A key has one writer, and the public half describes a key that was written.
KeyHasOneWriter ==
    /\ \A p \in Commands :
           /\ pc[p] \in {"write", "publish"} => key # None /\ key.owner = p
           /\ At(p, "publish") => key.written
    /\ public # None => key # None /\ PairVerifies

\* Whoever goes on with an identity found one.
IdentityIsFound ==
    \A p \in Commands :
        \/ pc[p] \in {"pair", "sign"}
        \/ kind[p] = "setup" /\ At(p, "done")
        => public # None

Inv ==
    /\ TypeOK
    /\ PlacesOK
    /\ InstallersHoldTheLock
    /\ InstallersKnow
    /\ EngineIsWholeOrAnnounced
    /\ RecordedIsWhole
    /\ ActivatedIsRecorded
    /\ KeyHasOneWriter
    /\ IdentityIsFound
    /\ ReceiptsStayVerifiable

----------------------------------------------------------------------------
(* Lemmas *)

\* A removal takes one piece and leaves the others as they were.
LEMMA Removal ==
  ASSUME TypeOK, RemovePiece
  PROVE  /\ engine' \in [bundle : Parts, venv : Parts \cup {"broken"}, record : BOOLEAN]
         /\ Recorded' => Recorded
         /\ engine'.venv = "broken" => engine.venv = "broken"
  <1>1. DOMAIN engine = {"bundle", "venv", "record"}
    BY DEF TypeOK
  <1>2. PICK piece \in {"bundle", "venv", "record"} :
          engine' = [engine EXCEPT ![piece] = NoEngine[piece]]
    BY <1>1 DEF RemovePiece
  <1>3. \/ engine' = [engine EXCEPT !.bundle = "absent"]
        \/ engine' = [engine EXCEPT !.venv = "absent"]
        \/ engine' = [engine EXCEPT !.record = FALSE]
    <2>1. /\ NoEngine["bundle"] = "absent" /\ NoEngine["venv"] = "absent"
          /\ NoEngine["record"] = FALSE
      BY DEF NoEngine
    <2>2. CASE piece = "bundle"
      BY <1>2, <2>1, <2>2
    <2>3. CASE piece = "venv"
      BY <1>2, <2>1, <2>3
    <2>4. CASE piece = "record"
      BY <1>2, <2>1, <2>4
    <2> QED BY <2>2, <2>3, <2>4
  <1> QED BY <1>3 DEF TypeOK, Parts, Recorded

\* A part grows until it is whole.
LEMMA Growth ==
  ASSUME TypeOK, NEW piece \in {"bundle", "venv"}, engine[piece] # "broken",
         engine' = [engine EXCEPT ![piece] = NextPart(@)]
  PROVE  /\ engine' \in [bundle : Parts, venv : Parts \cup {"broken"}, record : BOOLEAN]
         /\ engine'[piece] \in {"part", "whole"}
         /\ Recorded' = Recorded
         /\ piece = "bundle" => engine'.venv = engine.venv
         /\ piece = "venv" => engine'.bundle = engine.bundle
  <1>1. CASE piece = "bundle"
    <2>1. engine' = [engine EXCEPT !.bundle = NextPart(engine.bundle)]
      BY <1>1
    <2> QED BY <1>1, <2>1 DEF TypeOK, Parts, Recorded, NextPart
  <1>2. CASE piece = "venv"
    <2>1. engine' = [engine EXCEPT !.venv = NextPart(engine.venv)]
      BY <1>2
    <2> QED BY <1>2, <2>1 DEF TypeOK, Parts, Recorded, NextPart
  <1> QED BY <1>1, <1>2

LEMMA InitInv == Init => Inv
  <1> SUFFICES ASSUME Init PROVE Inv
    OBVIOUS
  <1>1. TypeOK
    <2>1. engine \in [bundle : Parts, venv : Parts \cup {"broken"}, record : BOOLEAN]
      BY DEF Init, NoEngine, Parts
    <2>2. /\ machine \in Machines /\ kind \in [Commands -> Kinds]
          /\ marker \in BOOLEAN /\ active \in BOOLEAN
          /\ torn \in BOOLEAN /\ doubted \in BOOLEAN
      BY DEF Init
    <2>3. /\ lock \in Commands \cup {None} /\ public \in Commands \cup {None}
          /\ key \in {None} \cup [owner : Commands, written : BOOLEAN]
          /\ signed \subseteq [under : Commands, names : Commands]
      BY DEF Init
    <2>4. crashes \in 0..MaxCrashes /\ faults \in 0..MaxFaults
      BY SetupAssumption DEF Init
    <2> QED BY <2>1, <2>2, <2>3, <2>4 DEF TypeOK
  <1>2. PlacesOK
    BY DEF Init, PlacesOK, Places
  <1>3. InstallersHoldTheLock /\ InstallersKnow
    BY DEF Init, InstallersHoldTheLock, Installing, InstallersKnow, At
  <1>4. EngineIsWholeOrAnnounced /\ RecordedIsWhole
    BY DEF Init, EngineIsWholeOrAnnounced, Empty, RecordedIsWhole, Recorded, NoEngine, At
  <1>5. ActivatedIsRecorded /\ IdentityIsFound
    BY DEF Init, ActivatedIsRecorded, Activated, IdentityIsFound, At
  <1>6. KeyHasOneWriter /\ ReceiptsStayVerifiable
    BY DEF Init, KeyHasOneWriter, At, ReceiptsStayVerifiable
  <1> QED BY <1>1, <1>2, <1>3, <1>4, <1>5, <1>6 DEF Inv

\* Every step of a command, every crash and every upgrade keeps the invariant.
LEMMA StepInv == Inv /\ [Next]_vars => Inv'
  <1> SUFFICES ASSUME Inv, [Next]_vars PROVE Inv'
    OBVIOUS
  <1> USE DEF Inv
  <1>1. CASE UNCHANGED vars
    BY <1>1 DEF vars, identity, history, budgets, fixed, Ended, TypeOK,
       PlacesOK, Places, Ended, InstallersHoldTheLock, Installing,
       InstallersKnow, Recorded, At, EngineIsWholeOrAnnounced, Empty, NoEngine,
       RecordedIsWhole, Whole, ActivatedIsRecorded, Activated, KeyHasOneWriter,
       PairVerifies, IdentityIsFound, ReceiptsStayVerifiable
  <1>2. ASSUME NEW p \in Commands, Start(p) PROVE Inv'
    <2>1. TypeOK'
      BY <1>2 DEF Start, At, FirstStep, Goto, identity, history, budgets,
         fixed, TypeOK
    <2>2. PlacesOK'
      BY <1>2 DEF Start, At, FirstStep, Goto, identity, history, budgets,
         fixed, TypeOK, PlacesOK, Places, Ended, Kinds
    <2>3. InstallersHoldTheLock'
      BY <1>2 DEF Start, At, FirstStep, Goto, identity, history, budgets,
         fixed, TypeOK, InstallersHoldTheLock, Installing, Kinds
    <2>4. InstallersKnow'
      BY <1>2 DEF Start, At, FirstStep, Goto, identity, history, budgets,
         fixed, TypeOK, InstallersKnow, Recorded, Kinds
    <2>5. EngineIsWholeOrAnnounced'
      BY <1>2 DEF Start, At, FirstStep, Goto, identity, history, budgets,
         fixed, TypeOK, EngineIsWholeOrAnnounced, Empty, NoEngine, Recorded
    <2>6. RecordedIsWhole'
      BY <1>2 DEF Start, At, FirstStep, Goto, identity, history, budgets,
         fixed, TypeOK, RecordedIsWhole, Recorded, Whole, Kinds
    <2>7. ActivatedIsRecorded'
      BY <1>2 DEF Start, At, FirstStep, Goto, identity, history, budgets,
         fixed, TypeOK, ActivatedIsRecorded, Activated, Recorded
    <2>8. KeyHasOneWriter'
      BY <1>2 DEF Start, At, FirstStep, Goto, identity, history, budgets,
         fixed, TypeOK, KeyHasOneWriter, PairVerifies, Kinds
    <2>9. IdentityIsFound'
      BY <1>2 DEF Start, At, FirstStep, Goto, identity, history, budgets,
         fixed, TypeOK, IdentityIsFound, Kinds
    <2>10. ReceiptsStayVerifiable'
      BY <1>2 DEF Start, At, FirstStep, Goto, identity, history, budgets,
         fixed, ReceiptsStayVerifiable
    <2> QED BY <2>1, <2>2, <2>3, <2>4, <2>5, <2>6, <2>7, <2>8, <2>9, <2>10
  <1>3. ASSUME NEW p \in Commands, AcquireLock(p) PROVE Inv'
    <2>1. TypeOK'
      BY <1>3 DEF AcquireLock, At, Goto, identity, history, budgets, fixed,
         TypeOK
    <2>2. PlacesOK'
      BY <1>3 DEF AcquireLock, At, Goto, identity, history, budgets, fixed,
         TypeOK, PlacesOK, Places, Ended
    <2>3. InstallersHoldTheLock'
      BY <1>3, SetupAssumption DEF AcquireLock, At, Goto, identity, history,
         budgets, fixed, TypeOK, InstallersHoldTheLock, Installing
    <2>4. InstallersKnow'
      BY <1>3 DEF AcquireLock, At, Goto, identity, history, budgets, fixed,
         TypeOK, InstallersKnow, Recorded
    <2>5. EngineIsWholeOrAnnounced'
      BY <1>3, SetupAssumption DEF AcquireLock, At, Goto, identity, history,
         budgets, fixed, TypeOK, EngineIsWholeOrAnnounced, Empty, NoEngine,
         Recorded
    <2>6. RecordedIsWhole'
      BY <1>3 DEF AcquireLock, At, Goto, identity, history, budgets, fixed,
         TypeOK, RecordedIsWhole, Recorded, Whole
    <2>7. ActivatedIsRecorded'
      BY <1>3 DEF AcquireLock, At, Goto, identity, history, budgets, fixed,
         TypeOK, ActivatedIsRecorded, Activated, Recorded
    <2>8. KeyHasOneWriter'
      BY <1>3 DEF AcquireLock, At, Goto, identity, history, budgets, fixed,
         TypeOK, KeyHasOneWriter, PairVerifies
    <2>9. IdentityIsFound'
      BY <1>3 DEF AcquireLock, At, Goto, identity, history, budgets, fixed,
         TypeOK, IdentityIsFound
    <2>10. ReceiptsStayVerifiable'
      BY <1>3 DEF AcquireLock, At, Goto, identity, history, budgets, fixed,
         ReceiptsStayVerifiable
    <2> QED BY <2>1, <2>2, <2>3, <2>4, <2>5, <2>6, <2>7, <2>8, <2>9, <2>10
  <1>4. ASSUME NEW p \in Commands, LockTimeout(p) PROVE Inv'
    <2>1. TypeOK'
      BY <1>4 DEF LockTimeout, At, Goto, identity, history, budgets, fixed,
         TypeOK
    <2>2. PlacesOK'
      BY <1>4 DEF LockTimeout, At, Goto, identity, history, budgets, fixed,
         TypeOK, PlacesOK, Places, Ended
    <2>3. InstallersHoldTheLock'
      BY <1>4 DEF LockTimeout, At, Goto, identity, history, budgets, fixed,
         TypeOK, InstallersHoldTheLock, Installing
    <2>4. InstallersKnow'
      BY <1>4 DEF LockTimeout, At, Goto, identity, history, budgets, fixed,
         TypeOK, InstallersKnow, Recorded
    <2>5. EngineIsWholeOrAnnounced'
      BY <1>4 DEF LockTimeout, At, Goto, identity, history, budgets, fixed,
         TypeOK, EngineIsWholeOrAnnounced, Empty, NoEngine, Recorded
    <2>6. RecordedIsWhole'
      BY <1>4 DEF LockTimeout, At, Goto, identity, history, budgets, fixed,
         TypeOK, RecordedIsWhole, Recorded, Whole
    <2>7. ActivatedIsRecorded'
      BY <1>4 DEF LockTimeout, At, Goto, identity, history, budgets, fixed,
         TypeOK, ActivatedIsRecorded, Activated, Recorded
    <2>8. KeyHasOneWriter'
      BY <1>4 DEF LockTimeout, At, Goto, identity, history, budgets, fixed,
         TypeOK, KeyHasOneWriter, PairVerifies
    <2>9. IdentityIsFound'
      BY <1>4 DEF LockTimeout, At, Goto, identity, history, budgets, fixed,
         TypeOK, IdentityIsFound
    <2>10. ReceiptsStayVerifiable'
      BY <1>4 DEF LockTimeout, At, Goto, identity, history, budgets, fixed,
         ReceiptsStayVerifiable
    <2> QED BY <2>1, <2>2, <2>3, <2>4, <2>5, <2>6, <2>7, <2>8, <2>9, <2>10
  <1>5. ASSUME NEW p \in Commands, DiscardInterrupted(p) PROVE Inv'
    <2>1. RemovePiece =>
            /\ engine' \in [bundle : Parts, venv : Parts \cup {"broken"}, record : BOOLEAN]
            /\ Recorded' => Recorded
            /\ engine'.venv = "broken" => engine.venv = "broken"
      BY Removal
    <2>2. TypeOK'
      BY <1>5, <2>1 DEF DiscardInterrupted, At, Goto, Interrupted, identity,
         history, budgets, fixed, TypeOK
    <2>3. PlacesOK'
      BY <1>5, <2>1 DEF DiscardInterrupted, At, Goto, Interrupted, identity,
         history, budgets, fixed, TypeOK, PlacesOK, Places, Ended
    <2>4. InstallersHoldTheLock'
      BY <1>5, <2>1 DEF DiscardInterrupted, At, Goto, Interrupted, identity,
         history, budgets, fixed, TypeOK, InstallersHoldTheLock, Installing,
         PlacesOK, Places, Ended
    <2>5. InstallersKnow'
      BY <1>5, <2>1 DEF DiscardInterrupted, At, Goto, Interrupted, identity,
         history, budgets, fixed, TypeOK, InstallersKnow, Recorded, PlacesOK,
         Places, Ended, InstallersHoldTheLock, Installing
    <2>6. EngineIsWholeOrAnnounced'
      BY <1>5, <2>1 DEF DiscardInterrupted, At, Goto, Interrupted, identity,
         history, budgets, fixed, TypeOK, EngineIsWholeOrAnnounced, Empty,
         NoEngine, Recorded, PlacesOK, Places, Ended
    <2>7. RecordedIsWhole'
      BY <1>5, <2>1 DEF DiscardInterrupted, At, Goto, Interrupted, identity,
         history, budgets, fixed, TypeOK, RecordedIsWhole, Recorded, Whole,
         PlacesOK, Places, Ended
    <2>8. ActivatedIsRecorded'
      BY <1>5, <2>1 DEF DiscardInterrupted, At, Goto, Interrupted, identity,
         history, budgets, fixed, TypeOK, ActivatedIsRecorded, Activated,
         Recorded, PlacesOK, Places, Ended
    <2>9. KeyHasOneWriter'
      BY <1>5, <2>1 DEF DiscardInterrupted, At, Goto, Interrupted, identity,
         history, budgets, fixed, TypeOK, KeyHasOneWriter, PairVerifies,
         PlacesOK, Places, Ended
    <2>10. IdentityIsFound'
      BY <1>5, <2>1 DEF DiscardInterrupted, At, Goto, Interrupted, identity,
         history, budgets, fixed, TypeOK, IdentityIsFound, PlacesOK, Places,
         Ended
    <2>11. ReceiptsStayVerifiable'
      BY <1>5, <2>1 DEF DiscardInterrupted, At, Goto, Interrupted, identity,
         history, budgets, fixed, ReceiptsStayVerifiable
    <2> QED BY <2>2, <2>3, <2>4, <2>5, <2>6, <2>7, <2>8, <2>9, <2>10, <2>11
  <1>6. ASSUME NEW p \in Commands, Look(p) PROVE Inv'
    <2>1. TypeOK'
      <3>1. lock' \in Commands \cup {None} /\ doubted' \in BOOLEAN
        BY <1>6 DEF Look, TypeOK
      <3>2. faults' \in 0..MaxFaults
        BY <1>6, SetupAssumption DEF Look, Fault, TypeOK
      <3> QED BY <1>6, <3>1, <3>2 DEF Look, identity, fixed, TypeOK
    <2>2. PlacesOK'
      BY <1>6 DEF Look, At, Goto, AfterInstall, Answers, Fault, identity,
         history, budgets, fixed, TypeOK, PlacesOK, Places, Ended
    <2>3. InstallersHoldTheLock'
      BY <1>6 DEF Look, At, Goto, AfterInstall, Answers, Fault, identity,
         history, budgets, fixed, TypeOK, InstallersHoldTheLock, Installing,
         PlacesOK, Places, Ended
    <2>4. InstallersKnow'
      BY <1>6 DEF Look, At, Goto, AfterInstall, Answers, Fault, identity,
         history, budgets, fixed, TypeOK, InstallersKnow, Recorded, PlacesOK,
         Places, Ended
    <2>5. EngineIsWholeOrAnnounced'
      BY <1>6 DEF Look, At, Goto, AfterInstall, Answers, Fault, identity,
         history, budgets, fixed, TypeOK, EngineIsWholeOrAnnounced, Empty,
         NoEngine, Recorded, InstallersHoldTheLock, Installing
    <2>6. RecordedIsWhole'
      BY <1>6 DEF Look, At, Goto, AfterInstall, Answers, Fault, identity,
         history, budgets, fixed, TypeOK, RecordedIsWhole, Recorded, Whole,
         PlacesOK, Places, Ended
    <2>7. ActivatedIsRecorded'
      BY <1>6 DEF Look, At, Goto, AfterInstall, Answers, Fault, identity,
         history, budgets, fixed, TypeOK, ActivatedIsRecorded, Activated,
         Recorded, PlacesOK, Places, Ended
    <2>8. KeyHasOneWriter'
      BY <1>6 DEF Look, At, Goto, AfterInstall, Answers, Fault, identity,
         history, budgets, fixed, TypeOK, KeyHasOneWriter, PairVerifies,
         PlacesOK, Places, Ended
    <2>9. IdentityIsFound'
      BY <1>6 DEF Look, At, Goto, AfterInstall, Answers, Fault, identity,
         history, budgets, fixed, TypeOK, IdentityIsFound, PlacesOK, Places,
         Ended
    <2>10. ReceiptsStayVerifiable'
      BY <1>6 DEF Look, At, Goto, AfterInstall, Answers, Fault, identity,
         history, budgets, fixed, ReceiptsStayVerifiable
    <2> QED BY <2>1, <2>2, <2>3, <2>4, <2>5, <2>6, <2>7, <2>8, <2>9, <2>10
  <1>7. ASSUME NEW p \in Commands, Clear(p) PROVE Inv'
    <2>1. RemovePiece =>
            /\ engine' \in [bundle : Parts, venv : Parts \cup {"broken"}, record : BOOLEAN]
            /\ Recorded' => Recorded
            /\ engine'.venv = "broken" => engine.venv = "broken"
      BY Removal
    <2>2. TypeOK'
      BY <1>7, <2>1 DEF Clear, At, Goto, identity, history, budgets, fixed,
         TypeOK
    <2>3. PlacesOK'
      BY <1>7, <2>1 DEF Clear, At, Goto, identity, history, budgets, fixed,
         TypeOK, PlacesOK, Places, Ended
    <2>4. InstallersHoldTheLock'
      BY <1>7, <2>1 DEF Clear, At, Goto, identity, history, budgets, fixed,
         TypeOK, InstallersHoldTheLock, Installing, PlacesOK, Places, Ended
    <2>5. InstallersKnow'
      BY <1>7, <2>1 DEF Clear, At, Goto, identity, history, budgets, fixed,
         TypeOK, InstallersKnow, Recorded, PlacesOK, Places, Ended,
         InstallersHoldTheLock, Installing, EngineIsWholeOrAnnounced, Empty,
         NoEngine
    <2>6. EngineIsWholeOrAnnounced'
      BY <1>7, <2>1 DEF Clear, At, Goto, identity, history, budgets, fixed,
         TypeOK, EngineIsWholeOrAnnounced, Empty, NoEngine, Recorded,
         InstallersHoldTheLock, Installing
    <2>7. RecordedIsWhole'
      BY <1>7, <2>1 DEF Clear, At, Goto, identity, history, budgets, fixed,
         TypeOK, RecordedIsWhole, Recorded, Whole
    <2>8. ActivatedIsRecorded'
      BY <1>7, <2>1 DEF Clear, At, Goto, identity, history, budgets, fixed,
         TypeOK, ActivatedIsRecorded, Activated, Recorded, PlacesOK, Places,
         Ended, RecordedIsWhole, Whole
    <2>9. KeyHasOneWriter'
      BY <1>7, <2>1 DEF Clear, At, Goto, identity, history, budgets, fixed,
         TypeOK, KeyHasOneWriter, PairVerifies, PlacesOK, Places, Ended
    <2>10. IdentityIsFound'
      BY <1>7, <2>1 DEF Clear, At, Goto, identity, history, budgets, fixed,
         TypeOK, IdentityIsFound, PlacesOK, Places, Ended
    <2>11. ReceiptsStayVerifiable'
      BY <1>7, <2>1 DEF Clear, At, Goto, identity, history, budgets, fixed,
         ReceiptsStayVerifiable
    <2> QED BY <2>2, <2>3, <2>4, <2>5, <2>6, <2>7, <2>8, <2>9, <2>10, <2>11
  <1>8. ASSUME NEW p \in Commands, CopyBundle(p) PROVE Inv'
    <2>1. \/ /\ engine' \in [bundle : Parts, venv : Parts \cup {"broken"}, record : BOOLEAN]
             /\ engine'.bundle \in {"part", "whole"}
             /\ Recorded' = Recorded
             /\ engine'.venv = engine.venv
             /\ Goto(p, IF engine'.bundle = "whole" THEN "sync" ELSE "copy")
             /\ UNCHANGED faults
          \/ Fault /\ Goto(p, "undo") /\ UNCHANGED engine
      <3>1. engine["bundle"] # "broken"
        BY <1>8 DEF CopyBundle, Build, At, TypeOK, Parts, InstallersKnow
      <3> QED BY <1>8, <3>1, Growth DEF CopyBundle, Build
    <2>2. TypeOK'
      BY <1>8, <2>1, SetupAssumption DEF CopyBundle, At, Build, Goto, Fault,
         identity, history, budgets, fixed, TypeOK
    <2>3. PlacesOK'
      BY <1>8, <2>1 DEF CopyBundle, At, Build, Goto, Fault, identity, history,
         budgets, fixed, TypeOK, PlacesOK, Places, Ended
    <2>4. InstallersHoldTheLock'
      BY <1>8, <2>1 DEF CopyBundle, At, Build, Goto, Fault, identity, history,
         budgets, fixed, TypeOK, InstallersHoldTheLock, Installing, PlacesOK,
         Places, Ended
    <2>5. InstallersKnow'
      BY <1>8, <2>1 DEF CopyBundle, At, Build, Goto, Fault, identity, history,
         budgets, fixed, TypeOK, InstallersKnow, Recorded, PlacesOK, Places,
         Ended, InstallersHoldTheLock, Installing
    <2>6. EngineIsWholeOrAnnounced'
      BY <1>8, <2>1 DEF CopyBundle, At, Build, Goto, Fault, identity, history,
         budgets, fixed, TypeOK, EngineIsWholeOrAnnounced, Empty, NoEngine,
         Recorded, InstallersKnow
    <2>7. RecordedIsWhole'
      BY <1>8, <2>1 DEF CopyBundle, At, Build, Goto, Fault, identity, history,
         budgets, fixed, TypeOK, RecordedIsWhole, Recorded, Whole,
         InstallersKnow
    <2>8. ActivatedIsRecorded'
      BY <1>8, <2>1 DEF CopyBundle, At, Build, Goto, Fault, identity, history,
         budgets, fixed, TypeOK, ActivatedIsRecorded, Activated, Recorded,
         PlacesOK, Places, Ended
    <2>9. KeyHasOneWriter'
      BY <1>8, <2>1 DEF CopyBundle, At, Build, Goto, Fault, identity, history,
         budgets, fixed, TypeOK, KeyHasOneWriter, PairVerifies, PlacesOK,
         Places, Ended
    <2>10. IdentityIsFound'
      BY <1>8, <2>1 DEF CopyBundle, At, Build, Goto, Fault, identity, history,
         budgets, fixed, TypeOK, IdentityIsFound, PlacesOK, Places, Ended
    <2>11. ReceiptsStayVerifiable'
      BY <1>8, <2>1 DEF CopyBundle, At, Build, Goto, Fault, identity, history,
         budgets, fixed, ReceiptsStayVerifiable
    <2> QED BY <2>2, <2>3, <2>4, <2>5, <2>6, <2>7, <2>8, <2>9, <2>10, <2>11
  <1>9. ASSUME NEW p \in Commands, Sync(p) PROVE Inv'
    <2>1. \/ /\ engine' \in [bundle : Parts, venv : Parts \cup {"broken"}, record : BOOLEAN]
             /\ engine'.venv \in {"part", "whole"}
             /\ Recorded' = Recorded
             /\ engine'.bundle = engine.bundle
             /\ Goto(p, IF engine'.venv = "whole" THEN "check" ELSE "sync")
             /\ UNCHANGED faults
          \/ Fault /\ Goto(p, "undo") /\ UNCHANGED engine
      <3>1. engine["venv"] # "broken"
        BY <1>9 DEF Sync, Build, At, TypeOK, Parts, InstallersKnow
      <3> QED BY <1>9, <3>1, Growth DEF Sync, Build
    <2>2. TypeOK'
      BY <1>9, <2>1, SetupAssumption DEF Sync, At, Build, Goto, Fault,
         identity, history, budgets, fixed, TypeOK
    <2>3. PlacesOK'
      BY <1>9, <2>1 DEF Sync, At, Build, Goto, Fault, identity, history,
         budgets, fixed, TypeOK, PlacesOK, Places, Ended
    <2>4. InstallersHoldTheLock'
      BY <1>9, <2>1 DEF Sync, At, Build, Goto, Fault, identity, history,
         budgets, fixed, TypeOK, InstallersHoldTheLock, Installing, PlacesOK,
         Places, Ended
    <2>5. InstallersKnow'
      BY <1>9, <2>1 DEF Sync, At, Build, Goto, Fault, identity, history,
         budgets, fixed, TypeOK, InstallersKnow, Recorded, PlacesOK, Places,
         Ended, InstallersHoldTheLock, Installing
    <2>6. EngineIsWholeOrAnnounced'
      BY <1>9, <2>1 DEF Sync, At, Build, Goto, Fault, identity, history,
         budgets, fixed, TypeOK, EngineIsWholeOrAnnounced, Empty, NoEngine,
         Recorded, InstallersKnow
    <2>7. RecordedIsWhole'
      BY <1>9, <2>1 DEF Sync, At, Build, Goto, Fault, identity, history,
         budgets, fixed, TypeOK, RecordedIsWhole, Recorded, Whole,
         InstallersKnow
    <2>8. ActivatedIsRecorded'
      BY <1>9, <2>1 DEF Sync, At, Build, Goto, Fault, identity, history,
         budgets, fixed, TypeOK, ActivatedIsRecorded, Activated, Recorded,
         PlacesOK, Places, Ended
    <2>9. KeyHasOneWriter'
      BY <1>9, <2>1 DEF Sync, At, Build, Goto, Fault, identity, history,
         budgets, fixed, TypeOK, KeyHasOneWriter, PairVerifies, PlacesOK,
         Places, Ended
    <2>10. IdentityIsFound'
      BY <1>9, <2>1 DEF Sync, At, Build, Goto, Fault, identity, history,
         budgets, fixed, TypeOK, IdentityIsFound, PlacesOK, Places, Ended
    <2>11. ReceiptsStayVerifiable'
      BY <1>9, <2>1 DEF Sync, At, Build, Goto, Fault, identity, history,
         budgets, fixed, ReceiptsStayVerifiable
    <2> QED BY <2>2, <2>3, <2>4, <2>5, <2>6, <2>7, <2>8, <2>9, <2>10, <2>11
  <1>10. ASSUME NEW p \in Commands, CheckEnvironment(p) PROVE Inv'
    <2>1. TypeOK'
      BY <1>10, SetupAssumption DEF CheckEnvironment, At, Goto, Answers, Fault,
         identity, history, budgets, fixed, TypeOK
    <2>2. PlacesOK'
      BY <1>10 DEF CheckEnvironment, At, Goto, Answers, Fault, identity,
         history, budgets, fixed, TypeOK, PlacesOK, Places, Ended
    <2>3. InstallersHoldTheLock'
      BY <1>10 DEF CheckEnvironment, At, Goto, Answers, Fault, identity,
         history, budgets, fixed, TypeOK, InstallersHoldTheLock, Installing,
         PlacesOK, Places, Ended
    <2>4. InstallersKnow'
      BY <1>10 DEF CheckEnvironment, At, Goto, Answers, Fault, identity,
         history, budgets, fixed, TypeOK, InstallersKnow, Recorded, PlacesOK,
         Places, Ended
    <2>5. EngineIsWholeOrAnnounced'
      BY <1>10 DEF CheckEnvironment, At, Goto, Answers, Fault, identity,
         history, budgets, fixed, TypeOK, EngineIsWholeOrAnnounced, Empty,
         NoEngine, Recorded, PlacesOK, Places, Ended
    <2>6. RecordedIsWhole'
      BY <1>10 DEF CheckEnvironment, At, Goto, Answers, Fault, identity,
         history, budgets, fixed, TypeOK, RecordedIsWhole, Recorded, Whole,
         PlacesOK, Places, Ended
    <2>7. ActivatedIsRecorded'
      BY <1>10 DEF CheckEnvironment, At, Goto, Answers, Fault, identity,
         history, budgets, fixed, TypeOK, ActivatedIsRecorded, Activated,
         Recorded, PlacesOK, Places, Ended
    <2>8. KeyHasOneWriter'
      BY <1>10 DEF CheckEnvironment, At, Goto, Answers, Fault, identity,
         history, budgets, fixed, TypeOK, KeyHasOneWriter, PairVerifies,
         PlacesOK, Places, Ended
    <2>9. IdentityIsFound'
      BY <1>10 DEF CheckEnvironment, At, Goto, Answers, Fault, identity,
         history, budgets, fixed, TypeOK, IdentityIsFound, PlacesOK, Places,
         Ended
    <2>10. ReceiptsStayVerifiable'
      BY <1>10 DEF CheckEnvironment, At, Goto, Answers, Fault, identity,
         history, budgets, fixed, ReceiptsStayVerifiable
    <2> QED BY <2>1, <2>2, <2>3, <2>4, <2>5, <2>6, <2>7, <2>8, <2>9, <2>10
  <1>11. ASSUME NEW p \in Commands, Undo(p) PROVE Inv'
    <2>1. RemovePiece =>
            /\ engine' \in [bundle : Parts, venv : Parts \cup {"broken"}, record : BOOLEAN]
            /\ Recorded' => Recorded
            /\ engine'.venv = "broken" => engine.venv = "broken"
      BY Removal
    <2>2. TypeOK'
      BY <1>11, <2>1 DEF Undo, At, Goto, identity, history, budgets, fixed,
         TypeOK
    <2>3. PlacesOK'
      BY <1>11, <2>1 DEF Undo, At, Goto, identity, history, budgets, fixed,
         TypeOK, PlacesOK, Places, Ended
    <2>4. InstallersHoldTheLock'
      BY <1>11, <2>1 DEF Undo, At, Goto, identity, history, budgets, fixed,
         TypeOK, InstallersHoldTheLock, Installing, PlacesOK, Places, Ended
    <2>5. InstallersKnow'
      BY <1>11, <2>1 DEF Undo, At, Goto, identity, history, budgets, fixed,
         TypeOK, InstallersKnow, Recorded, PlacesOK, Places, Ended,
         InstallersHoldTheLock, Installing
    <2>6. EngineIsWholeOrAnnounced'
      BY <1>11, <2>1 DEF Undo, At, Goto, identity, history, budgets, fixed,
         TypeOK, EngineIsWholeOrAnnounced, Empty, NoEngine, Recorded,
         InstallersKnow
    <2>7. RecordedIsWhole'
      BY <1>11, <2>1 DEF Undo, At, Goto, identity, history, budgets, fixed,
         TypeOK, RecordedIsWhole, Recorded, Whole, InstallersKnow
    <2>8. ActivatedIsRecorded'
      BY <1>11, <2>1 DEF Undo, At, Goto, identity, history, budgets, fixed,
         TypeOK, ActivatedIsRecorded, Activated, Recorded, PlacesOK, Places,
         Ended, InstallersKnow
    <2>9. KeyHasOneWriter'
      BY <1>11, <2>1 DEF Undo, At, Goto, identity, history, budgets, fixed,
         TypeOK, KeyHasOneWriter, PairVerifies, PlacesOK, Places, Ended
    <2>10. IdentityIsFound'
      BY <1>11, <2>1 DEF Undo, At, Goto, identity, history, budgets, fixed,
         TypeOK, IdentityIsFound, PlacesOK, Places, Ended
    <2>11. ReceiptsStayVerifiable'
      BY <1>11, <2>1 DEF Undo, At, Goto, identity, history, budgets, fixed,
         ReceiptsStayVerifiable
    <2> QED BY <2>2, <2>3, <2>4, <2>5, <2>6, <2>7, <2>8, <2>9, <2>10, <2>11
  <1>12. ASSUME NEW p \in Commands, Record(p) PROVE Inv'
    <2>1. TypeOK'
      <3>1. engine' \in [bundle : Parts, venv : Parts \cup {"broken"}, record : BOOLEAN]
        BY <1>12 DEF Record, TypeOK
      <3>2. faults' \in 0..MaxFaults /\ lock' \in Commands \cup {None}
        BY <1>12, SetupAssumption DEF Record, Fault, TypeOK
      <3> QED BY <1>12, <3>1, <3>2 DEF Record, identity, history, fixed, TypeOK
    <2>2. PlacesOK'
      BY <1>12 DEF Record, At, Goto, Fault, identity, history, budgets, fixed,
         TypeOK, PlacesOK, Places, Ended
    <2>3. InstallersHoldTheLock'
      BY <1>12 DEF Record, At, Goto, Fault, identity, history, budgets, fixed,
         TypeOK, InstallersHoldTheLock, Installing, PlacesOK, Places, Ended
    <2>4. InstallersKnow'
      BY <1>12 DEF Record, At, Goto, Fault, identity, history, budgets, fixed,
         TypeOK, InstallersKnow, Recorded, PlacesOK, Places, Ended,
         InstallersHoldTheLock, Installing
    <2>5. EngineIsWholeOrAnnounced'
      BY <1>12 DEF Record, At, Goto, Fault, identity, history, budgets, fixed,
         TypeOK, EngineIsWholeOrAnnounced, Empty, NoEngine, Recorded,
         InstallersKnow
    <2>6. RecordedIsWhole'
      BY <1>12 DEF Record, At, Goto, Fault, identity, history, budgets, fixed,
         TypeOK, RecordedIsWhole, Recorded, Whole, PlacesOK, Places, Ended,
         InstallersHoldTheLock, Installing, InstallersKnow
    <2>7. ActivatedIsRecorded'
      BY <1>12 DEF Record, At, Goto, Fault, identity, history, budgets, fixed,
         TypeOK, ActivatedIsRecorded, Activated, Recorded, PlacesOK, Places,
         Ended
    <2>8. KeyHasOneWriter'
      BY <1>12 DEF Record, At, Goto, Fault, identity, history, budgets, fixed,
         TypeOK, KeyHasOneWriter, PairVerifies, PlacesOK, Places, Ended
    <2>9. IdentityIsFound'
      BY <1>12 DEF Record, At, Goto, Fault, identity, history, budgets, fixed,
         TypeOK, IdentityIsFound, PlacesOK, Places, Ended
    <2>10. ReceiptsStayVerifiable'
      BY <1>12 DEF Record, At, Goto, Fault, identity, history, budgets, fixed,
         ReceiptsStayVerifiable
    <2> QED BY <2>1, <2>2, <2>3, <2>4, <2>5, <2>6, <2>7, <2>8, <2>9, <2>10
  <1>13. ASSUME NEW p \in Commands, RemoveMarker(p) PROVE Inv'
    <2>1. TypeOK'
      BY <1>13 DEF RemoveMarker, At, Goto, AfterInstall, identity, history,
         budgets, fixed, TypeOK
    <2>2. PlacesOK'
      BY <1>13 DEF RemoveMarker, At, Goto, AfterInstall, identity, history,
         budgets, fixed, TypeOK, PlacesOK, Places, Ended
    <2>3. InstallersHoldTheLock'
      BY <1>13 DEF RemoveMarker, At, Goto, AfterInstall, identity, history,
         budgets, fixed, TypeOK, InstallersHoldTheLock, Installing, PlacesOK,
         Places, Ended
    <2>4. InstallersKnow'
      BY <1>13 DEF RemoveMarker, At, Goto, AfterInstall, identity, history,
         budgets, fixed, TypeOK, InstallersKnow, Recorded
    <2>5. EngineIsWholeOrAnnounced'
      BY <1>13 DEF RemoveMarker, At, Goto, AfterInstall, identity, history,
         budgets, fixed, TypeOK, EngineIsWholeOrAnnounced, Empty, NoEngine,
         Recorded, InstallersKnow
    <2>6. RecordedIsWhole'
      BY <1>13 DEF RemoveMarker, At, Goto, AfterInstall, identity, history,
         budgets, fixed, TypeOK, RecordedIsWhole, Recorded, Whole
    <2>7. ActivatedIsRecorded'
      BY <1>13 DEF RemoveMarker, At, Goto, AfterInstall, identity, history,
         budgets, fixed, TypeOK, ActivatedIsRecorded, Activated, Recorded
    <2>8. KeyHasOneWriter'
      BY <1>13 DEF RemoveMarker, At, Goto, AfterInstall, identity, history,
         budgets, fixed, TypeOK, KeyHasOneWriter, PairVerifies
    <2>9. IdentityIsFound'
      BY <1>13 DEF RemoveMarker, At, Goto, AfterInstall, identity, history,
         budgets, fixed, TypeOK, IdentityIsFound
    <2>10. ReceiptsStayVerifiable'
      BY <1>13 DEF RemoveMarker, At, Goto, AfterInstall, identity, history,
         budgets, fixed, ReceiptsStayVerifiable
    <2> QED BY <2>1, <2>2, <2>3, <2>4, <2>5, <2>6, <2>7, <2>8, <2>9, <2>10
  <1>14. ASSUME NEW p \in Commands, SetActive(p) PROVE Inv'
    <2>1. TypeOK'
      BY <1>14 DEF SetActive, At, Goto, identity, history, budgets, fixed,
         TypeOK
    <2>2. PlacesOK'
      BY <1>14 DEF SetActive, At, Goto, identity, history, budgets, fixed,
         TypeOK, PlacesOK, Places, Ended
    <2>3. InstallersHoldTheLock'
      BY <1>14 DEF SetActive, At, Goto, identity, history, budgets, fixed,
         TypeOK, InstallersHoldTheLock, Installing, PlacesOK, Places, Ended
    <2>4. InstallersKnow'
      BY <1>14 DEF SetActive, At, Goto, identity, history, budgets, fixed,
         TypeOK, InstallersKnow, Recorded, PlacesOK, Places, Ended
    <2>5. EngineIsWholeOrAnnounced'
      BY <1>14 DEF SetActive, At, Goto, identity, history, budgets, fixed,
         TypeOK, EngineIsWholeOrAnnounced, Empty, NoEngine, Recorded, PlacesOK,
         Places, Ended
    <2>6. RecordedIsWhole'
      BY <1>14 DEF SetActive, At, Goto, identity, history, budgets, fixed,
         TypeOK, RecordedIsWhole, Recorded, Whole, PlacesOK, Places, Ended
    <2>7. ActivatedIsRecorded'
      BY <1>14 DEF SetActive, At, Goto, identity, history, budgets, fixed,
         TypeOK, ActivatedIsRecorded, Activated, Recorded, PlacesOK, Places,
         Ended
    <2>8. KeyHasOneWriter'
      BY <1>14 DEF SetActive, At, Goto, identity, history, budgets, fixed,
         TypeOK, KeyHasOneWriter, PairVerifies, PlacesOK, Places, Ended
    <2>9. IdentityIsFound'
      BY <1>14 DEF SetActive, At, Goto, identity, history, budgets, fixed,
         TypeOK, IdentityIsFound, PlacesOK, Places, Ended
    <2>10. ReceiptsStayVerifiable'
      BY <1>14 DEF SetActive, At, Goto, identity, history, budgets, fixed,
         ReceiptsStayVerifiable
    <2> QED BY <2>1, <2>2, <2>3, <2>4, <2>5, <2>6, <2>7, <2>8, <2>9, <2>10
  <1>15. ASSUME NEW p \in Commands, VerifyFiles(p) PROVE Inv'
    <2>1. TypeOK'
      BY <1>15 DEF VerifyFiles, At, Goto, identity, history, budgets, fixed,
         TypeOK
    <2>2. PlacesOK'
      BY <1>15 DEF VerifyFiles, At, Goto, identity, history, budgets, fixed,
         TypeOK, PlacesOK, Places, Ended
    <2>3. InstallersHoldTheLock'
      BY <1>15 DEF VerifyFiles, At, Goto, identity, history, budgets, fixed,
         TypeOK, InstallersHoldTheLock, Installing
    <2>4. InstallersKnow'
      BY <1>15 DEF VerifyFiles, At, Goto, identity, history, budgets, fixed,
         TypeOK, InstallersKnow, Recorded
    <2>5. EngineIsWholeOrAnnounced'
      BY <1>15 DEF VerifyFiles, At, Goto, identity, history, budgets, fixed,
         TypeOK, EngineIsWholeOrAnnounced, Empty, NoEngine, Recorded
    <2>6. RecordedIsWhole'
      BY <1>15 DEF VerifyFiles, At, Goto, identity, history, budgets, fixed,
         TypeOK, RecordedIsWhole, Recorded, Whole
    <2>7. ActivatedIsRecorded'
      BY <1>15 DEF VerifyFiles, At, Goto, identity, history, budgets, fixed,
         TypeOK, ActivatedIsRecorded, Activated, Recorded
    <2>8. KeyHasOneWriter'
      BY <1>15 DEF VerifyFiles, At, Goto, identity, history, budgets, fixed,
         TypeOK, KeyHasOneWriter, PairVerifies
    <2>9. IdentityIsFound'
      BY <1>15 DEF VerifyFiles, At, Goto, identity, history, budgets, fixed,
         TypeOK, IdentityIsFound
    <2>10. ReceiptsStayVerifiable'
      BY <1>15 DEF VerifyFiles, At, Goto, identity, history, budgets, fixed,
         ReceiptsStayVerifiable
    <2> QED BY <2>1, <2>2, <2>3, <2>4, <2>5, <2>6, <2>7, <2>8, <2>9, <2>10
  <1>16. ASSUME NEW p \in Commands, VerifyEnvironment(p) PROVE Inv'
    <2>1. TypeOK'
      BY <1>16, SetupAssumption DEF VerifyEnvironment, At, Goto, AfterVerify,
         Answers, Fault, identity, history, budgets, fixed, TypeOK
    <2>2. PlacesOK'
      BY <1>16 DEF VerifyEnvironment, At, Goto, AfterVerify, Answers, Fault,
         identity, history, budgets, fixed, TypeOK, PlacesOK, Places, Ended
    <2>3. InstallersHoldTheLock'
      BY <1>16 DEF VerifyEnvironment, At, Goto, AfterVerify, Answers, Fault,
         identity, history, budgets, fixed, TypeOK, InstallersHoldTheLock,
         Installing, PlacesOK, Places, Ended
    <2>4. InstallersKnow'
      BY <1>16 DEF VerifyEnvironment, At, Goto, AfterVerify, Answers, Fault,
         identity, history, budgets, fixed, TypeOK, InstallersKnow, Recorded,
         PlacesOK, Places, Ended
    <2>5. EngineIsWholeOrAnnounced'
      BY <1>16 DEF VerifyEnvironment, At, Goto, AfterVerify, Answers, Fault,
         identity, history, budgets, fixed, TypeOK, EngineIsWholeOrAnnounced,
         Empty, NoEngine, Recorded, PlacesOK, Places, Ended
    <2>6. RecordedIsWhole'
      BY <1>16 DEF VerifyEnvironment, At, Goto, AfterVerify, Answers, Fault,
         identity, history, budgets, fixed, TypeOK, RecordedIsWhole, Recorded,
         Whole, PlacesOK, Places, Ended
    <2>7. ActivatedIsRecorded'
      BY <1>16 DEF VerifyEnvironment, At, Goto, AfterVerify, Answers, Fault,
         identity, history, budgets, fixed, TypeOK, ActivatedIsRecorded,
         Activated, Recorded, PlacesOK, Places, Ended
    <2>8. KeyHasOneWriter'
      BY <1>16 DEF VerifyEnvironment, At, Goto, AfterVerify, Answers, Fault,
         identity, history, budgets, fixed, TypeOK, KeyHasOneWriter,
         PairVerifies, PlacesOK, Places, Ended
    <2>9. IdentityIsFound'
      BY <1>16 DEF VerifyEnvironment, At, Goto, AfterVerify, Answers, Fault,
         identity, history, budgets, fixed, TypeOK, IdentityIsFound, PlacesOK,
         Places, Ended
    <2>10. ReceiptsStayVerifiable'
      BY <1>16 DEF VerifyEnvironment, At, Goto, AfterVerify, Answers, Fault,
         identity, history, budgets, fixed, ReceiptsStayVerifiable
    <2> QED BY <2>1, <2>2, <2>3, <2>4, <2>5, <2>6, <2>7, <2>8, <2>9, <2>10
  <1>17. ASSUME NEW p \in Commands, Ensure(p) PROVE Inv'
    <2>1. TypeOK'
      BY <1>17 DEF Ensure, At, Goto, AfterEnsure, IdentityExists, identity,
         history, budgets, fixed, TypeOK
    <2>2. PlacesOK'
      BY <1>17 DEF Ensure, At, Goto, AfterEnsure, IdentityExists, identity,
         history, budgets, fixed, TypeOK, PlacesOK, Places, Ended
    <2>3. InstallersHoldTheLock'
      BY <1>17 DEF Ensure, At, Goto, AfterEnsure, IdentityExists, identity,
         history, budgets, fixed, TypeOK, InstallersHoldTheLock, Installing
    <2>4. InstallersKnow'
      BY <1>17 DEF Ensure, At, Goto, AfterEnsure, IdentityExists, identity,
         history, budgets, fixed, TypeOK, InstallersKnow, Recorded
    <2>5. EngineIsWholeOrAnnounced'
      BY <1>17 DEF Ensure, At, Goto, AfterEnsure, IdentityExists, identity,
         history, budgets, fixed, TypeOK, EngineIsWholeOrAnnounced, Empty,
         NoEngine, Recorded
    <2>6. RecordedIsWhole'
      BY <1>17 DEF Ensure, At, Goto, AfterEnsure, IdentityExists, identity,
         history, budgets, fixed, TypeOK, RecordedIsWhole, Recorded, Whole
    <2>7. ActivatedIsRecorded'
      BY <1>17 DEF Ensure, At, Goto, AfterEnsure, IdentityExists, identity,
         history, budgets, fixed, TypeOK, ActivatedIsRecorded, Activated,
         Recorded
    <2>8. KeyHasOneWriter'
      BY <1>17 DEF Ensure, At, Goto, AfterEnsure, IdentityExists, identity,
         history, budgets, fixed, TypeOK, KeyHasOneWriter, PairVerifies
    <2>9. IdentityIsFound'
      BY <1>17 DEF Ensure, At, Goto, AfterEnsure, IdentityExists, identity,
         history, budgets, fixed, TypeOK, IdentityIsFound
    <2>10. ReceiptsStayVerifiable'
      BY <1>17 DEF Ensure, At, Goto, AfterEnsure, IdentityExists, identity,
         history, budgets, fixed, ReceiptsStayVerifiable
    <2> QED BY <2>1, <2>2, <2>3, <2>4, <2>5, <2>6, <2>7, <2>8, <2>9, <2>10
  <1>18. ASSUME NEW p \in Commands, OpenExclusive(p) PROVE Inv'
    <2>1. TypeOK'
      <3>1. key' \in {None} \cup [owner : Commands, written : BOOLEAN]
        <4>1. [owner |-> p, written |-> FALSE] \in [owner : Commands, written : BOOLEAN]
          OBVIOUS
        <4>2. key' \in {key, [owner |-> p, written |-> FALSE]}
          BY <1>18 DEF OpenExclusive
        <4> QED BY <4>1, <4>2 DEF TypeOK
      <3> QED BY <1>18, <3>1 DEF OpenExclusive, history, budgets, fixed, TypeOK
    <2>2. PlacesOK'
      BY <1>18 DEF OpenExclusive, At, Goto, identity, history, budgets, fixed,
         TypeOK, PlacesOK, Places, Ended
    <2>3. InstallersHoldTheLock'
      BY <1>18 DEF OpenExclusive, At, Goto, identity, history, budgets, fixed,
         TypeOK, InstallersHoldTheLock, Installing, PlacesOK, Places, Ended
    <2>4. InstallersKnow'
      BY <1>18 DEF OpenExclusive, At, Goto, identity, history, budgets, fixed,
         TypeOK, InstallersKnow, Recorded, PlacesOK, Places, Ended
    <2>5. EngineIsWholeOrAnnounced'
      BY <1>18 DEF OpenExclusive, At, Goto, identity, history, budgets, fixed,
         TypeOK, EngineIsWholeOrAnnounced, Empty, NoEngine, Recorded, PlacesOK,
         Places, Ended
    <2>6. RecordedIsWhole'
      BY <1>18 DEF OpenExclusive, At, Goto, identity, history, budgets, fixed,
         TypeOK, RecordedIsWhole, Recorded, Whole, PlacesOK, Places, Ended
    <2>7. ActivatedIsRecorded'
      BY <1>18 DEF OpenExclusive, At, Goto, identity, history, budgets, fixed,
         TypeOK, ActivatedIsRecorded, Activated, Recorded, PlacesOK, Places,
         Ended
    <2>8. KeyHasOneWriter'
      <3>1. CASE key = None
        <4>1. key' = [owner |-> p, written |-> FALSE] /\ pc' = [pc EXCEPT ![p] = "write"]
          BY <1>18, <3>1 DEF OpenExclusive, Goto
        <4>2. key' # None /\ key'.owner = p
          <5>1. [owner |-> p, written |-> FALSE] \in [owner : Commands, written : BOOLEAN]
            OBVIOUS
          <5>2. key' = [owner |-> p, written |-> FALSE]
            BY <4>1
          <5> QED BY <5>1, <5>2, SetupAssumption
        <4>3. public' = None
          BY <1>18, <3>1 DEF OpenExclusive, KeyHasOneWriter
        <4>4. \A q \in Commands : q # p => pc[q] \notin {"write", "publish"}
          BY <3>1 DEF KeyHasOneWriter
        <4> QED BY <4>1, <4>2, <4>3, <4>4 DEF KeyHasOneWriter, PlacesOK, At
      <3>2. CASE key # None
        BY <1>18, <3>2 DEF OpenExclusive, Goto, KeyHasOneWriter, PairVerifies,
           PlacesOK, At
      <3> QED BY <3>1, <3>2
    <2>9. IdentityIsFound'
      BY <1>18 DEF OpenExclusive, At, Goto, identity, history, budgets, fixed,
         TypeOK, IdentityIsFound, PlacesOK, Places, Ended
    <2>10. ReceiptsStayVerifiable'
      BY <1>18 DEF OpenExclusive, At, Goto, identity, history, budgets, fixed,
         ReceiptsStayVerifiable
    <2> QED BY <2>1, <2>2, <2>3, <2>4, <2>5, <2>6, <2>7, <2>8, <2>9, <2>10
  <1>19. ASSUME NEW p \in Commands, WriteKey(p) PROVE Inv'
    <2>1. TypeOK'
      BY <1>19 DEF WriteKey, At, Goto, identity, history, budgets, fixed,
         TypeOK
    <2>2. PlacesOK'
      BY <1>19 DEF WriteKey, At, Goto, identity, history, budgets, fixed,
         TypeOK, PlacesOK, Places, Ended
    <2>3. InstallersHoldTheLock'
      BY <1>19 DEF WriteKey, At, Goto, identity, history, budgets, fixed,
         TypeOK, InstallersHoldTheLock, Installing
    <2>4. InstallersKnow'
      BY <1>19 DEF WriteKey, At, Goto, identity, history, budgets, fixed,
         TypeOK, InstallersKnow, Recorded
    <2>5. EngineIsWholeOrAnnounced'
      BY <1>19 DEF WriteKey, At, Goto, identity, history, budgets, fixed,
         TypeOK, EngineIsWholeOrAnnounced, Empty, NoEngine, Recorded
    <2>6. RecordedIsWhole'
      BY <1>19 DEF WriteKey, At, Goto, identity, history, budgets, fixed,
         TypeOK, RecordedIsWhole, Recorded, Whole
    <2>7. ActivatedIsRecorded'
      BY <1>19 DEF WriteKey, At, Goto, identity, history, budgets, fixed,
         TypeOK, ActivatedIsRecorded, Activated, Recorded
    <2>8. KeyHasOneWriter'
      <3>1. key # None /\ key.owner = p
        BY <1>19 DEF WriteKey, At, KeyHasOneWriter
      <3>2. key' = [owner |-> p, written |-> TRUE] /\ pc' = [pc EXCEPT ![p] = "publish"]
        BY <1>19 DEF WriteKey, Goto
      <3>3. key' # None /\ key'.owner = p /\ key'.written
        <4>1. [owner |-> p, written |-> TRUE] \in [owner : Commands, written : BOOLEAN]
          OBVIOUS
        <4>2. key' = [owner |-> p, written |-> TRUE]
          BY <3>2
        <4> QED BY <4>1, <4>2, SetupAssumption
      <3>4. \A q \in Commands : q # p => pc[q] \notin {"write", "publish"}
        BY <3>1 DEF KeyHasOneWriter
      <3>5. public' = public /\ (public # None => public = p)
        BY <1>19, <3>1 DEF WriteKey, KeyHasOneWriter, PairVerifies
      <3> QED BY <3>2, <3>3, <3>4, <3>5 DEF KeyHasOneWriter, PairVerifies, PlacesOK, At
    <2>9. IdentityIsFound'
      BY <1>19 DEF WriteKey, At, Goto, identity, history, budgets, fixed,
         TypeOK, IdentityIsFound
    <2>10. ReceiptsStayVerifiable'
      BY <1>19 DEF WriteKey, At, Goto, identity, history, budgets, fixed,
         ReceiptsStayVerifiable
    <2> QED BY <2>1, <2>2, <2>3, <2>4, <2>5, <2>6, <2>7, <2>8, <2>9, <2>10
  <1>20. ASSUME NEW p \in Commands, WritePublic(p) PROVE Inv'
    <2>1. TypeOK'
      BY <1>20 DEF WritePublic, At, Goto, AfterEnsure, identity, history,
         budgets, fixed, TypeOK
    <2>2. PlacesOK'
      BY <1>20 DEF WritePublic, At, Goto, AfterEnsure, identity, history,
         budgets, fixed, TypeOK, PlacesOK, Places, Ended
    <2>3. InstallersHoldTheLock'
      BY <1>20 DEF WritePublic, At, Goto, AfterEnsure, identity, history,
         budgets, fixed, TypeOK, InstallersHoldTheLock, Installing
    <2>4. InstallersKnow'
      BY <1>20 DEF WritePublic, At, Goto, AfterEnsure, identity, history,
         budgets, fixed, TypeOK, InstallersKnow, Recorded
    <2>5. EngineIsWholeOrAnnounced'
      BY <1>20 DEF WritePublic, At, Goto, AfterEnsure, identity, history,
         budgets, fixed, TypeOK, EngineIsWholeOrAnnounced, Empty, NoEngine,
         Recorded
    <2>6. RecordedIsWhole'
      BY <1>20 DEF WritePublic, At, Goto, AfterEnsure, identity, history,
         budgets, fixed, TypeOK, RecordedIsWhole, Recorded, Whole
    <2>7. ActivatedIsRecorded'
      BY <1>20 DEF WritePublic, At, Goto, AfterEnsure, identity, history,
         budgets, fixed, TypeOK, ActivatedIsRecorded, Activated, Recorded
    <2>8. KeyHasOneWriter'
      BY <1>20 DEF WritePublic, At, Goto, AfterEnsure, identity, history,
         budgets, fixed, TypeOK, KeyHasOneWriter, PairVerifies
    <2>9. IdentityIsFound'
      BY <1>20, SetupAssumption DEF WritePublic, At, Goto, AfterEnsure,
         identity, history, budgets, fixed, TypeOK, IdentityIsFound
    <2>10. ReceiptsStayVerifiable'
      BY <1>20, SetupAssumption DEF WritePublic, At, Goto, AfterEnsure,
         identity, history, budgets, fixed, TypeOK, ReceiptsStayVerifiable,
         KeyHasOneWriter, PairVerifies
    <2> QED BY <2>1, <2>2, <2>3, <2>4, <2>5, <2>6, <2>7, <2>8, <2>9, <2>10
  <1>21. ASSUME NEW p \in Commands, VerifyPair(p) PROVE Inv'
    <2>1. TypeOK'
      BY <1>21 DEF VerifyPair, At, Goto, AfterEnsure, identity, history,
         budgets, fixed, TypeOK
    <2>2. PlacesOK'
      BY <1>21 DEF VerifyPair, At, Goto, AfterEnsure, identity, history,
         budgets, fixed, TypeOK, PlacesOK, Places, Ended
    <2>3. InstallersHoldTheLock'
      BY <1>21 DEF VerifyPair, At, Goto, AfterEnsure, identity, history,
         budgets, fixed, TypeOK, InstallersHoldTheLock, Installing
    <2>4. InstallersKnow'
      BY <1>21 DEF VerifyPair, At, Goto, AfterEnsure, identity, history,
         budgets, fixed, TypeOK, InstallersKnow, Recorded
    <2>5. EngineIsWholeOrAnnounced'
      BY <1>21 DEF VerifyPair, At, Goto, AfterEnsure, identity, history,
         budgets, fixed, TypeOK, EngineIsWholeOrAnnounced, Empty, NoEngine,
         Recorded
    <2>6. RecordedIsWhole'
      BY <1>21 DEF VerifyPair, At, Goto, AfterEnsure, identity, history,
         budgets, fixed, TypeOK, RecordedIsWhole, Recorded, Whole
    <2>7. ActivatedIsRecorded'
      BY <1>21 DEF VerifyPair, At, Goto, AfterEnsure, identity, history,
         budgets, fixed, TypeOK, ActivatedIsRecorded, Activated, Recorded
    <2>8. KeyHasOneWriter'
      BY <1>21 DEF VerifyPair, At, Goto, AfterEnsure, identity, history,
         budgets, fixed, TypeOK, KeyHasOneWriter, PairVerifies
    <2>9. IdentityIsFound'
      BY <1>21 DEF VerifyPair, At, Goto, AfterEnsure, identity, history,
         budgets, fixed, TypeOK, IdentityIsFound
    <2>10. ReceiptsStayVerifiable'
      BY <1>21 DEF VerifyPair, At, Goto, AfterEnsure, identity, history,
         budgets, fixed, ReceiptsStayVerifiable
    <2> QED BY <2>1, <2>2, <2>3, <2>4, <2>5, <2>6, <2>7, <2>8, <2>9, <2>10
  <1>22. ASSUME NEW p \in Commands, SignObject(p) PROVE Inv'
    <2>1. TypeOK'
      BY <1>22 DEF SignObject, At, Goto, identity, history, budgets, fixed,
         TypeOK, KeyHasOneWriter, PairVerifies, IdentityIsFound
    <2>2. PlacesOK'
      BY <1>22 DEF SignObject, At, Goto, identity, history, budgets, fixed,
         TypeOK, PlacesOK, Places, Ended
    <2>3. InstallersHoldTheLock'
      BY <1>22 DEF SignObject, At, Goto, identity, history, budgets, fixed,
         TypeOK, InstallersHoldTheLock, Installing
    <2>4. InstallersKnow'
      BY <1>22 DEF SignObject, At, Goto, identity, history, budgets, fixed,
         TypeOK, InstallersKnow, Recorded
    <2>5. EngineIsWholeOrAnnounced'
      BY <1>22 DEF SignObject, At, Goto, identity, history, budgets, fixed,
         TypeOK, EngineIsWholeOrAnnounced, Empty, NoEngine, Recorded
    <2>6. RecordedIsWhole'
      BY <1>22 DEF SignObject, At, Goto, identity, history, budgets, fixed,
         TypeOK, RecordedIsWhole, Recorded, Whole
    <2>7. ActivatedIsRecorded'
      BY <1>22 DEF SignObject, At, Goto, identity, history, budgets, fixed,
         TypeOK, ActivatedIsRecorded, Activated, Recorded
    <2>8. KeyHasOneWriter'
      BY <1>22 DEF SignObject, At, Goto, identity, history, budgets, fixed,
         TypeOK, KeyHasOneWriter, PairVerifies
    <2>9. IdentityIsFound'
      BY <1>22 DEF SignObject, At, Goto, identity, history, budgets, fixed,
         TypeOK, IdentityIsFound
    <2>10. ReceiptsStayVerifiable'
      BY <1>22 DEF SignObject, At, Goto, identity, history, budgets, fixed,
         TypeOK, ReceiptsStayVerifiable, KeyHasOneWriter, PairVerifies,
         IdentityIsFound
    <2> QED BY <2>1, <2>2, <2>3, <2>4, <2>5, <2>6, <2>7, <2>8, <2>9, <2>10
  <1>23. ASSUME NEW p \in Commands, Crash(p) PROVE Inv'
    <2>1. TypeOK'
      BY <1>23, SetupAssumption DEF Crash, At, Goto, identity, history,
         budgets, fixed, TypeOK
    <2>2. PlacesOK'
      BY <1>23 DEF Crash, At, Goto, identity, history, budgets, fixed, TypeOK,
         PlacesOK, Places, Ended
    <2>3. InstallersHoldTheLock'
      BY <1>23 DEF Crash, At, Goto, identity, history, budgets, fixed, TypeOK,
         InstallersHoldTheLock, Installing, PlacesOK, Places, Ended
    <2>4. InstallersKnow'
      BY <1>23 DEF Crash, At, Goto, identity, history, budgets, fixed, TypeOK,
         InstallersKnow, Recorded
    <2>5. EngineIsWholeOrAnnounced'
      BY <1>23 DEF Crash, At, Goto, identity, history, budgets, fixed, TypeOK,
         EngineIsWholeOrAnnounced, Empty, NoEngine, Recorded, PlacesOK, Places,
         Ended, Parts
    <2>6. RecordedIsWhole'
      BY <1>23 DEF Crash, At, Goto, identity, history, budgets, fixed, TypeOK,
         RecordedIsWhole, Recorded, Whole
    <2>7. ActivatedIsRecorded'
      BY <1>23 DEF Crash, At, Goto, identity, history, budgets, fixed, TypeOK,
         ActivatedIsRecorded, Activated, Recorded
    <2>8. KeyHasOneWriter'
      BY <1>23 DEF Crash, At, Goto, identity, history, budgets, fixed, TypeOK,
         KeyHasOneWriter, PairVerifies
    <2>9. IdentityIsFound'
      BY <1>23 DEF Crash, At, Goto, identity, history, budgets, fixed, TypeOK,
         IdentityIsFound
    <2>10. ReceiptsStayVerifiable'
      BY <1>23 DEF Crash, At, Goto, identity, history, budgets, fixed,
         ReceiptsStayVerifiable
    <2> QED BY <2>1, <2>2, <2>3, <2>4, <2>5, <2>6, <2>7, <2>8, <2>9, <2>10
  <1>24. CASE BreakEnvironment
    <2>1. TypeOK'
      BY <1>24, SetupAssumption DEF BreakEnvironment, Fault, identity, TypeOK
    <2>2. InstallersKnow'
      BY <1>24 DEF BreakEnvironment, Fault, identity, TypeOK, InstallersKnow,
         Recorded, At
    <2>3. EngineIsWholeOrAnnounced'
      BY <1>24 DEF BreakEnvironment, Fault, identity, TypeOK,
         EngineIsWholeOrAnnounced, Empty, NoEngine, Recorded, At
    <2>4. RecordedIsWhole'
      BY <1>24 DEF BreakEnvironment, Fault, identity, TypeOK, RecordedIsWhole,
         Recorded, Whole, At
    <2>5. ActivatedIsRecorded'
      BY <1>24 DEF BreakEnvironment, Fault, identity, TypeOK,
         ActivatedIsRecorded, Activated, Recorded
    <2>6. /\ PlacesOK' /\ InstallersHoldTheLock' /\ KeyHasOneWriter'
          /\ IdentityIsFound' /\ ReceiptsStayVerifiable'
      BY <1>24 DEF BreakEnvironment, Fault, identity, PlacesOK, Places, Ended,
         InstallersHoldTheLock, Installing, KeyHasOneWriter, PairVerifies, At,
         IdentityIsFound, ReceiptsStayVerifiable
    <2> QED BY <2>1, <2>2, <2>3, <2>4, <2>5, <2>6
  <1> QED BY <1>1, <1>2, <1>3, <1>4, <1>5, <1>6, <1>7, <1>8, <1>9, <1>10,
     <1>11, <1>12, <1>13, <1>14, <1>15, <1>16, <1>17, <1>18, <1>19, <1>20,
     <1>21, <1>22, <1>23, <1>24 DEF Next, Step

----------------------------------------------------------------------------
(* Theorems *)

LEMMA InvAlways == Spec => []Inv
  <1> QED BY InitInv, StepInv, PTL DEF Spec

\* Types: every variable stays in its domain, whatever commands run on whatever
\* hosts and whichever of them is killed or fails.
THEOREM SetupTypes == Spec => []TypeOK
  <1>1. Inv => TypeOK
    BY DEF Inv
  <1> QED BY <1>1, InvAlways, PTL

\* No interleaving of installs, kills and failures leaves an unannounced half of
\* an engine, but where a removal was cut short (engines/installer.py).
THEOREM EnginesAreWholeOrAnnounced == Spec => []EngineIsWholeOrAnnounced
  <1>1. Inv => EngineIsWholeOrAnnounced
    BY DEF Inv
  <1> QED BY <1>1, InvAlways, PTL

\* What a setup that succeeded said stays true: the engine it made active is
\* whole until its environment is doubted, and the identity it found or created
\* keeps halves that belong together.
THEOREM ReadyMachinesStayReady == Spec => []ReadyStaysReady
  <1>1. Inv => ReadyStaysReady
    <2> SUFFICES ASSUME Inv, NEW p \in Commands, kind[p] = "setup", At(p, "done")
                 PROVE  /\ IdentityExists /\ PairVerifies
                        /\ active
                        /\ (Recorded /\ Whole) \/ doubted
      BY DEF ReadyStaysReady
    <2>1. public # None
      BY DEF Inv, IdentityIsFound
    <2>2. IdentityExists /\ PairVerifies
      BY <2>1 DEF Inv, KeyHasOneWriter, IdentityExists
    <2>3. active /\ (Recorded \/ doubted)
      BY DEF Inv, ActivatedIsRecorded, Activated, At
    <2>4. doubted \/ (Recorded => Whole)
      BY DEF Inv, RecordedIsWhole
    <2> QED BY <2>2, <2>3, <2>4
  <1> QED BY <1>1, InvAlways, PTL

\* Whoever creates the identity, and whoever was killed while creating it, every
\* receipt this machine ever signed verifies with its public half (identity/).
THEOREM SignedReceiptsVerify == Spec => []ReceiptsStayVerifiable
  <1>1. Inv => ReceiptsStayVerifiable
    BY DEF Inv
  <1> QED BY <1>1, InvAlways, PTL

----------------------------------------------------------------------------
(* What a doctor says *)

\* A set of numbers has a least.
LEMMA LeastExists ==
  ASSUME NEW S \in SUBSET Nat, S # {}
  PROVE  \E n \in S : \A m \in S : n <= m
  <1>1. PICK n \in S : \A m \in S : ~(<<m, n>> \in OpToRel(<, Nat))
    BY NatLessThanWellFounded, WFMin
  <1>2. ASSUME NEW m \in S PROVE n <= m
    <2>1. m \in Nat /\ n \in Nat
      OBVIOUS
    <2>2. ~(m < n)
      BY <1>1, <2>1 DEF OpToRel
    <2> QED BY <2>1, <2>2
  <1> QED BY <1>2

\* Of more elements than three the three least are those that fewer than three
\* precede.
LEMMA ThreeLeast ==
  ASSUME NEW S \in SUBSET Nat, IsFiniteSet(S),
         NEW k \in S, Cardinality({j \in S : j < k}) >= 3
  PROVE  Cardinality({i \in S : Cardinality({j \in S : j < i}) < 3}) = 3
  <1> DEFINE Before(i) == {j \in S : j < i}
  <1>1. ASSUME NEW i \in S PROVE IsFiniteSet(Before(i)) /\ Cardinality(Before(i)) \in Nat
    BY FS_Subset, FS_CardinalityType
  <1>0. /\ IsFiniteSet({}) /\ Cardinality({}) = 0
        /\ \A x : IsFiniteSet({x}) /\ Cardinality({x}) = 1
    BY FS_EmptySet, FS_Singleton, Zenon
  <1>2. ASSUME NEW x, NEW y, x # y
        PROVE  /\ IsFiniteSet({x, y}) /\ Cardinality({x, y}) = 2
               /\ \A z : z \notin {x, y} =>
                    IsFiniteSet({x, y, z}) /\ Cardinality({x, y, z}) = 3
    <2>1. Cardinality({x}) = 1 /\ IsFiniteSet({x})
      BY FS_Singleton
    <2>2. y \notin {x}
      BY <1>2
    <2>3. IsFiniteSet({x} \cup {y}) /\ Cardinality({x} \cup {y}) = Cardinality({x}) + 1
      BY <2>1, <2>2, FS_AddElement
    <2>4. IsFiniteSet({x} \cup {y}) /\ Cardinality({x} \cup {y}) = 2
      BY <2>1, <2>3
    <2>5. {x} \cup {y} = {x, y}
      OBVIOUS
    <2>6. ASSUME NEW z, z \notin {x, y}
          PROVE  IsFiniteSet({x, y, z}) /\ Cardinality({x, y, z}) = 3
      <3>1. IsFiniteSet({x, y}) /\ z \notin {x, y}
        BY <2>4, <2>5, <2>6
      <3>2. /\ IsFiniteSet({x, y} \cup {z})
            /\ Cardinality({x, y} \cup {z}) = Cardinality({x, y}) + 1
        BY ONLY <3>1, FS_AddElement
      <3>3. {x, y} \cup {z} = {x, y, z}
        OBVIOUS
      <3> QED BY <2>4, <2>5, <3>2, <3>3
    <2> QED BY <2>4, <2>5, <2>6
  <1>3. PICK a \in S : \A m \in S : a <= m
    BY LeastExists
  <1>4. ASSUME NEW T \in SUBSET S, T \in {{}, {a}} \/ \E b \in S : T = {a, b} /\ a # b
        PROVE  \E m \in S \ T : m < k
    <2>1. IsFiniteSet(T) /\ Cardinality(T) < 3
      <3>1. CASE T = {}
        BY <1>0, <3>1
      <3>2. CASE T = {a}
        BY <1>0, <3>2
      <3>3. CASE \E b \in S : T = {a, b} /\ a # b
        <4>1. PICK b \in S : T = {a, b} /\ a # b
          BY <3>3
        <4>2. IsFiniteSet({a, b}) /\ Cardinality({a, b}) = 2
          BY <1>2, <4>1
        <4> QED BY <4>1, <4>2
      <3> QED BY <1>4, <3>1, <3>2, <3>3
    <2>2. CASE \A m \in S \ T : ~(m < k)
      <3>1. Before(k) \subseteq T
        BY <2>2
      <3>2. Cardinality(Before(k)) <= Cardinality(T)
        BY <2>1, <3>1, FS_Subset
      <3> QED BY <1>1, <2>1, <3>2, FS_CardinalityType
    <2> QED BY <2>2
  <1>5. PICK b \in S \ {a} : \A m \in S \ {a} : b <= m
    <2>1. S \ {a} # {}
      BY <1>4
    <2> QED BY <2>1, LeastExists
  <1>6. PICK c \in S \ {a, b} : \A m \in S \ {a, b} : c <= m
    <2>1. S \ {a, b} # {}
      BY <1>4, <1>5
    <2> QED BY <2>1, LeastExists
  <1>7. a \in Nat /\ b \in Nat /\ c \in Nat /\ a < b /\ b < c
    BY <1>3, <1>5, <1>6
  <1>8. /\ \A m \in S : m \in Nat
        /\ \A m \in S : m < a <=> m \in {}
        /\ \A m \in S : m < b <=> m \in {a}
        /\ \A m \in S : m < c <=> m \in {a, b}
    BY <1>3, <1>5, <1>6, <1>7
  <1>9. Cardinality(Before(a)) < 3 /\ Cardinality(Before(b)) < 3 /\ Cardinality(Before(c)) < 3
    <2>1. Before(a) = {}
      BY <1>8
    <2>2. Before(b) = {a}
      BY <1>8
    <2>3. Before(c) = {a, b}
      BY <1>5, <1>8
    <2>4. Cardinality({}) < 3 /\ Cardinality({a}) < 3 /\ Cardinality({a, b}) < 3
      <3>1. Cardinality({a, b}) = 2
        BY <1>2, <1>7
      <3> QED BY <1>0, <3>1
    <2> QED BY <2>1, <2>2, <2>3, <2>4
  <1>10. ASSUME NEW i \in S, i \notin {a, b, c} PROVE ~(Cardinality(Before(i)) < 3)
    <2>1. {a, b, c} \subseteq Before(i)
      BY <1>3, <1>5, <1>6, <1>7, <1>10
    <2>2. Cardinality({a, b, c}) <= Cardinality(Before(i)) /\ Cardinality({a, b, c}) = 3
      BY <1>1, <1>2, <1>7, <2>1, FS_Subset
    <2> QED BY <1>1, <2>2
  <1>11. {i \in S : Cardinality(Before(i)) < 3} = {a, b, c}
    <2> HIDE DEF Before
    <2> QED BY <1>9, <1>10
  <1>12. Cardinality({a, b, c}) = 3
    BY <1>2, <1>7
  <1> QED BY <1>11, <1>12

\* Whatever needs a repair that is known has it offered, unless three others are.
LEMMA RepairsAreOffered ==
  ASSUME NEW checks, NEW r \in DOMAIN Repairs, NeedsRepair(checks, Repairs[r].check)
  PROVE  \/ Cardinality(NextActions(checks)) = MaxNextActions
         \/ Repairs[r].action \in NextActions(checks)
  <1> DEFINE wanted == {i \in DOMAIN Repairs : NeedsRepair(checks, Repairs[i].check)}
             First(i) == \A j \in wanted : j < i => Repairs[j].action # Repairs[i].action
             firsts == {i \in wanted : First(i)}
             offered == {i \in firsts : Cardinality({j \in firsts : j < i}) < 3}
  <1>1. DOMAIN Repairs = 1 .. 10
    BY DEF Repairs
  <1>2. r \in wanted /\ wanted \subseteq Nat /\ IsFiniteSet(wanted)
    <2>1. IsFiniteSet(1 .. 10)
      <3>1. 1 \in Int /\ 10 \in Int
        OBVIOUS
      <3> QED BY <3>1, FS_Interval, Zenon
    <2>2. wanted \subseteq 1 .. 10
      BY <1>1
    <2> QED BY <2>1, <2>2, FS_Subset
  <1>3. IsFiniteSet(firsts) /\ firsts \in SUBSET Nat
    BY <1>2, FS_Subset
  <1>4. NextActions(checks) = {Repairs[i].action : i \in offered}
    <2>1. ASSUME NEW i \in wanted PROVE {j \in wanted : j < i /\ First(j)} = {j \in firsts : j < i}
      OBVIOUS
    <2>2. {i \in wanted : First(i) /\ Cardinality({j \in wanted : j < i /\ First(j)}) < 3} = offered
      BY <2>1
    <2>3. NextActions(checks) =
            {Repairs[i].action :
               i \in {i \in wanted : First(i) /\ Cardinality({j \in wanted : j < i /\ First(j)}) < 3}}
      BY <1>2 DEF NextActions, MaxNextActions
    <2> QED BY <2>2, <2>3
  <1>5. PICK k \in firsts : Repairs[k].action = Repairs[r].action
    <2> DEFINE same == {i \in wanted : Repairs[i].action = Repairs[r].action}
    <2>1. PICK k \in same : \A m \in same : k <= m
      BY <1>2, LeastExists
    <2>2. k \in firsts
      BY <1>2, <2>1
    <2> QED BY <2>1, <2>2
  <1>6. CASE Cardinality({j \in firsts : j < k}) < 3
    <2>1. k \in offered
      BY <1>6
    <2> HIDE DEF offered
    <2> QED BY <1>4, <1>5, <2>1
  <1>7. CASE ~(Cardinality({j \in firsts : j < k}) < 3)
    <2>1. IsFiniteSet({j \in firsts : j < k})
      BY <1>3, FS_Subset
    <2>2. Cardinality({j \in firsts : j < k}) >= 3
      BY <1>7, <2>1, FS_CardinalityType
    <2>3. Cardinality(offered) = 3 /\ IsFiniteSet(offered)
      <3> HIDE DEF firsts
      <3> QED BY <1>3, <2>2, ThreeLeast, FS_Subset
    <2>4. \A i, j \in offered : Repairs[i].action = Repairs[j].action => i = j
      <3>1. \A i, j \in firsts : Repairs[i].action = Repairs[j].action => ~(i < j)
        OBVIOUS
      <3>2. \A i, j \in firsts : i < j \/ j < i \/ i = j
        BY <1>3
      <3> HIDE DEF firsts
      <3> QED BY <3>1, <3>2
    <2>5. Cardinality({Repairs[i].action : i \in offered}) = 3
      <3> DEFINE f == [i \in offered |-> Repairs[i].action]
                 image == {Repairs[i].action : i \in offered}
      <3> HIDE DEF offered
      <3>1. f \in [offered -> image] /\ \A i \in offered : f[i] = Repairs[i].action
        OBVIOUS
      <3>2. \A x \in image : \E i \in offered : f[i] = x
        OBVIOUS
      <3>3. \A i, j \in offered : f[i] = f[j] => i = j
        BY <2>4, <3>1
      <3> HIDE DEF f, image
      <3>4. f \in Bijection(offered, image)
        BY <3>1, <3>2, <3>3, Fun_IsBij
      <3>5. ExistsBijection(offered, image)
        BY <3>4 DEF ExistsBijection
      <3>6. Cardinality(image) = 3
        BY <2>3, <3>5, FS_Bijection
      <3> QED BY <3>6 DEF image
    <2> QED BY <1>4, <2>5 DEF MaxNextActions
  <1> QED BY <1>6, <1>7

\* What blocks has an action that repairs it, but for what nobody can repair.
LEMMA FailuresAreKnown ==
  ASSUME TypeOK, NEW campaign, NEW check \in BlockingFailures(DoctorChecks(Host, {campaign}))
  PROVE  check.id \in Unrepairable \/ \E i \in DOMAIN Repairs : Repairs[i].check = check.id
  <1>1. DOMAIN Host = DOMAIN machine /\ Host.plugin = machine.plugin
    BY MachinesAssumption DEF TypeOK, Host
  <1>2. Host.plugin \in {"unreadable", "unknown", "absent", "off", "enabled"}
    BY <1>1, MachinesAssumption DEF TypeOK
  <1>3. CheckHermesPlugin(Host).status # "fail"
    BY <1>2 DEF CheckHermesPlugin, Check
  <1>4. check # CheckHermesPlugin(Host)
    BY <1>3 DEF BlockingFailures
  <1>5. /\ CheckUvCli(Host).status # "fail" /\ CheckHermesCli(Host).status # "fail"
        /\ CheckDockerCli(Host).status # "fail" /\ CheckActiveEngine(Host).status # "fail"
    BY DEF CheckUvCli, CheckHermesCli, CheckDockerCli, CheckActiveEngine, PassOr, Check
  <1>6. CheckDockerDaemon(Host).status # "fail"
    BY DEF CheckDockerDaemon, Check
  <1>7. check.id \in {"python_version", "host_platform", "techtree_home",
                      "execution_docker_platform", "execution_engine_eval",
                      "execution_live_campaign", "execution_model_credential",
                      "execution_subject_image"}
    <2>1. \/ check \in {CheckPythonVersion(Host), CheckHostPlatform(Host), CheckTechtreeHome(Host)}
          \/ check \in {CheckDockerPlatform(Host), CheckEngineEval(Host),
                        CheckLiveCampaign(campaign), CheckPrimeAuth(Host),
                        CheckSubjectImage(Host, campaign.runtime)}
      BY <1>4, <1>5, <1>6 DEF BlockingFailures, DoctorChecks, GeneralChecks, ExecutionChecks
    <2> QED BY <2>1 DEF CheckPythonVersion, CheckHostPlatform, CheckTechtreeHome,
         CheckDockerPlatform, CheckEngineEval, CheckLiveCampaign, CheckPrimeAuth,
         CheckSubjectImage, PassOr, Check
  <1> QED BY <1>7 DEF Unrepairable, Repairs

\* Asked as the worker will ask, a host answers what the machine would.
LEMMA SameCredential ==
  ASSUME TypeOK PROVE HasCredential(WorkerVisible(Host)) = HasCredential(WorkerVisible(machine))
  <1>1. {"engine", "active", "exported", "primeKey", "prime"} \subseteq DOMAIN machine
    BY MachinesAssumption DEF TypeOK
  <1>2. /\ WorkerVisible(Host).exported = FALSE /\ WorkerVisible(machine).exported = FALSE
        /\ WorkerVisible(Host).primeKey = WorkerVisible(machine).primeKey
        /\ WorkerVisible(Host).prime = WorkerVisible(machine).prime
    BY <1>1 DEF WorkerVisible, Host
  <1> QED BY <1>2 DEF HasCredential, CredentialSource

\* A doctor that found nothing in the way is right about the worker.
LEMMA DoctorIsRight ==
  ASSUME TypeOK, NEW campaign, DoctorAnswers(Host),
         BlockingFailures(DoctorChecks(Host, {campaign})) = {}
  PROVE  WorkerMeets(campaign)
  <1> DEFINE checks == ExecutionChecks(Host, {campaign})
  <1>1. \A check \in checks : check.status # "fail"
    BY DEF BlockingFailures, DoctorChecks
  <1>2. /\ CheckEngineEval(Host) \in checks /\ CheckLiveCampaign(campaign) \in checks
        /\ campaign.subject.seated =>
              /\ CheckPrimeAuth(Host) \in checks
              /\ CheckSubjectImage(Host, campaign.runtime) \in checks
    BY DEF ExecutionChecks
  <1> HIDE DEF checks
  <1>3. LiveCampaign(campaign)
    BY <1>1, <1>2 DEF CheckLiveCampaign, PassOr, Check
  <1>4. campaign.subject.seated
    BY <1>3 DEF LiveCampaign
  <1>5. HasCredential(WorkerVisible(Host))
    BY <1>1, <1>2, <1>4 DEF CheckPrimeAuth, PassOr, Check
  <1>6. ResolvesSubjectImage(Host.image, campaign.runtime)
    BY <1>1, <1>2, <1>4 DEF CheckSubjectImage, PassOr, Check
  <1>7. /\ Host.engine.record /\ Host.engine.venv \in {"whole", "broken"}
        /\ CheckEngineEval(Host).status = "pass"
    BY <1>1, <1>2 DEF CheckEngineEval, PassOr, Check
  <1>8. Host.engine = engine /\ Host.image = machine.image
    BY MachinesAssumption DEF TypeOK, Host
  <1>9. engine.bundle # "absent"
    BY <1>7, <1>8 DEF DoctorAnswers
  <1> QED BY <1>3, <1>5, <1>6, <1>7, <1>8, <1>9, SameCredential
          DEF WorkerMeets, ResolvesEngine, Recorded

\* Both halves of what a doctor owes a Climb, of any host.
LEMMA DoctorSpeaks == TypeOK => DoctorSpeaksForTheWorker
  <1> SUFFICES ASSUME TypeOK, NEW campaign \in Campaigns
               PROVE  LET checks == DoctorChecks(Host, {campaign})
                      IN  /\ DoctorAnswers(Host) /\ BlockingFailures(checks) = {}
                                => WorkerMeets(campaign)
                          /\ \A check \in BlockingFailures(checks) : IsAdvised(check, checks)
    BY DEF DoctorSpeaksForTheWorker
  <1> DEFINE checks == DoctorChecks(Host, {campaign})
  <1>1. ASSUME NEW check \in BlockingFailures(checks), check.id \notin Unrepairable
        PROVE  IsAdvised(check, checks)
    <2>1. PICK r \in DOMAIN Repairs : Repairs[r].check = check.id
      BY <1>1, FailuresAreKnown
    <2>2. NeedsRepair(checks, Repairs[r].check)
      BY <2>1 DEF NeedsRepair, BlockingFailures
    <2> HIDE DEF checks
    <2>3. \/ Cardinality(NextActions(checks)) = MaxNextActions
          \/ Repairs[r].action \in NextActions(checks)
      BY <2>2, RepairsAreOffered
    <2> QED BY <2>1, <2>3 DEF IsAdvised
  <1>2. ASSUME NEW check, check.id \in Unrepairable PROVE IsAdvised(check, checks)
    BY <1>2 DEF IsAdvised
  <1> QED BY <1>1, <1>2, DoctorIsRight

\* Whatever the commands have made of the host so far, a doctor that finds
\* nothing in the way of a Climb is right about the worker, and one that does
\* offers the repair or three others (doctor/service.py, next_actions).
THEOREM DoctorsSpeakForTheWorker == Spec => []DoctorSpeaksForTheWorker
  BY SetupTypes, DoctorSpeaks, PTL
=============================================================================
