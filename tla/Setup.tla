-------------------------------- MODULE Setup --------------------------------
(***************************************************************************)
(* Making a machine ready: the commands that install and verify the        *)
(* evaluation engine this build ships, and that create and use the local   *)
(* signing identity (engines/installer.py, engines/registry.py,            *)
(* identity/*.py, cli/commands/setup.py, cli/commands/engine.py).          *)
(*                                                                         *)
(* The commands are processes of their own; they share the engine's        *)
(* directory, the marker beside it, the install lock, the active engine of *)
(* the settings and the two files of the identity.  Any of them may be     *)
(* killed between two steps.  A directory is its bundle, its virtual       *)
(* environment and its installed.json; a tree is removed piece by piece,   *)
(* in the order the file system lists it.                                  *)
(***************************************************************************)
EXTENDS Doctor

CONSTANTS
    Commands,   \* the processes that may run
    Machines,   \* what a doctor may find on the host
    Campaigns,  \* the Campaigns a doctor may be asked about
    None,       \* no command, no key
    MaxCrashes, \* commands that are killed
    MaxFaults   \* copies, syncs, writes and queries that fail

ASSUME SetupAssumption ==
    /\ None \notin Commands
    /\ None \notin [owner : Commands, written : BOOLEAN]
    /\ MaxCrashes \in Nat /\ MaxFaults \in Nat

\* What a doctor looks at on a host, and what it can read of the plugin.
ASSUME MachinesAssumption ==
    \A host \in Machines :
        /\ DOMAIN host = {"python", "host", "home", "uv", "docker", "daemon", "hermes",
                          "plugin", "exported", "primeKey", "prime", "image",
                          "engine", "active"}
        /\ host.plugin \in {"unreadable", "unknown", "absent", "off", "enabled"}

VARIABLES
    machine,    \* the host, as the doctor sees it
    engine,     \* the engine's directory
    marker,     \* .installing-<digest> is there
    lock,       \* the holder of .install.lock
    active,     \* the settings name this engine
    key,        \* the private half: whose key, and whether its bytes are there
    public,     \* the public half: whose key it describes
    signed,     \* the receipts signed: under which key, naming which key
    kind, pc,   \* what each command is and where it stands
    crashes, faults,
    torn,       \* a removal was cut short
    doubted     \* a sound environment failed its query

vars == <<machine, engine, marker, lock, active, key, public, signed, kind, pc,
          crashes, faults, torn, doubted>>

Kinds == {"setup", "install", "verify", "worker"}
Ended == {"done", "failed", "crashed"}
NoEngine == [bundle |-> "absent", venv |-> "absent", record |-> FALSE]

Whole == engine.bundle = "whole" /\ engine.venv = "whole"
Empty == engine = NoEngine
Recorded == engine.record

\* The host as a doctor would see it now.
Host == [machine EXCEPT !.engine = engine, !.active = active]

At(p, place) == pc[p] = place
Goto(p, place) == pc' = [pc EXCEPT ![p] = place]

identity == <<key, public, signed>>
history == <<torn, doubted>>
budgets == <<crashes, faults>>
fixed == <<machine, kind>>

Fault == faults < MaxFaults /\ faults' = faults + 1

----------------------------------------------------------------------------
(* Before the lock. *)

\* A setup asks the doctor; every command on the engine needs uv, and an
\* installation a host the engine supports.
MayProceed(p) ==
    /\ kind[p] = "setup" => BlockingFailures(GeneralChecks(Host)) = {}
    /\ kind[p] \in {"setup", "install", "verify"} => machine.uv # "absent"
    /\ kind[p] \in {"setup", "install"} => machine.host

FirstStep(k) ==
    CASE k \in {"setup", "install"} -> "locking"
      [] k = "verify" -> "rehash"
      [] k = "worker" -> "identity"

Start(p) ==
    /\ At(p, "idle")
    /\ Goto(p, IF MayProceed(p) THEN FirstStep(kind[p]) ELSE "failed")
    /\ UNCHANGED <<engine, marker, lock, active, identity, history, budgets, fixed>>

\* Mutant of AcquireLock: an install does not wait for another.
AcquireAnyway(p) ==
    /\ At(p, "locking")
    /\ lock' = p
    /\ Goto(p, "discard")
    /\ UNCHANGED <<engine, marker, active, identity, history, budgets, fixed>>

AcquireLock(p) ==
    /\ At(p, "locking") /\ lock = None
    /\ lock' = p
    /\ Goto(p, "discard")
    /\ UNCHANGED <<engine, marker, active, identity, history, budgets, fixed>>

LockTimeout(p) ==
    /\ At(p, "locking") /\ lock # None
    /\ Goto(p, "failed")
    /\ UNCHANGED <<engine, marker, lock, active, identity, history, budgets, fixed>>

----------------------------------------------------------------------------
(* Under the lock. *)

\* One step of remove_tree.
RemovePiece ==
    \E piece \in DOMAIN engine :
        /\ engine[piece] # NoEngine[piece]
        /\ engine' = [engine EXCEPT ![piece] = NoEngine[piece]]

Interrupted == marker /\ ~Recorded

\* What a killed install left goes; beside a finished one only the marker does.
DiscardInterrupted(p) ==
    /\ At(p, "discard")
    /\ IF Interrupted /\ ~Empty
       THEN RemovePiece /\ UNCHANGED <<marker, pc>>
       ELSE marker' = FALSE /\ Goto(p, "look") /\ UNCHANGED engine
    /\ UNCHANGED <<lock, active, identity, history, budgets, fixed>>

\* The environment is asked what it is.  A sound one may fail to answer, in time.
Answers == engine.venv = "whole"

AfterInstall(p) == IF kind[p] = "setup" THEN "activate" ELSE "done"

\* Mutant of Look: an installed engine is built again, never reused.
BuildAgain(p) ==
    /\ At(p, "look")
    /\ Goto(p, "clear")
    /\ UNCHANGED <<engine, marker, lock, active, identity, history, budgets, fixed>>

Look(p) ==
    /\ At(p, "look")
    /\ \/ /\ ~Recorded
          /\ Goto(p, "clear")
          /\ UNCHANGED <<lock, doubted, faults>>
       \/ /\ Recorded /\ Answers
          /\ Goto(p, AfterInstall(p))
          /\ lock' = None
          /\ UNCHANGED <<doubted, faults>>
       \/ /\ Recorded /\ ~Answers
          /\ Goto(p, "clear")
          /\ UNCHANGED <<lock, doubted, faults>>
       \/ /\ Recorded /\ Answers /\ Fault
          /\ doubted' = TRUE
          /\ Goto(p, "clear")
          /\ UNCHANGED lock
    /\ UNCHANGED <<engine, marker, active, identity, crashes, torn, fixed>>

\* Whatever is there goes, and then the new install announces itself.
Clear(p) ==
    /\ At(p, "clear")
    /\ IF Empty
       THEN marker' = TRUE /\ Goto(p, "copy") /\ UNCHANGED engine
       ELSE RemovePiece /\ UNCHANGED <<marker, pc>>
    /\ UNCHANGED <<lock, active, identity, history, budgets, fixed>>

NextPart(part) == IF part = "absent" THEN "part" ELSE "whole"

Build(p, place, piece, after) ==
    /\ At(p, place)
    /\ \/ /\ engine' = [engine EXCEPT ![piece] = NextPart(@)]
          /\ Goto(p, IF engine'[piece] = "whole" THEN after ELSE place)
          /\ UNCHANGED faults
       \/ /\ Fault
          /\ Goto(p, "undo")
          /\ UNCHANGED engine
    /\ UNCHANGED <<marker, lock, active, identity, history, crashes, fixed>>

CopyBundle(p) == Build(p, "copy", "bundle", "sync")
Sync(p) == Build(p, "sync", "venv", "check")

CheckEnvironment(p) ==
    /\ At(p, "check")
    /\ \/ Answers /\ Goto(p, "record") /\ UNCHANGED faults
       \/ ~Answers /\ Goto(p, "undo") /\ UNCHANGED faults
       \/ Fault /\ Goto(p, "undo")
    /\ UNCHANGED <<engine, marker, lock, active, identity, history, crashes, fixed>>

\* The tree goes before the marker that vouches for nothing being there.
Undo(p) ==
    /\ At(p, "undo")
    /\ IF Empty
       THEN marker' = FALSE /\ lock' = None /\ Goto(p, "failed") /\ UNCHANGED engine
       ELSE RemovePiece /\ UNCHANGED <<marker, lock, pc>>
    /\ UNCHANGED <<active, identity, history, budgets, fixed>>

\* A failure here is outside the handler that undoes: it leaves everything.
Record(p) ==
    /\ At(p, "record")
    /\ \/ /\ engine' = [engine EXCEPT !.record = TRUE]
          /\ Goto(p, "unmark")
          /\ UNCHANGED <<lock, faults>>
       \/ /\ Fault
          /\ lock' = None /\ Goto(p, "failed")
          /\ UNCHANGED engine
    /\ UNCHANGED <<marker, active, identity, history, crashes, fixed>>

RemoveMarker(p) ==
    /\ At(p, "unmark")
    /\ marker' = FALSE /\ lock' = None
    /\ Goto(p, AfterInstall(p))
    /\ UNCHANGED <<engine, active, identity, history, budgets, fixed>>

----------------------------------------------------------------------------
(* After the lock. *)

SetActive(p) ==
    /\ At(p, "activate")
    /\ IF Recorded
       THEN active' = TRUE /\ Goto(p, "rehash")
       ELSE Goto(p, "failed") /\ UNCHANGED active
    /\ UNCHANGED <<engine, marker, lock, identity, history, budgets, fixed>>

VerifyFiles(p) ==
    /\ At(p, "rehash")
    /\ Goto(p, IF Recorded /\ engine.bundle = "whole" THEN "query" ELSE "failed")
    /\ UNCHANGED <<engine, marker, lock, active, identity, history, budgets, fixed>>

AfterVerify(p) == IF kind[p] = "setup" THEN "identity" ELSE "done"

\* Verifying reads the descriptor, then asks the environment.
VerifyEnvironment(p) ==
    /\ At(p, "query")
    /\ \/ engine.bundle # "absent" /\ Answers /\ Goto(p, AfterVerify(p)) /\ UNCHANGED faults
       \/ ~(engine.bundle # "absent" /\ Answers) /\ Goto(p, "failed") /\ UNCHANGED faults
       \/ Fault /\ Goto(p, "failed")
    /\ UNCHANGED <<engine, marker, lock, active, identity, history, crashes, fixed>>

----------------------------------------------------------------------------
(* The identity. *)

IdentityExists == key # None /\ public # None
AfterEnsure(p) == IF kind[p] = "worker" THEN "sign" ELSE "done"

\* Mutant of Ensure: the key file alone is taken for an identity.
EnsureKeyOnly(p) ==
    /\ At(p, "identity")
    /\ Goto(p, IF key # None THEN AfterEnsure(p) ELSE "create")
    /\ UNCHANGED <<engine, marker, lock, active, identity, history, budgets, fixed>>

Ensure(p) ==
    /\ At(p, "identity")
    /\ Goto(p, IF IdentityExists THEN "pair" ELSE "create")
    /\ UNCHANGED <<engine, marker, lock, active, identity, history, budgets, fixed>>

\* Mutant of OpenExclusive: the key file is opened for writing.
OpenForWriting(p) ==
    /\ At(p, "create")
    /\ key' = [owner |-> p, written |-> FALSE] /\ Goto(p, "write")
    /\ UNCHANGED <<engine, marker, lock, active, public, signed, history, budgets, fixed>>

\* O_EXCL: the file is created here or it is a conflict.
OpenExclusive(p) ==
    /\ At(p, "create")
    /\ IF key = None
       THEN key' = [owner |-> p, written |-> FALSE] /\ Goto(p, "write")
       ELSE Goto(p, "failed") /\ UNCHANGED key
    /\ UNCHANGED <<engine, marker, lock, active, public, signed, history, budgets, fixed>>

WriteKey(p) ==
    /\ At(p, "write")
    /\ key' = [owner |-> p, written |-> TRUE]
    /\ Goto(p, "publish")
    /\ UNCHANGED <<engine, marker, lock, active, public, signed, history, budgets, fixed>>

WritePublic(p) ==
    /\ At(p, "publish")
    /\ public' = p
    /\ Goto(p, AfterEnsure(p))
    /\ UNCHANGED <<engine, marker, lock, active, key, signed, history, budgets, fixed>>

PairVerifies == key.written /\ key.owner = public

VerifyPair(p) ==
    /\ At(p, "pair")
    /\ Goto(p, IF PairVerifies THEN AfterEnsure(p) ELSE "failed")
    /\ UNCHANGED <<engine, marker, lock, active, identity, history, budgets, fixed>>

\* The receipt names the public half and is signed with the private one.
SignObject(p) ==
    /\ At(p, "sign")
    /\ signed' = signed \cup {[under |-> key.owner, names |-> public]}
    /\ Goto(p, "done")
    /\ UNCHANGED <<engine, marker, lock, active, key, public, history, budgets, fixed>>

----------------------------------------------------------------------------
(* What happens to a machine. *)

\* The system releases a dead command's lock.  A removal is torn when no
\* marker says that what is left is not an engine.
Crash(p) ==
    /\ pc[p] \notin Ended \cup {"idle"}
    /\ crashes < MaxCrashes
    /\ crashes' = crashes + 1
    /\ lock' = IF lock = p THEN None ELSE lock
    /\ torn' = (torn \/ (At(p, "clear") /\ ~Empty))
    /\ Goto(p, "crashed")
    /\ UNCHANGED <<engine, marker, active, identity, doubted, faults, fixed>>

\* The interpreter an environment was built on is upgraded or removed.
BreakEnvironment ==
    /\ engine.venv = "whole" /\ Fault
    /\ \A p \in Commands : pc[p] \notin {"copy", "sync", "check"}
    /\ engine' = [engine EXCEPT !.venv = "broken"]
    /\ doubted' = TRUE
    /\ UNCHANGED <<marker, lock, active, identity, kind, pc, crashes, torn, machine>>

----------------------------------------------------------------------------

Init ==
    /\ machine \in Machines
    /\ engine = NoEngine /\ marker = FALSE /\ lock = None /\ active = FALSE
    /\ key = None /\ public = None /\ signed = {}
    /\ kind \in [Commands -> Kinds]
    /\ pc = [p \in Commands |-> "idle"]
    /\ crashes = 0 /\ faults = 0
    /\ torn = FALSE /\ doubted = FALSE

Step(p) ==
    \/ Start(p) \/ AcquireLock(p) \/ LockTimeout(p) \/ DiscardInterrupted(p)
    \/ Look(p) \/ Clear(p) \/ CopyBundle(p) \/ Sync(p) \/ CheckEnvironment(p)
    \/ Undo(p) \/ Record(p) \/ RemoveMarker(p)
    \/ SetActive(p) \/ VerifyFiles(p) \/ VerifyEnvironment(p)
    \/ Ensure(p) \/ OpenExclusive(p) \/ WriteKey(p) \/ WritePublic(p)
    \/ VerifyPair(p) \/ SignObject(p)

Next ==
    \/ \E p \in Commands : Step(p) \/ Crash(p)
    \/ BreakEnvironment

Spec == Init /\ [][Next]_vars

----------------------------------------------------------------------------
(* Properties *)

Parts == {"absent", "part", "whole"}

\* Every variable stays in its domain; at most one command is under the lock.
TypeOK ==
    /\ machine \in Machines
    /\ engine \in [bundle : Parts, venv : Parts \cup {"broken"}, record : BOOLEAN]
    /\ marker \in BOOLEAN /\ active \in BOOLEAN
    /\ lock \in Commands \cup {None}
    /\ key \in {None} \cup [owner : Commands, written : BOOLEAN]
    /\ public \in Commands \cup {None}
    /\ signed \subseteq [under : Commands, names : Commands]
    /\ kind \in [Commands -> Kinds]
    /\ crashes \in 0..MaxCrashes /\ faults \in 0..MaxFaults
    /\ torn \in BOOLEAN /\ doubted \in BOOLEAN

\* "A machine can always tell the difference between the two reasons an engine
\* might be absent" (engines/installer.py): of all the installs that raced,
\* failed, waited or were killed none leaves a record beside half a bundle or
\* half an environment, nor anything unrecorded without the marker beside it,
\* but for a removal that the next install is making or that was cut short.
EngineIsWholeOrAnnounced ==
    \/ Empty
    \/ Recorded /\ engine.bundle = "whole" /\ engine.venv \in {"whole", "broken"}
    \/ ~Recorded /\ marker
    \/ torn
    \/ \E p \in Commands : lock = p /\ At(p, "clear")

\* What a setup that succeeded said stays true, whatever other commands do or
\* fail at, as long as the environment answers: the engine is whole and active
\* and the machine has an identity whose halves belong together.
ReadyStaysReady ==
    \A p \in Commands :
        kind[p] = "setup" /\ At(p, "done") =>
            /\ IdentityExists /\ PairVerifies
            /\ active
            /\ (Recorded /\ Whole) \/ doubted

\* Every receipt this machine ever signed verifies with its public half.
ReceiptsStayVerifiable ==
    \A receipt \in signed : receipt.under = public /\ receipt.names = public

\* What a run will ask of this machine before it spends anything.
WorkerMeets(campaign) ==
    /\ LiveCampaign(campaign)
    /\ ResolvesEngine([installed |-> Recorded, verified |-> Recorded, recorded |-> Recorded])
    /\ engine.bundle # "absent"
    /\ engine.venv \in {"whole", "broken"}
    /\ HasCredential(WorkerVisible(machine))
    /\ ResolvesSubjectImage(machine.image, campaign.runtime)

\* No action repairs an unsupported host or a Campaign that is not live.
Unrepairable == {"host_platform", "execution_live_campaign"}

\* A repair is offered, unless there is none or three others come first.
IsAdvised(check, checks) ==
    \/ check.id \in Unrepairable
    \/ Cardinality(NextActions(checks)) = MaxNextActions
    \/ \E i \in DOMAIN Repairs :
           Repairs[i].check = check.id /\ Repairs[i].action \in NextActions(checks)

\* A doctor that found nothing in the way of a Climb spoke for the worker, which
\* runs without this terminal's variables and asks for itself; whatever it found
\* in the way, it says what to do about.
DoctorSpeaksForTheWorker ==
    \A campaign \in Campaigns :
        LET checks == DoctorChecks(Host, {campaign})
        IN  /\ DoctorAnswers(Host) /\ BlockingFailures(checks) = {}
                  => WorkerMeets(campaign)
            /\ \A check \in BlockingFailures(checks) : IsAdvised(check, checks)

=============================================================================
