------------------------------ MODULE RunStore ------------------------------
(***************************************************************************)
(* The run directory and the operations of RunStore on it, called by any   *)
(* number of processes in any order: request.json and the report are       *)
(* written once, the journal only grows, state.json is a cache of its      *)
(* reduction.  Every writing operation holds the per-run file lock from    *)
(* its read of the journal to its write of the projection; state() reads   *)
(* the cache and then the journal without it.  A process may die between   *)
(* any two file operations, which releases the lock and leaves the files.  *)
(*                                                                         *)
(* Source: src/techtree/runs/store.py.                                     *)
(*                                                                         *)
(* A refused operation writes nothing and releases the lock, so it is a    *)
(* step the model does not take.  Appending one event is one step here;    *)
(* JournalFile is what that step is made of.                               *)
(***************************************************************************)
EXTENDS RunMachine, FiniteSets

CONSTANTS
  Procs,       \* processes that call the store
  MaxEvents,   \* bound: events in a journal
  MaxReports,  \* bound: repeatable events that leave the phase alone
  MaxCrashes   \* bound: processes that die inside an operation

ASSUME StoreBounds == /\ None \notin Procs
                      /\ MaxEvents \in Nat
                      /\ MaxReports \in Nat
                      /\ MaxCrashes \in Nat

VARIABLES
  requested,   \* whether request.json exists
  journal,     \* the events of events.jsonl
  cache,       \* what state.json holds, None while there is none
  pid_file,    \* what the pid file holds
  report,      \* the digest of report/uplift.json
  heartbeat,   \* whether heartbeat.json exists
  lock,        \* the process that holds the run's lock
  pc,          \* per process: the next step of its operation
  pending,     \* per process: the event it has prepared
  view,        \* per process: the state it has read or is about to write
  crashes

files == <<requested, journal, cache, pid_file, report, heartbeat>>
vars == <<requested, journal, cache, pid_file, report, heartbeat,
          lock, pc, pending, view, crashes>>

Steps == {"idle", "write_pid", "write_result", "append", "project", "store",
          "read", "rebuild"}

\* The kinds callers hand to append().  The others have an operation of their own.
AppendedKinds == EventKinds \ {"run.created", "worker.started", "result.written",
                               "cancel.requested"}

\* The steps of an operation that holds the lock.
Locked == {"write_pid", "write_result", "append", "project", "store"}

Init ==
  /\ requested = FALSE
  /\ journal = <<>>
  /\ cache = None
  /\ pid_file = None
  /\ report = None
  /\ heartbeat = FALSE
  /\ lock = None
  /\ pc = [p \in Procs |-> "idle"]
  /\ pending = [p \in Procs |-> None]
  /\ view = [p \in Procs |-> None]
  /\ crashes = 0

-----------------------------------------------------------------------------
(* Taking the lock and preparing an event *)

\* Mutant of LockFree: the per-run lock is forgotten.
LockIgnored == TRUE

LockFree == lock = None

Goto(p, step) == pc' = [pc EXCEPT ![p] = step]

\* The kinds a run may record any number of times.
Repeatable == SamePhaseKinds \ {"result.written"}

\* The bounds of the model: it records no event beyond them.
Room(kind) ==
  /\ Len(journal) < MaxEvents
  /\ kind \in Repeatable =>
       Cardinality({n \in 1 .. Len(journal) : journal[n].kind \in Repeatable})
         < MaxReports

\* _prepare_event: read the journal, build the next event, refuse it if the
\* machine would.  The lock is taken in the same step as the journal is read.
Prepare(p, phase, kind, detail, step) ==
  LET event == EventAfter(HeadState(journal), phase, kind, detail)
  IN /\ LockFree
     /\ requested
     /\ journal # <<>>
     /\ Room(kind)
     /\ Applies(HeadState(journal), event)
     /\ lock' = p
     /\ pending' = [pending EXCEPT ![p] = event]
     /\ Goto(p, step)

\* create: the request is written once, then the event that opens the journal.
Create(p) ==
  /\ pc[p] = "idle"
  /\ LockFree
  /\ ~requested
  /\ requested' = TRUE
  /\ lock' = p
  /\ pending' = [pending EXCEPT ![p] = CreatedEvent]
  /\ Goto(p, "append")
  /\ UNCHANGED <<journal, cache, pid_file, report, heartbeat, view, crashes>>

AppendEvent(p, phase, kind, detail) ==
  /\ pc[p] = "idle"
  /\ Prepare(p, phase, kind, detail, "append")
  /\ UNCHANGED <<files, view, crashes>>

\* Asking again, or asking a run that has ended, records nothing.
RequestCancel(p) ==
  /\ pc[p] = "idle"
  /\ journal # <<>>
  /\ HeadPhase(journal) # "cancel_requested"
  /\ ~IsTerminal(HeadPhase(journal))
  /\ Prepare(p, "cancel_requested", "cancel.requested", None, "append")
  /\ UNCHANGED <<files, view, crashes>>

WritePid(p, pid) ==
  /\ pc[p] = "idle"
  /\ journal # <<>>
  /\ ~IsTerminal(HeadPhase(journal))
  /\ Prepare(p, None, "worker.started", pid, "write_pid")
  /\ UNCHANGED <<files, view, crashes>>

\* Mutant of WriteResult: the event is appended and the report forgotten.
WriteResultEventOnly(p, digest) ==
  /\ pc[p] = "idle"
  /\ journal # <<>>
  /\ Prepare(p, None, "result.written", digest, "append")
  /\ UNCHANGED <<files, view, crashes>>

WriteResult(p, digest) ==
  /\ pc[p] = "idle"
  /\ journal # <<>>
  /\ ~IsTerminal(HeadPhase(journal))
  /\ Prepare(p, None, "result.written", digest, "write_result")
  /\ UNCHANGED <<files, view, crashes>>

\* The heartbeat touches its own file and refreshes the projection; it asks
\* nothing of the phase the run is in.
WriteHeartbeat(p) ==
  /\ pc[p] = "idle"
  /\ LockFree
  /\ journal # <<>>
  /\ lock' = p
  /\ heartbeat' = TRUE
  /\ Goto(p, "project")
  /\ UNCHANGED <<requested, journal, cache, pid_file, report, pending, view, crashes>>

-----------------------------------------------------------------------------
(* The file operations of an operation that holds the lock *)

WritePidFile(p) ==
  /\ pc[p] = "write_pid"
  /\ pid_file' = pending[p].detail
  /\ Goto(p, "append")
  /\ UNCHANGED <<requested, journal, cache, report, heartbeat, lock, pending, view, crashes>>

\* Mutant of WriteReport: the report is replaced instead of created exclusively.
WriteReportOver(p) ==
  /\ pc[p] = "write_result"
  /\ report' = pending[p].detail
  /\ Goto(p, "append")
  /\ UNCHANGED <<requested, journal, cache, pid_file, heartbeat, lock, pending, view, crashes>>

\* The report is created exclusively: a run that has one refuses another.
WriteReport(p) ==
  /\ pc[p] = "write_result"
  /\ IF report = None
     THEN /\ report' = pending[p].detail
          /\ Goto(p, "append")
          /\ UNCHANGED <<lock, pending>>
     ELSE /\ lock' = None
          /\ pending' = [pending EXCEPT ![p] = None]
          /\ Goto(p, "idle")
          /\ UNCHANGED report
  /\ UNCHANGED <<requested, journal, cache, pid_file, heartbeat, view, crashes>>

\* Mutant of CommitEvent: the projection is stored before the event is on disk.
CommitProjectionFirst(p) ==
  LET next == IF journal = <<>> THEN OpeningState
              ELSE Project(ReduceEvents(journal), pending[p])
  IN /\ pc[p] = "append"
     /\ IF cache = next
        THEN /\ journal' = Append(journal, pending[p])
             /\ pending' = [pending EXCEPT ![p] = None]
             /\ Goto(p, "project")
             /\ UNCHANGED cache
        ELSE cache' = next /\ UNCHANGED <<journal, pending, pc>>
     /\ UNCHANGED <<requested, pid_file, report, heartbeat, lock, view, crashes>>

CommitEvent(p) ==
  /\ pc[p] = "append"
  /\ journal' = Append(journal, pending[p])
  /\ pending' = [pending EXCEPT ![p] = None]
  /\ Goto(p, "project")
  /\ UNCHANGED <<requested, cache, pid_file, report, heartbeat, lock, view, crashes>>

\* _write_projection reads the whole journal back ...
ReduceJournal(p) ==
  /\ pc[p] = "project"
  /\ view' = [view EXCEPT ![p] = ReduceEvents(journal)]
  /\ Goto(p, "store")
  /\ UNCHANGED <<files, lock, pending, crashes>>

\* ... and replaces state.json with its reduction.
StoreProjection(p) ==
  /\ pc[p] = "store"
  /\ cache' = view[p]
  /\ view' = [view EXCEPT ![p] = None]
  /\ lock' = None
  /\ Goto(p, "idle")
  /\ UNCHANGED <<requested, journal, pid_file, report, heartbeat, pending, crashes>>

-----------------------------------------------------------------------------
(* Reading without the lock *)

ReadCache(p) ==
  /\ pc[p] = "idle"
  /\ requested
  /\ view' = [view EXCEPT ![p] = cache]
  /\ Goto(p, IF cache = None THEN "rebuild" ELSE "read")
  /\ UNCHANGED <<files, lock, pending, crashes>>

\* Equal: the cache is the answer.  Behind: rebuild.  Ahead: ConflictError.
CompareWithJournal(p) ==
  /\ pc[p] = "read"
  /\ Goto(p, IF view[p].sequence < ReduceEvents(journal).sequence
             THEN "rebuild" ELSE "idle")
  /\ view' = [view EXCEPT ![p] = None]
  /\ UNCHANGED <<files, lock, pending, crashes>>

\* Mutant of RebuildState: a rebuild does not take the lock.
RebuildUnlocked(p) ==
  /\ pc[p] = "rebuild"
  /\ Goto(p, IF journal = <<>> THEN "idle" ELSE "project")
  /\ UNCHANGED <<files, lock, pending, view, crashes>>

\* An empty journal cannot be projected: rebuilding it raises.
RebuildState(p) ==
  /\ pc[p] = "rebuild"
  /\ LockFree
  /\ IF journal = <<>>
     THEN Goto(p, "idle") /\ UNCHANGED lock
     ELSE Goto(p, "project") /\ lock' = p
  /\ UNCHANGED <<files, pending, view, crashes>>

\* Any caller may ask for a rebuild, not only state().
AskRebuild(p) ==
  /\ pc[p] = "idle"
  /\ requested
  /\ Goto(p, "rebuild")
  /\ UNCHANGED <<files, lock, pending, view, crashes>>

-----------------------------------------------------------------------------
(* A process dies: the operating system drops its lock, the files stay. *)

\* Mutant of Crash: the lock is a file a dead process leaves behind.
CrashKeepsLock(p) ==
  /\ pc[p] # "idle"
  /\ crashes < MaxCrashes
  /\ crashes' = crashes + 1
  /\ pending' = [pending EXCEPT ![p] = None]
  /\ view' = [view EXCEPT ![p] = None]
  /\ Goto(p, "idle")
  /\ UNCHANGED <<files, lock>>

Crash(p) ==
  /\ pc[p] # "idle"
  /\ crashes < MaxCrashes
  /\ crashes' = crashes + 1
  /\ lock' = IF lock = p THEN None ELSE lock
  /\ pending' = [pending EXCEPT ![p] = None]
  /\ view' = [view EXCEPT ![p] = None]
  /\ Goto(p, "idle")
  /\ UNCHANGED files

Call(p) ==
  \/ Create(p)
  \/ /\ LockFree
     /\ \E kind \in AppendedKinds, phase \in Phases \union {None} :
          \E detail \in DetailsOf(kind) : AppendEvent(p, phase, kind, detail)
  \/ RequestCancel(p)
  \/ \E pid \in Pids : WritePid(p, pid)
  \/ \E digest \in Digests : WriteResult(p, digest)
  \/ WriteHeartbeat(p)
  \/ ReadCache(p)
  \/ AskRebuild(p)

Continue(p) ==
  \/ WritePidFile(p)
  \/ WriteReport(p)
  \/ CommitEvent(p)
  \/ ReduceJournal(p)
  \/ StoreProjection(p)
  \/ CompareWithJournal(p)
  \/ RebuildState(p)

Next == \E p \in Procs : Call(p) \/ Continue(p) \/ Crash(p)

Spec == Init /\ [][Next]_vars

-----------------------------------------------------------------------------
(* Properties *)

\* The variables that do not hold a projected state.
ShapeOK ==
  /\ requested \in BOOLEAN
  /\ journal \in Seq(Events)
  /\ pid_file \in Pids \union {None}
  /\ report \in Digests \union {None}
  /\ heartbeat \in BOOLEAN
  /\ lock \in Procs \union {None}
  /\ pc \in [Procs -> Steps]
  /\ pending \in [Procs -> Events \union {None}]
  /\ crashes \in 0 .. MaxCrashes

\* Whatever calls were made, interleaved and interrupted, the journal opens
\* with the created event and every later event carries the next sequence
\* number, leaves the phase the one before it entered, and is one the machine
\* allows there.  Two writers that had both prepared an event would break it.
JournalIsLegal ==
  journal # <<>> =>
    /\ journal[1] = CreatedEvent
    /\ \A n \in 2 .. Len(journal) :
         Applies([sequence |-> n - 2, phase |-> journal[n - 1].phase], journal[n])

\* state() raises run_state_ahead_of_journal only for damage: between its
\* unlocked read of the cache and its read of the journal no writer can make
\* the cache it holds run ahead.
ReaderNeverAhead ==
  \A p \in Procs : pc[p] = "read" => view[p].sequence < Len(journal)

\* The pid a reader is shown can be signalled, and the report whose digest the
\* journal records is the one on disk: the file is written before the event
\* that announces it, whichever operation dies between the two.
AnnouncedFilesExist ==
  \A n \in 1 .. Len(journal) :
    /\ journal[n].kind = "worker.started" => pid_file # None
    /\ journal[n].kind = "result.written" => report = journal[n].detail

\* A run that was asked to stop never returns to its work: after the request
\* the journal holds reports on what was in flight and one terminal event that
\* is not run.completed.
CancelNeverRejoins ==
  \A m, n \in 1 .. Len(journal) :
    m < n /\ journal[m].kind = "cancel.requested" =>
      journal[n].kind \in {"progress.updated", "run.failed", "run.cancelled"}

\* What the safety of the store rests on between two file operations: whoever
\* is inside an operation holds the lock, and what it has prepared still
\* follows the journal and is backed by the file it announces.
LockIsHeld == \A p \in Procs : pc[p] \in Locked <=> lock = p

PreparedFollows ==
  \A p \in Procs : pc[p] \in {"write_pid", "write_result", "append"} =>
    /\ requested
    /\ pending[p] \in Events
    /\ IF journal = <<>>
       THEN pc[p] = "append" /\ pending[p] = CreatedEvent
       ELSE Applies(HeadState(journal), pending[p])

PreparedIsBacked ==
  \A p \in Procs :
    /\ pc[p] = "write_pid" => pending[p].kind = "worker.started"
    /\ pc[p] = "write_result" => pending[p].kind = "result.written"
    /\ pc[p] = "append" =>
         /\ pending[p].kind = "worker.started" => pid_file # None
         /\ pending[p].kind = "result.written" => report = pending[p].detail

\* A journal belongs to a request, and a request is written once.
JournalHasRequest == journal # <<>> => requested

\* After a request to stop the run is stopping or has stopped.
StopPhases == {"cancel_requested", "failed", "cancelled"}

CancelSticks ==
  \A m, n \in 1 .. Len(journal) :
    m <= n /\ journal[m].kind = "cancel.requested" => journal[n].phase \in StopPhases

Inv ==
  /\ ShapeOK
  /\ LockIsHeld
  /\ PreparedFollows
  /\ PreparedIsBacked
  /\ JournalHasRequest
  /\ JournalIsLegal
  /\ AnnouncedFilesExist
  /\ CancelSticks
  /\ CancelNeverRejoins

\* The journal is append-only, one event at a time, and the cache never goes
\* back to an older state: a late writer cannot undo what a reader has seen.
HistoryOnlyGrows ==
  [][/\ \/ journal' = journal
        \/ /\ Len(journal') = Len(journal) + 1
           /\ SubSeq(journal', 1, Len(journal)) = journal
     /\ cache # None => cache' # None /\ cache'.sequence >= cache.sequence]_vars

\* The store keeps a run's promise to its watchers.
Lifecycle == INSTANCE RunLifecycle
  WITH phase <- IF journal = <<>> THEN "absent" ELSE HeadPhase(journal)

LifecycleSpec == Lifecycle!Spec
=============================================================================
