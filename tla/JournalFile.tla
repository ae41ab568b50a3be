---------------------------- MODULE JournalFile ----------------------------
(***************************************************************************)
(* The bytes of a run's events.jsonl: one line for each event, written in  *)
(* pieces by processes that hold the run's lock and may fail or die after  *)
(* any piece, made durable by fsync, and read by anyone at any moment.     *)
(* RunStore appends an event in one step; this module is what that step    *)
(* is made of.                                                             *)
(*                                                                         *)
(* Source: src/techtree/runs/events.py (bytes), and the operations of      *)
(* src/techtree/runs/store.py that append.  What an event says is left     *)
(* out: of all that is refused only what cannot be read is.                *)
(***************************************************************************)
EXTENDS Naturals, Sequences, FiniteSets

CONSTANTS
  Writers,      \* processes that append
  Size,         \* bound: pieces of a line before its end
  MaxEvents,    \* bound: events in a file
  MaxFailures,  \* bound: writes that fail and processes that die
  MaxLosses,    \* bound: times the machine loses its power
  None

ASSUME FileBounds == /\ {Size, MaxEvents} \subseteq Nat \ {0}
                     /\ {MaxFailures, MaxLosses} \subseteq Nat
                     /\ None \notin Writers

VARIABLES
  file,         \* the pieces of events.jsonl, as a reader finds them
  durable,      \* how many of them are on the disk
  named,        \* whether the file's directory entry is
  requested,    \* whether request.json exists, which is durable at once
  lock,         \* the process that holds the run's lock
  pc,           \* per process: the next step of its append
  event,        \* per process: the event it appends
  written,      \* per process: how many pieces of its line it has written
  acknowledged, \* the events whose append a caller was told of (history)
  failures, losses

disk == <<file, durable, named, requested>>
vars == <<disk, lock, pc, event, written, acknowledged, failures, losses>>

Steps == {"idle", "write", "sync", "name", "project"}

Events == [sequence : 0 .. MaxEvents - 1, writer : Writers]

\* The last piece of a line is the separator; the others are the event's.
Separator == Size + 1

Pieces == [event : Events, part : 1 .. Separator]

Init ==
  /\ file = <<>>
  /\ durable = 0
  /\ named = FALSE
  /\ requested = FALSE
  /\ lock = None
  /\ pc = [w \in Writers |-> "idle"]
  /\ event = [w \in Writers |-> None]
  /\ written = [w \in Writers |-> 0]
  /\ acknowledged = {}
  /\ failures = 0
  /\ losses = 0

-----------------------------------------------------------------------------
(* Lines and what is read of them *)

\* canonical_json_bytes(event) + separator
LineOf(e) == [n \in 1 .. Separator |-> [event |-> e, part |-> n]]

\* A separator ends a line; what follows the last one is a line too, unless it
\* is nothing.
LineStarts(bytes) ==
  {n \in 1 .. Len(bytes) : n = 1 \/ bytes[n - 1].part = Separator}

LineNumber(bytes, start) == Cardinality({n \in LineStarts(bytes) : n < start}) + 1

LineFrom(bytes, start) ==
  LET ends == {n \in start .. Len(bytes) : bytes[n].part = Separator}
      last == CHOOSE n \in start .. Len(bytes) :
                IF ends = {} THEN n = Len(bytes)
                ELSE n \in ends /\ \A m \in ends : n <= m
  IN  SubSeq(bytes, start, last)

\* The events one line may be read as: a whole event, with or without the
\* separator, and nothing else.
IsLineOf(line, e) == line \in {LineOf(e), SubSeq(LineOf(e), 1, Size)}

\* A line is an event of the sequence its place demands.
LineReads(bytes, start) ==
  \E e \in Events :
    e.sequence = LineNumber(bytes, start) - 1 /\ IsLineOf(LineFrom(bytes, start), e)

Readable(bytes) == \A start \in LineStarts(bytes) : LineReads(bytes, start)

\* read_events, of a file it does not refuse.
ReadEvents(bytes) ==
  [n \in 1 .. Cardinality(LineStarts(bytes)) |->
     LET start == CHOOSE s \in LineStarts(bytes) : LineNumber(bytes, s) = n
     IN  bytes[start].event]

-----------------------------------------------------------------------------
(* An append, which holds the lock *)

Goto(w, step) == pc' = [pc EXCEPT ![w] = step]

Begin(w, sequence) ==
  /\ lock' = w
  /\ event' = [event EXCEPT ![w] = [sequence |-> sequence, writer |-> w]]
  /\ written' = [written EXCEPT ![w] = 0]
  /\ Goto(w, "write")

\* create: the request is written, once, and the first event appended unread.
Create(w) ==
  /\ pc[w] = "idle"
  /\ lock = None
  /\ ~requested
  /\ requested' = TRUE
  /\ Begin(w, 0)
  /\ UNCHANGED <<file, durable, named, acknowledged, failures, losses>>

\* Mutant of Prepare: two processes may be inside an append at once.
PrepareUnlocked(w) ==
  /\ pc[w] = "idle"
  /\ Readable(file)
  /\ Len(ReadEvents(file)) \in 1 .. MaxEvents - 1
  /\ Begin(w, Len(ReadEvents(file)))
  /\ UNCHANGED <<disk, acknowledged, failures, losses>>

\* _prepare_event: a journal that cannot be read, or has no event, is refused.
Prepare(w) ==
  /\ pc[w] = "idle"
  /\ lock = None
  /\ Readable(file)
  /\ Len(ReadEvents(file)) \in 1 .. MaxEvents - 1
  /\ Begin(w, Len(ReadEvents(file)))
  /\ UNCHANGED <<disk, acknowledged, failures, losses>>

\* Mutant of Write: a write that took only a part is followed by the whole line.
WriteFromTheStart(w) ==
  /\ pc[w] = "write"
  /\ \E n \in 1 .. Separator :
       /\ file' = file \o SubSeq(LineOf(event[w]), 1, n)
       /\ written' = [written EXCEPT ![w] = @ + n]
       /\ Goto(w, IF written[w] + n >= Separator THEN "sync" ELSE "write")
  /\ UNCHANGED <<durable, named, requested, lock, event, acknowledged, failures, losses>>

\* One os.write, at the end of the file, of as much as it takes.
Write(w) ==
  /\ pc[w] = "write"
  /\ \E upto \in written[w] + 1 .. Separator :
       /\ file' = file \o SubSeq(LineOf(event[w]), written[w] + 1, upto)
       /\ written' = [written EXCEPT ![w] = upto]
       /\ Goto(w, IF upto = Separator THEN "sync" ELSE "write")
  /\ UNCHANGED <<durable, named, requested, lock, event, acknowledged, failures, losses>>

\* Mutant of Sync: the file is not synced.
SyncNothing(w) ==
  /\ pc[w] = "sync"
  /\ Goto(w, "name")
  /\ UNCHANGED <<disk, lock, event, written, acknowledged, failures, losses>>

Sync(w) ==
  /\ pc[w] = "sync"
  /\ durable' = Len(file)
  /\ Goto(w, "name")
  /\ UNCHANGED <<file, named, requested, lock, event, written, acknowledged,
                 failures, losses>>

SyncName(w) ==
  /\ pc[w] = "name"
  /\ named' = TRUE
  /\ Goto(w, "project")
  /\ UNCHANGED <<file, durable, requested, lock, event, written, acknowledged,
                 failures, losses>>

Release(w) ==
  /\ lock' = IF lock = w THEN None ELSE lock
  /\ event' = [event EXCEPT ![w] = None]
  /\ written' = [written EXCEPT ![w] = 0]
  /\ Goto(w, "idle")

\* _write_projection reads the journal back before the caller is answered.
Project(w) ==
  /\ pc[w] = "project"
  /\ acknowledged' = IF Readable(file) THEN acknowledged \union {event[w]}
                     ELSE acknowledged
  /\ Release(w)
  /\ UNCHANGED <<disk, failures, losses>>

\* A write or a sync raises, or the process dies: nothing is taken back.
Abandon(w) ==
  /\ pc[w] # "idle"
  /\ failures < MaxFailures
  /\ failures' = failures + 1
  /\ Release(w)
  /\ UNCHANGED <<disk, acknowledged, losses>>

\* What was not synced may be on the disk in part, and a file whose name is
\* not on the disk may be gone.
PowerLoss ==
  /\ losses < MaxLosses
  /\ losses' = losses + 1
  /\ \E kept \in (durable .. Len(file)) \union (IF named THEN {} ELSE {0}) :
       /\ file' = SubSeq(file, 1, kept)
       /\ durable' = kept
       /\ named' = (named \/ kept > 0)
  /\ lock' = None
  /\ pc' = [w \in Writers |-> "idle"]
  /\ event' = [w \in Writers |-> None]
  /\ written' = [w \in Writers |-> 0]
  /\ UNCHANGED <<requested, acknowledged, failures>>

Continue(w) == Write(w) \/ Sync(w) \/ SyncName(w) \/ Project(w) \/ Abandon(w)

Next == (\E w \in Writers : Create(w) \/ Prepare(w) \/ Continue(w)) \/ PowerLoss

Spec == Init /\ [][Next]_vars

-----------------------------------------------------------------------------
(* Properties *)

TypeOK ==
  /\ file \in Seq(Pieces)
  /\ durable \in 0 .. Len(file)
  /\ named \in BOOLEAN /\ requested \in BOOLEAN
  /\ lock \in Writers \union {None}
  /\ pc \in [Writers -> Steps]
  /\ event \in [Writers -> Events \union {None}]
  /\ written \in [Writers -> 0 .. Separator]
  /\ acknowledged \subseteq Events
  /\ failures \in 0 .. MaxFailures /\ losses \in 0 .. MaxLosses

\* An event whose append a caller was told of is in its place in the file, on
\* a line of its own, whatever was cut short, joined or lost since: a run that
\* was approved, cancelled or completed cannot silently be otherwise after the
\* power was lost.
AcknowledgedIsKept ==
  \A e \in acknowledged :
    \E s \in LineStarts(file) :
      LineNumber(file, s) = e.sequence + 1 /\ LineFrom(file, s) = LineOf(e)

\* One piece may stand behind another: it is the next piece of the same line,
\* or begins a line behind one that is complete but, maybe, for its separator.
Follows(a, b) ==
  \/ b = [a EXCEPT !.part = @ + 1]
  \/ b.part = 1 /\ a.part \in {Size, Separator}

\* Only the last line can be damaged, and nothing is ever written behind an
\* event that was cut short: every later reader and append is refused.  An
\* append that was cut right before its separator is not among these.  What
\* the spec has read_events reject, a "missing final newline" (docs/spec/
\* climb-v0.1-pr6-pr8.md:1818), events.py:398-424 reads as an event; the next
\* append joins its own to that line, which is then the last, cannot be read,
\* and holds an event that was read before.
DamageIsTheLastLine ==
  /\ \A s, t \in LineStarts(file) : s < t => LineReads(file, s)
  /\ \A n \in 1 .. Len(file) - 1 : Follows(file[n], file[n + 1])

\* A reader takes no lock: "The log is only ever appended to, never rewritten,
\* which is what lets a reader that arrives halfway through a run reconstruct
\* everything" (events.py:3).  It is refused while a line is half written, and
\* else only if an append was interrupted.
RefusedForACause ==
  Readable(file) \/ (\E w \in Writers : pc[w] = "write") \/ failures + losses > 0
=============================================================================
