---------------------------- MODULE RunLifecycle ----------------------------
(***************************************************************************)
(* What a run promises to whoever watches it, with no journal, no lock and *)
(* no files: it is created once, it moves only along the transition table, *)
(* it holds at most one report, written while the report is being built,   *)
(* and that report never changes afterwards.                               *)
(*                                                                         *)
(* RunStore implements this specification; so does RunControl, where the   *)
(* store's operations are driven by the processes of a real start.         *)
(***************************************************************************)
EXTENDS RunMachine

VARIABLES
  phase,    \* the phase the run is in, "absent" before it exists
  report    \* the report on disk, None while there is none

vars == <<phase, report>>

Init == phase = "absent" /\ report = None

Create == phase = "absent" /\ phase' = "created" /\ UNCHANGED report

Move(target) ==
  /\ phase # "absent"
  /\ target \in AllowedTransitions[phase]
  /\ phase' = target
  /\ UNCHANGED report

RecordReport(digest) ==
  /\ phase = "building_report"
  /\ report = None
  /\ report' = digest
  /\ UNCHANGED phase

Next ==
  \/ Create
  \/ \E target \in Phases : Move(target)
  \/ \E digest \in Digests : RecordReport(digest)

Spec == Init /\ [][Next]_vars
=============================================================================
