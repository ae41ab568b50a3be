---------------------------- MODULE MCRunControl ----------------------------
(* Small instances of RunControl: starts, workers, cancellations. *)
EXTENDS RunControl, TLC

CONSTANTS s1, s2, w1, w2, c1

MCOneStarter == {s1}
MCStarters == {s1, s2}
MCOnePid == {w1}
MCPids == {w1, w2}
MCCancellers == {c1}
MCVariants == {"baseline"}

\* Starts run the same steps.  Workers do not: the lowest free pid is launched.
StarterSymmetry == Permutations(MCStarters)
=============================================================================
