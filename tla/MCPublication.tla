--------------------------- MODULE MCPublication ---------------------------
(* A small instance of Publication: two commands that may overlap. *)
EXTENDS Publication, TLC

CONSTANTS p1, p2

MCPublishers == {p1, p2}

\* The commands run the same steps.
Symmetry == Permutations(MCPublishers)
=============================================================================
