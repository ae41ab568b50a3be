----------------------------- MODULE MCRunStore -----------------------------
(* A small instance of RunStore: two callers, one crash. *)
EXTENDS RunStore, TLC

CONSTANTS p1, p2, w1, d1, d2

MCProcs == {p1, p2}
MCPids == {w1}
MCDigests == {d1, d2}
MCVariants == {"baseline"}

\* The callers run the same operations, so they are interchangeable; so are the
\* two digests.
Symmetry == Permutations(MCProcs) \union Permutations(MCDigests)
=============================================================================
