--------------------------- MODULE MCPageDatabase ---------------------------
(***************************************************************************)
(* PageDatabase for TLC: two flushes and a cancellation against two pages. *)
(***************************************************************************)
EXTENDS PageDatabase, TLC

CONSTANTS r1, r2, c1, p1, p2

MCRuns == {r1, r2}
MCCancels == {c1}
MCPages == {p1, p2}

\* Runs are alike, and so are pages: the properties are all safety.
MCSymmetry == Permutations(MCRuns) \cup Permutations(MCPages)
=============================================================================
