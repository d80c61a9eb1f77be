---------------------------- MODULE MCRecipeJobs ----------------------------
(* Small instances of RecipeJobs.                                          *)
EXTENDS RecipeJobs

CONSTANTS j1, j2, j3, r1, r2, r3, q1, q1b, q2, q3, p1, h1, h2

MCIdOf == [q \in Request |-> CASE q = q2 -> r2 [] q = q3 -> r3 [] OTHER -> r1]
MCBody == [s \in Client |-> IF s = h1 THEN q1 ELSE q3]

\* Two records, and one that reuses the requestId of the first.
MCLog == [p \in Task |-> <<q1, q2, q1b>>]
=============================================================================
