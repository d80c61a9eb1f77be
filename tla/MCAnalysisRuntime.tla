------------------------- MODULE MCAnalysisRuntime -------------------------
(* Small instances of AnalysisRuntime: q1, q2, q3 have requestIds of their *)
(* own, q1b conflicts with q1.                                             *)
EXTENDS AnalysisRuntime, TLC

CONSTANTS a1, a2, a3, r1, r2, r3, q1, q1b, q2, q3

TwoRequests   == {q1, q2}
ThreeRequests == {q1, q1b, q2}
ThreeIds      == {q1, q2, q3}
MCIdOf == [q \in Request |-> CASE q = q2 -> r2 [] q = q3 -> r3 [] OTHER -> r1]

QOf(r) == CHOOSE q \in ThreeIds : MCIdOf[q] = r

\* A request and its requestId are renamed together.
Renamed ==
    {[x \in ThreeIds \cup RequestId |->
         IF x \in ThreeIds THEN f[x] ELSE MCIdOf[f[QOf(x)]]] :
     f \in Permutations(ThreeIds)}

Symmetric == Permutations(AnalysisId) \cup Permutations(Consumer)
             \cup Permutations(Task) \cup Renamed
=============================================================================
