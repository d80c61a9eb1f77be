--------------------------- MODULE MCAnalysisKafka ---------------------------
(* Small instances of AnalysisKafka.                                       *)
EXTENDS AnalysisKafka, TLC

CONSTANTS a1, a2, a3, r1, r2, q1, q1b, q2, p1, p2

TwoRequests   == {q1, q2}
ThreeRequests == {q1, q1b, q2}
MCIdOf == [q \in Request |-> IF q = q2 THEN r2 ELSE r1]

\* The backend wrote one request twice, and another one in between.
LogTwice == [p \in Task |-> <<q1, q2, q1>>]

\* p2 holds a malformed record; q1b reuses the requestId of q1.
LogHard  == [p \in Task |-> IF p = p1 THEN <<q1, q1b>> ELSE <<Malformed, q2>>]

Symmetric == Permutations(AnalysisId)
=============================================================================
