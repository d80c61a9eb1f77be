---------------------------- MODULE MCInference ----------------------------
(* Small instances of Inference.                                           *)
EXTENDS Inference

CONSTANTS p1, p2, p3, a1, a2, k1, h1

MCRecipe == Reasoning \X {1}
MCReq == (Analysis \X (1 .. MaxPosts)) \cup MCRecipe
MCSlots == [k \in Kind |-> IF k = "inference" THEN 2 ELSE 1]

Absent == [status |-> "none", version |-> 0, ready |-> FALSE]
Up(v) == [status |-> "RUNNING", version |-> v, ready |-> TRUE]
Exited(v) == [status |-> "EXITED", version |-> v, ready |-> FALSE]
Pods(x, y, z) == [p \in Pod |-> CASE p = p1 -> x [] p = p2 -> y [] OTHER -> z]
Base == [calls |-> {a1}, photos |-> {}, fixed |-> None, pods |-> Pods(Up(1), Absent, Absent),
         faults |-> 1, runs |-> 0, expiries |-> 0]

MCScene == {
    \* Two analyses, one of them a photo of products, at one worker.
    [Base EXCEPT !.calls = {a1, a2}, !.photos = {a2}],
    \* An analysis and a recipe call.
    [Base EXCEPT !.calls = {a1, k1}],
    \* A configured address.
    [Base EXCEPT !.fixed = p1],
    \* Two workers, the health check, and an address that expires.
    [Base EXCEPT !.calls = {a1, h1}, !.pods = Pods(Up(1), Up(2), Absent), !.expiries = 1],
    \* The script at work while an analysis runs.
    [Base EXCEPT !.pods = Pods(Up(1), Exited(2), Absent), !.runs = 1, !.faults = 2],
    [Base EXCEPT !.pods = Pods(Up(1), Up(2), Absent), !.runs = 2, !.faults = 0],
    \* Two workers of one version.
    [Base EXCEPT !.pods = Pods(Up(1), Up(1), Absent)]}
=============================================================================
