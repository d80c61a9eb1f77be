---------------------------- MODULE RecipeCircuit ----------------------------
(***************************************************************************)
(* The circuit breaker in front of the recipe model (reliability.py): three *)
(* transient failures in a row open it for thirty seconds, then one call    *)
(* may try whether the worker is back.  A ticket is the generation in which *)
(* a call was admitted; each opening starts a new generation, so that late  *)
(* answers of an earlier one change nothing.                                *)
(***************************************************************************)
EXTENDS Naturals, FiniteSets

CONSTANTS
    Load,         \* the recommendations that may call the model
    Threshold,    \* failures in a row that open the circuit (3 in the code)
    None

ASSUME ThresholdAssumption == Threshold \in Nat \ {0}
ASSUME NoneAssumption == None \notin Nat

VARIABLES
    failures,     \* transient failures since the last success
    open,         \* open_until: "no" (0.0), "cooling" (ahead), "over" (passed)
    probing,      \* whether a call is trying the worker
    generation,   \* how often the circuit has opened
    ticket        \* the generation each call was admitted in, or None

cvars == <<failures, open, probing, generation, ticket>>

Opening == {"no", "cooling", "over"}

CInit ==
    /\ failures = 0
    /\ open = "no"
    /\ probing = FALSE
    /\ generation = 0
    /\ ticket = [l \in Load |-> None]

\* acquire() refuses while the circuit cools and while another call probes.
Refuses == open = "cooling" \/ (open = "over" /\ probing)

\* acquire()
Acquire(l) ==
    /\ ~Refuses
    /\ probing' = (open = "over" \/ probing)
    /\ ticket' = [ticket EXCEPT ![l] = generation]
    /\ UNCHANGED <<failures, open, generation>>

Returned(l) == ticket' = [ticket EXCEPT ![l] = None]

\* Mutant form: generations are not compared.
NeverStale(l) == ticket[l] = None

\* The answer of a call that an earlier generation admitted.
Stale(l) == ticket[l] # generation

\* The half-open trial failed, or the failures in a row are enough.
Trips == probing \/ failures + 1 >= Threshold

\* finish(ticket)
Succeed(l) ==
    /\ ticket[l] # None
    /\ Returned(l)
    /\ IF Stale(l)
       THEN UNCHANGED <<failures, open, probing, generation>>
       ELSE failures' = 0 /\ open' = "no" /\ probing' = FALSE /\ UNCHANGED generation

\* finish(ticket, transient=True)
Fail(l) ==
    /\ ticket[l] # None
    /\ Returned(l)
    /\ IF Stale(l)
       THEN UNCHANGED <<failures, open, probing, generation>>
       ELSE /\ failures' = failures + 1
            /\ open' = IF Trips THEN "cooling" ELSE open
            /\ generation' = IF Trips THEN generation + 1 ELSE generation
            /\ probing' = FALSE

\* cancel(ticket): the recommendation was cancelled.
CancelCall(l) ==
    /\ ticket[l] # None
    /\ Returned(l)
    /\ probing' = (probing /\ Stale(l))
    /\ UNCHANGED <<failures, open, generation>>

\* Time passes: the cooldown is over.
CooledDown ==
    /\ open = "cooling"
    /\ open' = "over"
    /\ UNCHANGED <<failures, probing, generation, ticket>>

CNext ==
    \/ \E l \in Load : \/ ticket[l] = None /\ Acquire(l)
                       \/ Succeed(l)
                       \/ Fail(l)
                       \/ CancelCall(l)
    \/ CooledDown

CSpec == CInit /\ [][CNext]_cvars

-----------------------------------------------------------------------------
(* Properties *)

CTypeOK ==
    /\ failures \in Nat
    /\ open \in Opening
    /\ probing \in BOOLEAN
    /\ generation \in Nat
    /\ ticket \in [Load -> Nat \cup {None}]

\* The calls whose answer still counts.
Current == {l \in Load : ticket[l] = generation}

\* An open circuit tries the worker with one call at a time, knows when it does,
\* and is never stuck: probing is set exactly while that call is out.  A closed
\* one has seen fewer failures in a row than open it.
ProbeIsAlone ==
    /\ \A l \in Load : ticket[l] # None => ticket[l] <= generation
    /\ open = "no" => ~probing /\ failures < Threshold
    /\ open = "cooling" => Current = {}
    /\ open # "no" => /\ probing <=> Current # {}
                      /\ \A k, l \in Current : k = l
=============================================================================
