------------------------- MODULE RecipeCircuitProofs -------------------------
(***************************************************************************)
(* The circuit breaker for any number of calls and any threshold: its type, *)
(* and that the half-open circuit tries the worker with one call at a time. *)
(***************************************************************************)
EXTENDS RecipeCircuit, TLAPS

\* Both parts together are inductive: ProbeIsAlone needs the types, and the
\* order of the tickets needs the generation to be a number.
CInv == CTypeOK /\ ProbeIsAlone

\* A fresh circuit is closed and has admitted nobody.
LEMMA CircuitStarts == CInit => CInv
<1> SUFFICES ASSUME CInit PROVE CInv
  OBVIOUS
<1>1. CTypeOK
  BY DEF CInit, CTypeOK, Opening
<1>2. \A l \in Load : ticket[l] = None
  BY DEF CInit
<1>3. open = "no" /\ ~probing /\ failures < Threshold
  BY ThresholdAssumption DEF CInit
<1> QED
  BY <1>1, <1>2, <1>3 DEF CInv, ProbeIsAlone

\* acquire() admits any number of calls while the circuit is closed, and one
\* once it has cooled down.
LEMMA AcquireKeeps ==
  ASSUME CInv, NEW l \in Load, ticket[l] = None, Acquire(l)
  PROVE  CInv'
<1>1. CTypeOK'
  BY DEF CInv, CTypeOK, Acquire
<1>2. \A k \in Load : k # l => ticket'[k] = ticket[k]
  BY DEF CInv, CTypeOK, Acquire
<1>3. ticket'[l] = generation /\ generation' = generation /\ open' = open /\ failures' = failures
  BY DEF CInv, CTypeOK, Acquire
<1>4. \A k \in Load : ticket'[k] # None => ticket'[k] <= generation'
  BY <1>2, <1>3 DEF CInv, CTypeOK, ProbeIsAlone
<1>5. CASE open = "no"
  BY <1>1, <1>3, <1>4, <1>5 DEF CInv, ProbeIsAlone, Acquire
<1>6. CASE open # "no"
  <2>1. open = "over" /\ ~probing
    BY <1>6 DEF CInv, CTypeOK, Acquire, Refuses, Opening
  <2>2. Current = {}
    BY <1>6, <2>1 DEF CInv, ProbeIsAlone
  <2>3. Current' = {l}
    BY <1>2, <1>3, <2>2 DEF Current
  <2>4. probing' = TRUE
    BY <2>1 DEF Acquire
  <2> QED
    BY <1>1, <1>3, <1>4, <1>6, <2>1, <2>3, <2>4 DEF CInv, ProbeIsAlone
<1> QED
  BY <1>5, <1>6

\* A ticket that is handed back leaves the others as they are.
LEMMA ReturnedLeaves ==
  ASSUME CInv, NEW l \in Load, ticket[l] # None, Returned(l), generation' = generation
  PROVE  /\ ticket' \in [Load -> Nat \cup {None}]
         /\ Current' = Current \ {l}
         /\ \A k \in Load : ticket'[k] # None => ticket'[k] <= generation'
  BY NoneAssumption DEF CInv, CTypeOK, ProbeIsAlone, Current, Returned

\* A late answer changes nothing but its own ticket.
LEMMA StaleKeeps ==
  ASSUME CInv, NEW l \in Load, ticket[l] # None, Returned(l), Stale(l),
         UNCHANGED <<failures, open, probing, generation>>
  PROVE  CInv'
<1>1. /\ ticket' \in [Load -> Nat \cup {None}]
      /\ Current' = Current \ {l}
      /\ \A k \in Load : ticket'[k] # None => ticket'[k] <= generation'
  BY ReturnedLeaves
<1>2. Current' = Current
  BY <1>1 DEF Current, Stale
<1> QED
  BY <1>1, <1>2 DEF CInv, CTypeOK, ProbeIsAlone

\* A success that counts closes the circuit.
LEMMA SucceedKeeps ==
  ASSUME CInv, NEW l \in Load, Succeed(l)
  PROVE  CInv'
<1>1. CASE Stale(l)
  BY <1>1, StaleKeeps DEF Succeed
<1>2. CASE ~Stale(l)
  <2>1. /\ failures' = 0 /\ open' = "no" /\ probing' = FALSE /\ generation' = generation
        /\ Returned(l) /\ ticket[l] # None
    BY <1>2 DEF Succeed
  <2>2. /\ ticket' \in [Load -> Nat \cup {None}]
        /\ \A k \in Load : ticket'[k] # None => ticket'[k] <= generation'
    BY <2>1, ReturnedLeaves
  <2>3. CTypeOK'
    BY <2>1, <2>2 DEF CInv, CTypeOK, Opening
  <2>4. open' = "no" /\ ~probing' /\ failures' < Threshold
    BY <2>1, ThresholdAssumption
  <2> QED
    BY <2>2, <2>3, <2>4 DEF CInv, ProbeIsAlone
<1> QED
  BY <1>1, <1>2

\* A failure that counts opens the circuit, with a new generation, or leaves it
\* closed below the threshold.
LEMMA FailKeeps ==
  ASSUME CInv, NEW l \in Load, Fail(l)
  PROVE  CInv'
<1>1. CASE Stale(l)
  BY <1>1, StaleKeeps DEF Fail
<1>2. CASE ~Stale(l) /\ Trips
  <2>1. /\ failures' = failures + 1 /\ open' = "cooling" /\ generation' = generation + 1
        /\ probing' = FALSE /\ ticket' = [ticket EXCEPT ![l] = None]
    BY <1>2 DEF Fail, Returned
  <2>2. ticket' \in [Load -> Nat \cup {None}]
    BY <2>1 DEF CInv, CTypeOK
  <2>3. \A k \in Load : ticket'[k] # None => ticket'[k] <= generation /\ ticket'[k] \in Nat
    BY <2>1 DEF CInv, CTypeOK, ProbeIsAlone
  <2>4. \A k \in Load : ticket'[k] # generation'
    <3> SUFFICES ASSUME NEW k \in Load, ticket'[k] = generation' PROVE FALSE
      OBVIOUS
    <3>1. generation' \in Nat /\ generation' > generation
      BY <2>1 DEF CInv, CTypeOK
    <3> QED
      BY <2>3, <3>1, NoneAssumption DEF CInv, CTypeOK
  <2>5. Current' = {}
    BY <2>4 DEF Current
  <2>6. \A k \in Load : ticket'[k] # None => ticket'[k] <= generation'
    BY <2>1, <2>3 DEF CInv, CTypeOK
  <2>7. CTypeOK'
    <3>1. failures' \in Nat /\ generation' \in Nat
      BY <2>1 DEF CInv, CTypeOK
    <3>2. open' \in Opening /\ probing' \in BOOLEAN
      BY <2>1 DEF Opening
    <3> QED
      BY <2>2, <3>1, <3>2 DEF CTypeOK
  <2>8. open' = "cooling" /\ ~probing'
    BY <2>1
  <2> QED
    BY <2>5, <2>6, <2>7, <2>8 DEF CInv, ProbeIsAlone
<1>3. CASE ~Stale(l) /\ ~Trips
  <2>1. /\ failures' = failures + 1 /\ open' = open /\ generation' = generation
        /\ probing' = FALSE /\ Returned(l) /\ ticket[l] # None
    BY <1>3 DEF Fail
  <2>2. /\ ticket' \in [Load -> Nat \cup {None}]
        /\ Current' = Current \ {l}
        /\ \A k \in Load : ticket'[k] # None => ticket'[k] <= generation'
    BY <2>1, ReturnedLeaves
  <2>3. l \in Current /\ ~probing /\ failures + 1 < Threshold
    BY <1>3, ThresholdAssumption DEF Current, Stale, Trips, CInv, CTypeOK
  <2>4. open = "no"
    BY <2>3 DEF CInv, ProbeIsAlone
  <2>5. CTypeOK'
    <3>1. failures' \in Nat /\ generation' \in Nat
      BY <2>1 DEF CInv, CTypeOK
    <3>2. open' \in Opening /\ probing' \in BOOLEAN
      BY <2>1 DEF CInv, CTypeOK
    <3> QED
      BY <2>2, <3>1, <3>2 DEF CTypeOK
  <2>6. open' = "no" /\ ~probing' /\ failures' < Threshold
    BY <2>1, <2>3, <2>4
  <2> QED
    BY <2>2, <2>5, <2>6 DEF CInv, ProbeIsAlone
<1> QED
  BY <1>1, <1>2, <1>3

\* A cancelled probe frees the trial for the next call.
LEMMA CancelKeeps ==
  ASSUME CInv, NEW l \in Load, CancelCall(l)
  PROVE  CInv'
<1>1. /\ ticket[l] # None /\ Returned(l) /\ probing' = (probing /\ Stale(l))
      /\ UNCHANGED <<failures, open, generation>>
  BY DEF CancelCall
<1>2. /\ ticket' \in [Load -> Nat \cup {None}]
      /\ Current' = Current \ {l}
      /\ \A k \in Load : ticket'[k] # None => ticket'[k] <= generation'
  BY <1>1, ReturnedLeaves
<1>3. CASE Stale(l)
  BY <1>1, <1>2, <1>3 DEF CInv, CTypeOK, ProbeIsAlone, Current, Stale
<1>4. CASE ~Stale(l)
  <2>1. probing' = FALSE /\ l \in Current
    BY <1>1, <1>4 DEF Stale, Current
  <2>2. open # "no" => Current' = {}
    BY <1>2, <2>1 DEF CInv, ProbeIsAlone
  <2> QED
    BY <1>1, <1>2, <2>1, <2>2 DEF CInv, CTypeOK, ProbeIsAlone
<1> QED
  BY <1>3, <1>4

\* Every step of the circuit keeps the invariant.
LEMMA CircuitStep == CInv /\ [CNext]_cvars => CInv'
<1> SUFFICES ASSUME CInv, [CNext]_cvars PROVE CInv'
  OBVIOUS
<1>1. CASE UNCHANGED cvars
  BY <1>1 DEF cvars, CInv, CTypeOK, ProbeIsAlone, Current
<1>2. CASE CooledDown
  BY <1>2 DEF CooledDown, CInv, CTypeOK, ProbeIsAlone, Current, Opening
<1>3. ASSUME NEW l \in Load, ticket[l] = None /\ Acquire(l) PROVE CInv'
  BY <1>3, AcquireKeeps
<1>4. ASSUME NEW l \in Load, Succeed(l) PROVE CInv'
  BY <1>4, SucceedKeeps
<1>5. ASSUME NEW l \in Load, Fail(l) PROVE CInv'
  BY <1>5, FailKeeps
<1>6. ASSUME NEW l \in Load, CancelCall(l) PROVE CInv'
  BY <1>6, CancelKeeps
<1> QED
  BY <1>1, <1>2, <1>3, <1>4, <1>5, <1>6 DEF CNext

\* The circuit's variables have their types in every reachable state.
THEOREM CircuitTypeCorrect == CSpec => []CTypeOK
<1>1. CInv => CTypeOK
  BY DEF CInv
<1> QED
  BY CircuitStarts, CircuitStep, <1>1, PTL DEF CSpec

\* reliability.py: after the cooldown one call at a time tries the worker, the
\* trial is never left taken, and an old answer never closes or reopens it.
THEOREM CircuitProbesAlone == CSpec => []ProbeIsAlone
<1>1. CInv => ProbeIsAlone
  BY DEF CInv
<1> QED
  BY CircuitStarts, CircuitStep, <1>1, PTL DEF CSpec
=============================================================================
