--------------------------- MODULE AnalysisStore ---------------------------
(***************************************************************************)
(* InMemoryAnalysisStore (fastapi/app/store.py): the process-local table   *)
(* of analysis records, its requestId index, and the pruning every read    *)
(* and every insertion performs.                                           *)
(*                                                                         *)
(* Every method of the store runs without an await, so one call is one     *)
(* indivisible change of these variables; the modules that EXTEND this     *)
(* one combine the calls a coroutine makes between two awaits.             *)
(***************************************************************************)
EXTENDS Integers, FiniteSets

CONSTANTS
    AnalysisId,    \* the ids secrets.token_hex can draw; never drawn twice
    RequestId,     \* the idempotency keys
    Request,       \* distinct request bodies: equal iff same fingerprint
    IdOf,          \* the requestId of a request
    MaxEntries,    \* ANALYSIS_RESULT_MAX_ENTRIES
    None           \* Python's None

ASSUME StoreAssumption ==
    /\ IdOf \in [Request -> RequestId]
    /\ MaxEntries \in Nat \ {0}
    /\ None \notin AnalysisId \cup Request

ASSUME FiniteIds == IsFiniteSet(AnalysisId)

VARIABLES
    request,       \* the request of every id drawn so far
    status,        \* its PublicStatus, which outlives its record here
    stored,        \* the keys of _records
    older,         \* the OrderedDict's order: <<a, b>> when a is before b
    index,         \* _request_index
    expired        \* stored terminal records completed more than a TTL ago

storeVars == <<request, status, stored, older, index, expired>>

\* "NONE": the id was never drawn.  "LOST": its process died before the end.
Status == {"NONE", "QUEUED", "PROCESSING", "COMPLETED", "FAILED", "LOST"}
Final  == {"COMPLETED", "FAILED"}
Live   == {"QUEUED", "PROCESSING"}

Fresh(a) == status[a] = "NONE"
Finished == {a \in AnalysisId : status[a] \in Final}

StoreTypeOK ==
    /\ request \in [AnalysisId -> Request \cup {None}]
    /\ status \in [AnalysisId -> Status]
    /\ stored \subseteq AnalysisId
    /\ older \subseteq AnalysisId \X AnalysisId
    /\ index \in [RequestId -> AnalysisId \cup {None}]
    /\ expired \subseteq AnalysisId

StoreInit ==
    /\ request = [a \in AnalysisId |-> None]
    /\ status = [a \in AnalysisId |-> "NONE"]
    /\ stored = {}
    /\ older = {}
    /\ index = [r \in RequestId |-> None]
    /\ expired = {}

-----------------------------------------------------------------------------
(* prune(): the records S, in order O, of which those in T are terminal.   *)

\* The terminal records of S that are at or before a.
UpTo(a, S, O, T) == {b \in S \cap T : b = a \/ <<b, a>> \in O}

\* Faulty: one record fewer is removed than the limit asks for.
EvictedTooFew(S, O, T) ==
    {a \in S \cap T :
        Cardinality(UpTo(a, S, O, T)) < Cardinality(S) - MaxEntries}

\* Faulty: the oldest records go, finished or not.
EvictedAny(S, O, T) ==
    {a \in S : Cardinality(UpTo(a, S, O, S)) <= Cardinality(S) - MaxEntries}

\* Oldest terminal records go first, until the limit holds or none is left.
Evicted(S, O, T) ==
    {a \in S \cap T :
        Cardinality(UpTo(a, S, O, T)) <= Cardinality(S) - MaxEntries}

Kept(S, O, T) == LET L == S \ expired IN L \ Evicted(L, O, T)

\* move_to_end(a) in a table that holds the records S.
Moved(a, S, O) ==
    {p \in O : p \in (S \ {a}) \X (S \ {a})}
        \cup {p \in S \X S : p[2] = a /\ p[1] # a}

\* Faulty: remove() forgets _request_index.
IndexForgotten(gone, I, req) == I

\* remove() drops the index entry of the record's requestId, whatever id it
\* maps to.
WithoutIndex(gone, I, req) ==
    [r \in RequestId |->
        IF \E b \in gone : IdOf[req[b]] = r THEN None ELSE I[r]]

\* The table becomes K, with order O, after the records `gone` were removed.
TableBecomes(K, O, gone, I, req) ==
    /\ stored' = K
    /\ older' = {p \in O : p \in K \X K}
    /\ index' = WithoutIndex(gone, I, req)
    /\ expired' = expired \cap K

-----------------------------------------------------------------------------
(* The store's methods.                                                    *)

\* prune() on its own, as the janitor calls it.
Prune ==
    LET K == Kept(stored, older, Finished) IN
    /\ TableBecomes(K, older, stored \ K, index, request)
    /\ UNCHANGED <<request, status>>

\* get_record(a) finds the record after pruning...
Found(a) == a \in Kept(stored, older, Finished)

\* ...and moves it to the end; without it, the pruning still happened.
GetRecord(a) ==
    LET K == Kept(stored, older, Finished)
        O == IF a \in K THEN Moved(a, K, older) ELSE older
    IN  TableBecomes(K, O, stored \ K, index, request)

\* create_or_get(): the record the index leads to, if any.
Existing(q) == index[IdOf[q]]
Hit(q)      == Existing(q) \in stored /\ request[Existing(q)] = q

\* Faulty: a request that differs from the one in the table replaces it.
AbsentOrDifferent(q) == ~Hit(q)

\* Faulty: a finished analysis is done again.
AbsentOrFinished(q) == Existing(q) \notin stored \/ Existing(q) \in Finished
Absent(q) == Existing(q) \notin stored

\* A hit only reorders the table: an expired record is still a hit.
TouchExisting(q) ==
    /\ older' = Moved(Existing(q), stored, older)
    /\ UNCHANGED <<request, status, stored, index, expired>>

\* A new record is indexed, then the table is pruned around it.
Create(a, q) ==
    LET S == stored \cup {a}
        O == Moved(a, S, older)
        K == Kept(S, O, Finished)
    IN  /\ request' = [request EXCEPT ![a] = q]
        /\ status' = [status EXCEPT ![a] = "QUEUED"]
        /\ TableBecomes(K, O, S \ K, [index EXCEPT ![IdOf[q]] = a], request')

\* Faulty: submit() does not take the record back when the queue is full.
CreateOnly(a, q) == Create(a, q)

\* Create(a, q), then remove(a) because the queue is full: the id was shown
\* to nobody and counts as never drawn, but what the pruning removed stays
\* removed.
CreateAndRemove(a, q) ==
    LET S == stored \cup {a}
        O == Moved(a, S, older)
        K == Kept(S, O, Finished)
    IN  /\ TableBecomes(K \ {a}, O, (S \ K) \cup {a},
                        [index EXCEPT ![IdOf[q]] = a],
                        [request EXCEPT ![a] = q])
        /\ UNCHANGED <<request, status>>

\* complete() or fail(), and the get_record() of the finally block behind
\* it: the second pruning already counts the record as terminal.
TableAtFinish(a) ==
    LET K == Kept(stored, older, Finished) IN
    Kept(K, Moved(a, K, older), Finished \cup {a})

CompleteOrFail(a, s) ==
    LET K == Kept(stored, older, Finished)
        L == TableAtFinish(a)
    IN  /\ status' = [status EXCEPT ![a] = s]
        /\ TableBecomes(L, Moved(a, K, older), stored \ L, index, request)
        /\ UNCHANGED request

\* The result's TTL runs out.  (ANALYSIS_RESULT_TTL_SECONDS is at least 60,
\* so never within one step.)
Expire(a) ==
    /\ a \in stored \cap Finished
    /\ a \notin expired
    /\ expired' = expired \cup {a}
    /\ UNCHANGED <<request, status, stored, older, index>>

=============================================================================
