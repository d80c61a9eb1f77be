------------------------------ MODULE Receipts ------------------------------
(***************************************************************************)
(* Analyses and the corrections of their results.  An analysis looks its    *)
(* lines up in a catalog that answers with what the same fridge corrected   *)
(* before; a feedback request commits such corrections in one transaction   *)
(* and makes the lookup cache forget them.  Everything between two awaits   *)
(* is one step; the database serialises on advisory locks.                  *)
(*                                                                          *)
(* A scene gives the photos of the analyses and the requests of the clients,*)
(* a photo its fridge, what is printed on it and its reading (Taken).       *)
(***************************************************************************)
EXTENDS WorkerReading, ReceiptItems

CONSTANTS
    Scenes,         \* [photos, requests, taught, faulty: a database that fails]
    Catalog,        \* [text, name, category, via: "exact" or "fuzzy", similarity]
    KeyOrder,       \* the learning keys, sorted
    CacheSize,      \* reference_cache_max_size
    Tries           \* bound: how often a client sends its request

\* A request has entries (FeedbackRequest) and tells of an analysis there is; what
\* is stored of an analysis is of one request.
ReceiptsAssumption ==
    /\ CacheSize \in Nat \ {0}
    /\ \A s \in Scenes : \A c \in DOMAIN s.requests :
           /\ s.requests[c].analysis \in DOMAIN s.photos
           /\ s.requests[c].entries \in Seq(Range(s.requests[c].entries)) \ {<< >>}
    /\ \A s \in Scenes : \A r, o \in s.taught : r.analysis = o.analysis => r.id = o.id
ASSUME ReceiptsAssumption

VARIABLES
    scene,          \* one of the scenes; never changes
    run,            \* the analyses: [phase, matches, loaded, items]
    context,        \* the fridge every run's ContextVar holds
    cache,          \* BoundedAsyncCache, least recently used first
    corrections,    \* learned_corrections: active personal ones
    rows,           \* receipt_item_feedback
    client          \* the requests: [phase, try, keys, held, absent, told]

analysisVars == <<run, context>>
storeVars == <<corrections, rows, client>>
vars == <<scene, run, context, cache, corrections, rows, client>>

Photo(a) == scene.photos[a]
Request(c) == scene.requests[c]
Analyses == DOMAIN scene.photos
Clients == DOMAIN scene.requests
Fridge(a) == Photo(a).fridge
Faulty == scene.faulty

New == [phase |-> "new", matches |-> << >>, loaded |-> None, items |-> << >>]
Idle == [phase |-> "idle", try |-> 1, keys |-> << >>, held |-> {}, absent |-> {}, told |-> None]

Init ==
    /\ scene \in Scenes
    /\ run = [a \in Analyses |-> New]
    /\ context = [a \in Analyses |-> None]
    /\ cache = << >>
    /\ rows = scene.taught
    /\ corrections = {[key |-> r.key, fridge |-> r.fridge, name |-> r.name, category |-> r.category] : r \in scene.taught}
    /\ client = [c \in Clients |-> Idle]

-----------------------------------------------------------------------------
(* The catalog behind its cache.                                            *)

\* A word counts for two letters: similar names need four.
Query(fridge, key) ==
    LET own == {c \in corrections : c.key = key /\ c.fridge = fridge}
        exact == {k \in Catalog : k.text = key /\ k.via = "exact"}
        similar == {k \in Catalog : k.text = key /\ k.via = "fuzzy" /\ k.similarity >= 55 /\ Len(key) >= 2}
        Match(S, via) == LET k == CHOOSE e \in S : TRUE IN [name |-> k.name, category |-> k.category, via |-> via]
    IN CASE own # {} -> Match(own, "learned")
         [] own = {} /\ exact # {} -> Match(exact, "exact")
         [] OTHER -> IF similar # {} THEN Match(similar, "fuzzy") ELSE None

CacheKey(fridge, key) == [fridge |-> fridge, key |-> key]
\* The store is a dictionary: a key stands there once.
Other(k) ==
    IF \E i \in DOMAIN cache : cache[i].key = k
    THEN RemoveAt(cache, CHOOSE i \in DOMAIN cache : cache[i].key = k) ELSE cache
Cached(k) == {e \in Range(cache) : e.key = k /\ ~e.expired}
Put(k, value) ==
    LET full == Append(Other(k), [key |-> k, value |-> value, expired |-> FALSE]) IN
    SubSeq(full, Most(1, Len(full) - CacheSize + 1), Len(full))
\* forget(): the entries of the keys, whatever a loader under way will store.
\* What stays keeps its order: of the places that stay, the ascending list.
Staying(keys) == {i \in DOMAIN cache : cache[i].key \notin keys}
Forgotten(keys) ==
    LET stay == Staying(keys) IN
    {[n \in DOMAIN s |-> cache[s[n]]] :
        s \in {t \in [1 .. Cardinality(stay) -> stay] : \A i, j \in DOMAIN t : i < j => t[i] < t[j]}}

Expire(i) ==
    /\ i \in DOMAIN cache /\ ~cache[i].expired
    /\ cache' = [cache EXCEPT ![i].expired = TRUE]
    /\ UNCHANGED <<scene, analysisVars, storeVars>>

-----------------------------------------------------------------------------
(* An analysis: the worker's answer, one lookup after another, the items.   *)

\* Mutant form: the runs share the fridge of the last one started.
SharedFridge(a) == [x \in Analyses |-> Fridge(a)]
OwnFridge(a) == [context EXCEPT ![a] = Fridge(a)]

\* What the worker and the pipeline make of a photo before the lookups.
Taken(ph) == [fridge |-> ph.fridge, printed |-> ph.printed, reading |-> Reading(Worker(ph, ph.hint), ph.hint)]
Texts(a) == Photo(a).reading.texts

Infer(a) ==
    /\ run[a].phase = "new"
    /\ context' = OwnFridge(a)
    /\ run' = [run EXCEPT ![a].phase = "looking"]
    /\ UNCHANGED <<scene, cache, storeVars>>

Text1(a) == Texts(a)[Len(run[a].matches) + 1]
Looking(a) == run[a].phase = "looking" /\ Len(run[a].matches) < Len(Texts(a))
Found(a, match) == [run EXCEPT ![a] = [run[a] EXCEPT !.phase = "looking", !.matches = Append(@, match), !.loaded = None]]

Hit(a) ==
    LET k == CacheKey(context[a], Text1(a)) IN
    /\ Looking(a)
    /\ \E e \in Cached(k) : /\ cache' = Append(Other(k), e)
                            /\ run' = Found(a, e.value)
    /\ UNCHANGED <<scene, context, storeVars>>

\* The database is read here; what it said is cached a step later.
Load(a) ==
    LET k == CacheKey(context[a], Text1(a)) IN
    /\ Looking(a) /\ Cached(k) = {}
    /\ cache' = Other(k)
    /\ run' = [run EXCEPT ![a] = [@ EXCEPT !.phase = "loading", !.loaded = Query(context[a], Text1(a))]]
    /\ UNCHANGED <<scene, context, storeVars>>
\* A failing catalog leaves the line to the rules and the model.
LoadFails(a) ==
    LET k == CacheKey(context[a], Text1(a)) IN
    /\ Faulty /\ Looking(a) /\ Cached(k) = {}
    /\ cache' = Other(k)
    /\ run' = Found(a, None)
    /\ UNCHANGED <<scene, context, storeVars>>
Store(a) ==
    /\ run[a].phase = "loading"
    /\ cache' = Put(CacheKey(context[a], Text1(a)), run[a].loaded)
    /\ run' = Found(a, run[a].loaded)
    /\ UNCHANGED <<scene, context, storeVars>>

Validate(a) ==
    /\ run[a].phase = "looking" /\ Len(run[a].matches) = Len(Texts(a))
    /\ run' = [run EXCEPT ![a] = [@ EXCEPT !.phase = "done", !.items = Items(Photo(a).reading, run[a].matches)]]
    /\ UNCHANGED <<scene, context, cache, storeVars>>

-----------------------------------------------------------------------------
(* A feedback request.                                                      *)

RowsOf(a) == {r \in rows : r.analysis = a}
Id(c) == <<c, client[c].try>>
ItemOf(c, e) == CHOOSE i \in Range(run[Request(c).analysis].items) : i.id = e.item
UnknownItem(c) == \E e \in Range(Request(c).entries) :
                     e.item # Nothing /\ e.item \notin {i.id : i \in Range(run[Request(c).analysis].items)}

\* evaluate_feedback_item(): only a changed name or category is learned.
LearningKey(c, e) ==
    IF e.action # "CORRECTED" \/ ~Request(c).consent THEN << >>
    ELSE LET i == ItemOf(c, e) IN
         IF e.name \in {Corrected(i.name), Corrected(i.normal)} /\ e.category = i.category THEN << >>
         ELSE Corrected(i.evidence)
Key(c, i) == LearningKey(c, Request(c).entries[i])
LearnedKeys(c) == {Key(c, i) : i \in DOMAIN Request(c).entries} \ {<< >>}
\* The last entry of a key is the one that remains.
Latest(c) ==
    {i \in DOMAIN Request(c).entries :
        Key(c, i) # << >> /\ \A j \in DOMAIN Request(c).entries : Key(c, j) = Key(c, i) => j <= i}
\* Mutant form: the keys are locked as the user listed them.
ListedKeys(c) ==
    {SelectSeq([i \in DOMAIN Request(c).entries |-> Key(c, i)], LAMBDA k : k # << >>)}
ComesBefore(k, l) == \E i, j \in DOMAIN KeyOrder : i < j /\ KeyOrder[i] = k /\ KeyOrder[j] = l
SortedKeys(c) ==
    {s \in [1 .. Cardinality(LearnedKeys(c)) -> LearnedKeys(c)] :
        /\ Range(s) = LearnedKeys(c)
        /\ \A i, j \in DOMAIN s : i < j => ComesBefore(s[i], s[j])}

To(c, phase) == [client EXCEPT ![c].phase = phase]
Ends(c, phase, told) == [client EXCEPT ![c] = [@ EXCEPT !.phase = phase, !.keys = << >>, !.held = {}, !.absent = {}, !.told = told]]
\* One space of advisory locks: analyses and keys, told apart by their text.
Free(lock, c) == \A o \in Clients \ {c} : lock \notin client[o].held
InTransaction(c) == client[c].held # {}

\* An earlier feedback is the answer; otherwise the analysis must be complete.
Look(c) ==
    /\ client[c].phase = "idle"
    /\ IF RowsOf(Request(c).analysis) # {}
       THEN \E r \in RowsOf(Request(c).analysis) : client' = Ends(c, "answered", r.id)
       ELSE client' = To(c, "view")
    /\ UNCHANGED <<scene, analysisVars, cache, corrections, rows>>
View(c) ==
    /\ client[c].phase = "view"
    /\ client' = IF run[Request(c).analysis].phase # "done" \/ UnknownItem(c) THEN Ends(c, "refused", None)
                 ELSE To(c, "begin")
    /\ UNCHANGED <<scene, analysisVars, cache, corrections, rows>>

\* record_feedback(): the analysis is locked, then looked at once more.
LockAnalysis(c) ==
    /\ client[c].phase = "begin" /\ Free(<<Request(c).analysis>>, c)
    /\ client' = [client EXCEPT ![c] = [@ EXCEPT !.phase = "recheck", !.held = {<<Request(c).analysis>>}]]
    /\ UNCHANGED <<scene, analysisVars, cache, corrections, rows>>
\* Mutant form: only the unique index tells a repeated request.
SeenItems(c) == {r \in RowsOf(Request(c).analysis) : r.item # Nothing /\ \E e \in Range(Request(c).entries) : e.item = r.item}
SeenRows(c) == RowsOf(Request(c).analysis)
Recheck(c) ==
    /\ client[c].phase = "recheck"
    /\ IF SeenRows(c) # {}
       THEN \E r \in SeenRows(c) : client' = Ends(c, "answered", r.id)
       ELSE \E keys \in SortedKeys(c) : client' = [client EXCEPT ![c] = [@ EXCEPT !.phase = "keys", !.keys = keys]]
    /\ UNCHANGED <<scene, analysisVars, cache, corrections, rows>>
LockKey(c) ==
    /\ client[c].phase = "keys" /\ client[c].keys # << >> /\ Free(Head(client[c].keys), c)
    /\ client' = [client EXCEPT ![c] = [client[c] EXCEPT !.keys = Tail(@), !.held = @ \cup {Head(client[c].keys)}]]
    /\ UNCHANGED <<scene, analysisVars, cache, corrections, rows>>
\* _upsert_personal(): what is absent will be inserted.
ReadCorrections(c) ==
    /\ client[c].phase = "keys" /\ client[c].keys = << >>
    /\ client' = [client EXCEPT ![c] = [@ EXCEPT !.phase = "commit",
                     !.absent = {k \in LearnedKeys(c) : \A o \in corrections : o.key # k \/ o.fridge # Request(c).fridge}]]
    /\ UNCHANGED <<scene, analysisVars, cache, corrections, rows>>

\* Another transaction inserted the correction meanwhile: the unique index refuses.
Collides(c) == \E o \in corrections : o.key \in client[c].absent /\ o.fridge = Request(c).fridge
CommitTo(c, phase) ==
    LET q == Request(c)
        Row(e) == [analysis |-> q.analysis, id |-> Id(c), item |-> e.item, fridge |-> q.fridge,
                   key |-> LearningKey(c, e), name |-> e.name, category |-> e.category]
        Learned(i) == [key |-> Key(c, i), fridge |-> q.fridge, name |-> q.entries[i].name, category |-> q.entries[i].category]
    IN /\ client[c].phase = "commit"
       /\ IF Collides(c)
          THEN client' = Ends(c, "collided", None) /\ UNCHANGED <<corrections, rows>>
          ELSE /\ rows' = rows \cup {Row(e) : e \in Range(q.entries)}
               /\ corrections' = {o \in corrections : o.fridge # q.fridge \/ o.key \notin LearnedKeys(c)}
                                 \cup {Learned(i) : i \in Latest(c)}
               /\ client' = Ends(c, phase, IF phase = "committed" THEN Id(c) ELSE None)
       /\ UNCHANGED <<scene, analysisVars, cache>>
Commit(c) == CommitTo(c, "committed")
\* The transaction is committed, its answer is lost: nothing is forgotten.
CommitUnheard(c) == Faulty /\ CommitTo(c, "failed")
Forget(c) ==
    /\ client[c].phase = "committed"
    /\ cache' \in Forgotten({CacheKey(Request(c).fridge, k) : k \in LearnedKeys(c)})
    /\ client' = To(c, "answered")
    /\ UNCHANGED <<scene, analysisVars, corrections, rows>>

\* The database fails: the transaction and its locks are gone, the client gets 503.
Fails(c) ==
    /\ Faulty /\ (InTransaction(c) \/ client[c].phase \in {"view", "begin"})
    /\ client' = Ends(c, "failed", None)
    /\ UNCHANGED <<scene, analysisVars, cache, corrections, rows>>
\* A client sends its request again when it got no answer or came too early.
Retry(c) ==
    /\ client[c].phase \in {"failed", "refused"} /\ client[c].try < Tries
    /\ client' = [client EXCEPT ![c] = [Idle EXCEPT !.try = client[c].try + 1]]
    /\ UNCHANGED <<scene, analysisVars, cache, corrections, rows>>

-----------------------------------------------------------------------------

Analysis(a) == Infer(a) \/ Hit(a) \/ Load(a) \/ LoadFails(a) \/ Store(a) \/ Validate(a)
Feedback(c) == \/ Look(c) \/ View(c) \/ LockAnalysis(c) \/ Recheck(c) \/ LockKey(c)
               \/ ReadCorrections(c) \/ Commit(c) \/ Forget(c)
Trouble(c) == CommitUnheard(c) \/ Fails(c) \/ Retry(c)
Next == \/ \E a \in Analyses : Analysis(a)
        \/ \E c \in Clients : Feedback(c) \/ Trouble(c)
        \/ \E i \in DOMAIN cache : Expire(i)
Spec == Init /\ [][Next]_vars

\* Coroutines and transactions go on unless blocked; time passes.  This is weak
\* fairness with ENABLED written out: TLC would infer photos again to find it.
AnalysisReady == \E a \in Analyses : run[a].phase # "done"
FeedbackReady ==
    \E c \in Clients :
        \/ client[c].phase \in {"idle", "view", "recheck", "commit", "committed"}
        \/ client[c].phase = "begin" /\ Free(<<Request(c).analysis>>, c)
        \/ client[c].phase = "keys" /\ (client[c].keys = << >> \/ Free(Head(client[c].keys), c))
TimeReady == \E i \in DOMAIN cache : ~cache[i].expired
Fairness ==
    /\ []<>~AnalysisReady \/ []<><<TRUE>>_run
    /\ []<>~FeedbackReady \/ []<><<\E c \in Clients : Feedback(c)>>_client
    /\ []<>~TimeReady \/ []<><<\E i \in DOMAIN cache : Expire(i)>>_cache
FairSpec == Spec /\ Fairness
-----------------------------------------------------------------------------
(* Properties.                                                              *)

Done(a) == run[a].phase = "done"
Printed(a) == Photo(a).printed
Named(a, i) == {p \in DOMAIN Printed(a) : run[a].items[i].name \in Printed(a)[p].names}

\* Every delivered item is one product of the photo, no product is delivered
\* twice, and a quantity that can be made out is the printed one: names,
\* columns and rows of the receipt are put together rightly (receipt_rules,
\* pipeline), also where the photo is tilted or a line was read twice.
ItemsAreTrue ==
    \A a \in Analyses : Done(a) =>
        \A i \in DOMAIN run[a].items :
            /\ Named(a, i) # {}
            /\ \A j \in DOMAIN run[a].items \ {i} : Named(a, i) \cap Named(a, j) = {}
            /\ \A p \in Named(a, i) : Printed(a)[p].quantity \in {Nothing, run[a].items[i].quantity}

\* A product that some reading shows and some rule, catalog entry or model
\* knows is delivered: re-reading, merging, boxes, row building, the worker's
\* candidates and the pipeline's choices lose none of them.
ProductsAreKept ==
    \A a \in Analyses : Done(a) =>
        \A p \in DOMAIN Printed(a) : Printed(a)[p].kept => \E i \in DOMAIN run[a].items : p \in Named(a, i)

\* What one fridge corrected never names an item of another fridge, whichever
\* runs, lookups and cache entries interleave (ContextVar, cache keys, query).
CorrectionsStayHome ==
    \A a \in Analyses : \A i \in DOMAIN run[a].matches :
        LET m == run[a].matches[i] IN
        m # None => (m.via = "learned" => \E r \in rows : /\ r.fridge = Fridge(a) /\ r.key = Texts(a)[i]
                                                         /\ r.name = m.name /\ r.category = m.category)

\* However often and in whatever order a feedback is sent, one request's rows
\* are kept for an analysis, every answer tells of them, and no request fails
\* because another one taught the same word (advisory locks, second look).
FeedbackCountsOnce ==
    /\ \A r, o \in rows : r.analysis = o.analysis => r.id = o.id
    /\ \A c \in Clients : /\ client[c].phase # "collided"
                           /\ client[c].phase \in {"committed", "answered"} =>
                                  \E r \in RowsOf(Request(c).analysis) : r.id = client[c].told

\* Every request that was begun ends: no two of them wait for each other's
\* locks (the keys are locked in order).  And again and again no cached match
\* is behind the database: a loader that stored what it had read before a
\* correction is outlived by the age limit of its entry.
EveryCorrectionCounts ==
    /\ \A c \in UNION {DOMAIN s.requests : s \in Scenes} : (c \in Clients /\ InTransaction(c)) ~> (c \in Clients /\ ~InTransaction(c))
    /\ []<>(\A e \in Range(cache) : e.expired \/ e.value = Query(e.key.fridge, e.key.key))
=============================================================================
