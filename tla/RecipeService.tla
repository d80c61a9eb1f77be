----------------------------- MODULE RecipeService -----------------------------
(***************************************************************************)
(* The recipe service (service.py, result_cache.py, planning.py _rank,       *)
(* weather.py, replenishment.py): callers ask for a recommendation, callers  *)
(* with one key share one load, a load reads the stores, ranks with the       *)
(* model behind a circuit breaker and two slots, and may search the web       *)
(* once.  The code between two awaits is one action.                          *)
(***************************************************************************)
EXTENDS RecipeCircuit, RecipeSupply

CONSTANTS
    Scene,        \* the situations looked at, see MCRecipeService
    MaxEntries,   \* reference_cache_max_size
    MaxCandidates,\* recipe_ai_max_candidates, at most 12
    Fit,          \* how many candidates recipe_ai_input_max_bytes holds
    AiSlots       \* asyncio.Semaphore(2)

\* Of those who may run a supply, one is no load: the one in the background.
ASSUME ServiceAssumption ==
    /\ IsFiniteSet(Load)
    /\ \E s \in Supplier : s \notin Load /\ Supplier = Load \cup {s}
    /\ MaxEntries \in Nat \ {0}

\* A scene asks valid requests, and what it holds are recipes.
ASSUME SceneAssumption ==
    /\ MaxCandidates \in Nat /\ Fit \in Nat
    /\ \A s \in Scene : /\ {"request", "web", "official"} \subseteq DOMAIN s
                        /\ \A c \in Load : s.request[c] # None => IsRequest(s.request[c])
                        /\ s.stored \subseteq Dish
                        /\ s.web \in Seq(Dish) /\ s.official \in Seq(Dish)

\* Hours count down to the last one looked at.
Hour == 0 .. 1

\* A load has the name of the caller that started it.  The remaining supplier is the
\* one deferred supply there can be at a time.
Caller == Load
Later == CHOOSE s \in Supplier : s \notin Load

VARIABLES
    caller,       \* caller -> [pc, load, end]
    load,         \* load -> its progress
    flights,      \* the loads that callers with the same key join
    waiters,      \* load -> ResultFlight.waiters
    entries,      \* stored results, least recently used first
    memory,       \* the recipes of deferred supplies
    decisions,    \* <<dish, tags>> -> tags with evidence, or Unknown
    situations,   \* <<dish, weather>> -> whether it fits, or Unknown
    snapshot,     \* the hour of the last observation, or None
    refresh,      \* weather task: "idle", "running", "late" or "failed" this hour
    judged        \* <<dish, tags>> that an answer of the model settled

serviceVars == <<supplyVars, caller, load, flights, waiters, entries, memory,
                 decisions, situations, snapshot, refresh, judged>>
vars == <<cvars, serviceVars>>

sources == <<stored, memory, pages, readings>>
world == <<sources, supply>>
weather == <<snapshot, refresh>>

Request(c) == scene.request[c]
TagSets == {Request(c).tags : c \in {x \in Caller : Request(x) # None}}

NewLoad == [pc |-> "none", key |-> None, q |-> None, rows |-> {}, before |-> {},
            k |-> [profiled |-> {}, classed |-> {}], stage |-> "start", supplied |-> FALSE, asked |-> {},
            r |-> Fresh, shortlist |-> << >>, window |-> {}, ranked |-> FALSE, ranks |-> {}, out |-> None]

Init ==
    /\ CInit
    /\ SupplyInit
    /\ scene \in Scene
    /\ caller = [c \in Caller |-> [pc |-> IF Request(c) = None THEN "ended" ELSE "idle",
                                   load |-> None, end |-> None]]
    /\ load = [l \in Load |-> NewLoad]
    /\ flights = {}
    /\ waiters = [l \in Load |-> 0]
    /\ entries = << >>
    /\ stored = scene.stored
    /\ memory = {}
    /\ decisions = [p \in Dish \X TagSets |-> Unknown]
    /\ situations = [p \in Dish \X (Hour \cup {None}) |-> Unknown]
    /\ snapshot = None
    /\ refresh = "idle"
    /\ judged = {}
    /\ faults = scene.faults

-----------------------------------------------------------------------------
(* recommend() and RecipeResultCache.get_or_load() *)

\* recommendation_key(): the body and the weather, and without preferences the
\* request itself, whose id seeds the order.
Key(c, w) == <<Request(c).body, IF Request(c).tags = {} THEN c ELSE None, w>>

Entry(key) == {i \in DOMAIN entries : entries[i].key = key}
\* The store is a dictionary: a key stands there once.
Dropped(key) == IF Entry(key) = {} THEN entries ELSE RemoveAt(entries, CHOOSE i \in Entry(key) : TRUE)
Flight(key) == {l \in flights : load[l].key = key}

Ends(c, l, how) == caller' = [caller EXCEPT ![c] = [pc |-> "ended", load |-> l, end |-> how]]

\* Mutant form: the caller that joins a load is taken for the only one.
JoinsAlone(l) == waiters' = [waiters EXCEPT ![l] = 1]

Joins(l) == waiters' = [waiters EXCEPT ![l] = @ + 1]

\* A fresh entry is reused; a load under way is joined; otherwise one starts.
Enter(c, w) ==
    LET key == Key(c, w)
        hit == {i \in Entry(key) : entries[i].fresh}
        join(l) == /\ caller' = [caller EXCEPT ![c] = [pc |-> "waiting", load |-> l, end |-> None]]
                   /\ Joins(l)
                   /\ entries' = Dropped(key)
    IN \/ \E i \in hit : /\ entries' = Append(Dropped(key), entries[i])
                         /\ Ends(c, entries[i].load, "stored")
                         /\ UNCHANGED <<load, flights, waiters>>
       \/ \E l \in Flight(key) : hit = {} /\ join(l) /\ UNCHANGED <<load, flights>>
       \/ /\ hit = {} /\ Flight(key) = {}
          /\ load' = [load EXCEPT ![c] = [NewLoad EXCEPT !.pc = "find", !.key = key, !.q = Request(c)]]
          /\ flights' = flights \cup {c}
          /\ join(c)

\* WeatherService.current(): an observation of this hour or of one before is
\* used at once, the latter while a refresh runs; without any the caller waits.
Start(c) ==
    /\ caller[c].pc = "idle"
    /\ refresh' = IF scene.weather /\ snapshot # scene.hour /\ refresh = "idle" THEN "running" ELSE refresh
    /\ IF scene.weather /\ snapshot = None /\ refresh' # "failed"
       THEN /\ caller' = [caller EXCEPT ![c].pc = "weather"]
            /\ UNCHANGED <<load, flights, waiters, entries>>
       ELSE Enter(c, snapshot)
    /\ UNCHANGED <<cvars, scene, world, decisions, situations, snapshot, judged, faults>>

\* The refresh has ended, or recipe_weather_wait_seconds have passed.
Waited(c) ==
    /\ caller[c].pc = "weather"
    /\ Enter(c, snapshot)
    /\ UNCHANGED <<cvars, scene, world, decisions, situations, weather, judged, faults>>

\* WeatherService._fetch(); a failure is not repeated in the same hour.
Observed ==
    /\ refresh \in {"running", "late"}
    /\ \/ /\ snapshot' = IF refresh = "late" THEN scene.hour + 1 ELSE scene.hour
          /\ refresh' = "idle"
          /\ UNCHANGED faults
       \/ /\ Fault("weather")
          /\ refresh' = IF refresh = "late" THEN "idle" ELSE "failed"
          /\ UNCHANGED snapshot
    /\ UNCHANGED <<cvars, scene, caller, load, flights, waiters, entries, world, decisions, situations, judged>>

HourPasses ==
    /\ scene.hour > 0
    /\ scene' = [scene EXCEPT !.hour = @ - 1]
    /\ refresh' = CASE refresh = "running" -> "late" [] refresh = "failed" -> "idle" [] OTHER -> refresh
    /\ UNCHANGED <<cvars, caller, load, flights, waiters, entries, world, decisions, situations,
                   snapshot, judged, faults>>

\* The finally of get_or_load(): the last one to leave takes the flight away,
\* whichever load it is by now.
Leave(c, l) ==
    /\ waiters' = [waiters EXCEPT ![l] = @ - 1]
    /\ flights' = IF waiters[l] = 1 THEN flights \ Flight(load[l].key) ELSE flights

Deliver(c) ==
    LET l == caller[c].load IN
    /\ caller[c].pc = "waiting"
    /\ load[l].pc = "ended"
    /\ Leave(c, l)
    /\ Ends(c, l, load[l].out.end)
    /\ UNCHANGED <<cvars, scene, load, entries, world, decisions, situations, weather, judged, faults>>

\* The caller is cancelled or its job runs out of time.  Nobody else waiting, it
\* cancels the load and waits for it to unwind.
Abandon(c) ==
    LET l == caller[c].load IN
    /\ caller[c].pc = "waiting" /\ c \in scene.impatient
    /\ load[l].pc # "ended"
    /\ scene' = [scene EXCEPT !.impatient = @ \ {c}]
    /\ waiters' = [waiters EXCEPT ![l] = @ - 1]
    /\ IF waiters[l] = 1
       THEN /\ caller' = [caller EXCEPT ![c].pc = "unwinding"]
            /\ load' = [load EXCEPT ![l].stage = "cancelled"]
       ELSE Ends(c, l, "cancelled") /\ UNCHANGED load
    /\ UNCHANGED <<cvars, flights, entries, world, decisions, situations, weather, judged, faults>>

\* CancelledError reaches the load, which gives back its slot and its ticket.
Unwind(l) ==
    /\ load[l].pc \notin {"none", "ended"} /\ load[l].stage = "cancelled" /\ supply[l].pc = "none"
    /\ IF ticket[l] # None THEN CancelCall(l) ELSE UNCHANGED cvars
    /\ load' = [load EXCEPT ![l].pc = "ended", ![l].out = [end |-> "cancelled"]]
    /\ UNCHANGED <<scene, caller, flights, waiters, entries, world, decisions, situations, weather, judged, faults>>

Unwound(c) ==
    LET l == caller[c].load IN
    /\ caller[c].pc = "unwinding" /\ load[l].pc = "ended"
    /\ flights' = flights \ Flight(load[l].key)
    /\ Ends(c, l, "cancelled")
    /\ UNCHANGED <<cvars, scene, load, waiters, entries, world, decisions, situations, weather, judged, faults>>

-----------------------------------------------------------------------------
(* The load: load() of recommend() *)

Running(l) == load[l].stage # "cancelled"
At(l, pc) == load[l].pc = pc /\ Running(l)

Rows(ld) == Baseline(ld.q, ld.rows)
Good(ld) == ld.q.tags # {} /\ Matched(ld.r, ld.q, ld.k, Rows(ld)) # {}

\* Mutant form: an open circuit does not keep a result from being stored.
LacksUnlessOpen(ld) == {"UNAVAILABLE", "REJECTED"} \cap ld.r.warned # {}

\* _load(): a result that lacks a judgement is not stored for others.
Lacks(ld) == {"UNAVAILABLE", "OPEN", "REJECTED"} \cap ld.r.warned # {}

Stores(ld) ==
    /\ ld.out.rows # << >> \/ ld.out.confirm # << >>
    /\ ~Lacks(ld)
    /\ ld.out.engine # "AI" => "SUPPLY" \notin ld.r.warned

\* What a supply looks for: first the expiring food that no recipe uses, later the
\* urgent food without a proven preference, or else the two foods soonest to expire.
Focus(ld) ==
    LET q == ld.q
        wanted == IF ld.stage = "again" THEN Unproven(q, Rows(ld), {d \in Dish : ld.r.ev[d] # {}})
                  ELSE IF "USE_EXPIRING" \in q.strategies THEN Uncovered(q, Rows(ld)) ELSE {}
    IN IF wanted # {} THEN Soonest(q, wanted) ELSE FirstTwo(Soonest(q, Names(q)))

\* The load goes on as ld; at its end the result is stored, the oldest one leaves.
GoesWith(l, ld, running) ==
    /\ supply' = IF ld.pc = "supply"
                  THEN [running EXCEPT ![l] = Begun(ld.q, Focus(ld), ld.stage = "first")] ELSE running
    /\ load' = [load EXCEPT ![l] = ld]
    /\ entries' = IF ld.pc = "ended" /\ Stores(ld)
                  THEN LET all == Append(Dropped(ld.key), [key |-> ld.key, load |-> l, fresh |-> TRUE])
                       IN SubSeq(all, Len(all) - Least(MaxEntries, Len(all)) + 1, Len(all))
                  ELSE entries
Goes(l, ld) == GoesWith(l, ld, supply)

\* The final choice, from the verdicts as they stand now.
Answer(ld, fallback, verdict, rows, doubtful) ==
    LET engine == IF ld.ranked \/ Rows(ld) \cap ld.k.profiled # {} THEN "AI"
                  ELSE IF Rows(ld) # {} THEN "RULE_FALLBACK" ELSE "EMPTY"
    IN [ld EXCEPT !.pc = "ended",
                  !.out = [end |-> "result", fallback |-> fallback, verdict |-> verdict, engine |-> engine,
                           rows |-> rows, usage |-> [d \in Range(rows) |-> Allocation(ld.q, d)],
                           confirm |-> SubSeq(doubtful, 1, Least(3, Len(doubtful)))]]
Choice(ld, fallback, verdict, match) ==
    LET q == ld.q
        free == fallback \/ q.tags = {}
        pref == [d \in Rows(ld) |-> Preference(q, verdict[d], match[d], fallback)]
    IN Answer(ld, fallback, verdict,
              Selected(q, {d \in Rows(ld) : free \/ match[d] = "MATCHED"}, pref,
                       IF free THEN ld.r.fits ELSE {}),
              Ordered(q, {d \in Confirmable(q, ld.rows) : free \/ match[d] = "MATCHED"}))
Judged(ld, fallback, verdict) == Choice(ld, fallback, verdict, [d \in ld.rows |-> Combine(verdict[d])])
Finished(ld) ==
    Judged(ld, ld.q.tags # {} /\ ~Good(ld), [d \in ld.rows |-> Verdicts(ld.r, ld.q, ld.k, d)])

\* Mutant form: nobody remembers that the web was searched.
ConcludesAgain(ld, late) ==
    IF ld.q.tags = {} \/ Names(ld.q) = {} \/ Good(ld) \/ late
    THEN Finished(ld)
    ELSE [ld EXCEPT !.pc = "supply", !.stage = "again", !.before = ld.rows]

\* A rank is over, whatever came of it: verdicts are restored and the web is
\* searched once, unless that was done or no time is left.
Concludes(ld, late) ==
    IF ld.q.tags = {} \/ Names(ld.q) = {} \/ Good(ld) \/ ld.supplied \/ late
    THEN Finished(ld)
    ELSE [ld EXCEPT !.pc = "supply", !.stage = "again", !.supplied = TRUE, !.before = ld.rows]
Assessed(ld, known, late) ==
    Concludes([ld EXCEPT !.r = Hydrate(@, ld.q, ld.k, Rows(ld), known)], late)

\* rank(): what is known of a row, and whether it was found fit for this weather.
Knows(ld) == [d \in Dish |-> IF d \in Range(ld.shortlist)
                             THEN Known(ld.q, ld.k, d, decisions) ELSE Unknown]
Fitting(ld, d) == situations[<<d, ld.key[3]>>]
AllKnown(ld) ==
    /\ ld.window # {}
    /\ \A d \in ld.window : IF ld.q.tags # {} THEN Knows(ld)[d] # Unknown ELSE Fitting(ld, d) # Unknown

\* A rank has ended with r, then what was known counts; factors of an earlier
\* rank stay.
Ranked(ld, r, known, how) ==
    [ld EXCEPT !.r = [Recall(r, Dish, known) EXCEPT !.fits = @ \cup ld.r.fits],
               !.ranked = @ \/ how # "failed", !.ranks = @ \cup {how}]

Unanswered(ld, why) ==
    Ranked(ld, [Forget(ld.r) EXCEPT !.warned = @ \cup {why}], Knows(ld), "failed")

\* The rows to rank, all of them or, after a search for preferences, the new ones.
Lists(ld, list) == [ld EXCEPT !.shortlist = list, !.window = Window(ld.q, list, Fit)]
ListedFrom(ld, order) ==
    LET new == Without(order, ld.before) IN
    Lists(ld, IF ld.stage = "again" THEN SubSeq(new, 1, Least(MaxCandidates, Len(new)))
              ELSE Shortlist(ld.q, order, Range(scene.web), MaxCandidates))
Listing(ld) == ListedFrom(ld, Ordered(ld.q, Rows(ld)))

Unasked(ld) == ld.shortlist = << >> \/ (Len(ld.shortlist) = 1 /\ ld.q.tags = {}) \/ ~scene.ai
Ranking(ld, late) ==
    LET fitting == {d \in ld.window : Fitting(ld, d) = TRUE} IN
    IF ~Unasked(ld) /\ ~AllKnown(ld) /\ ld.window # {} THEN [ld EXCEPT !.pc = "slot"]
    ELSE Assessed(IF Unasked(ld) THEN ld
                  ELSE IF AllKnown(ld) THEN Ranked(ld, [Forget(ld.r) EXCEPT !.fits = fitting], Knows(ld), "known")
                  ELSE Unanswered(ld, "UNAVAILABLE"),
                  decisions, late)

\* RecipeRepository.find(), with the recipes of deferred supplies.
Found(l) ==
    /\ At(l, "find")
    /\ \/ /\ load' = [load EXCEPT ![l].pc = "attach",
                                  ![l].rows = {d \in memory \cup stored : Usable(load[l].q, d)}]
          /\ UNCHANGED faults
       \/ /\ Names(load[l].q) # {} /\ Fault("find")
          /\ load' = [load EXCEPT ![l].pc = "ended", ![l].out = [end |-> "failed"]]
    /\ UNCHANGED <<cvars, scene, caller, flights, waiters, entries, world, decisions, situations, weather, judged>>

\* attach_profiles(), only for a preference, and attach_attributes().
Attaches(ld, profiles, attributes) ==
    LET more(S, has, ok) == S \cup {d \in ld.rows : ok /\ has[d] # Unknown}
    IN [ld EXCEPT !.k = [profiled |-> more(@.profiled, Profile, profiles /\ ld.q.tags # {}),
                         classed |-> more(@.classed, Class, attributes)]]

\* All there is to do until the next await: wait for a supply when there is nothing
\* to show, start one in the background for expiring food nothing uses, and rank.
Proceeds(l, ld, late) ==
    LET focus == IF "USE_EXPIRING" \in ld.q.strategies THEN Uncovered(ld.q, Rows(ld)) ELSE {}
        waits == ld.stage = "start" /\ Names(ld.q) # {} /\ Rows(ld) = {} /\ ~late
        defers == ld.stage = "start" /\ Rows(ld) # {} /\ focus # {} /\ supply[Later].pc = "none"
    IN \/ waits /\ Goes(l, [ld EXCEPT !.pc = "supply", !.stage = "first", !.supplied = TRUE])
       \/ ~waits /\ defers /\ GoesWith(l, Ranking(Listing(ld), late),
                                     [supply EXCEPT ![Later] = Begun(ld.q, Soonest(ld.q, focus), TRUE)])
       \/ ~waits /\ ~defers /\ Goes(l, Ranking(Listing(ld), late))

\* The stores have answered, as far as they could in time.
Attached(l) ==
    /\ At(l, "attach")
    /\ \E profiles, attributes, late \in BOOLEAN :
         /\ IF profiles /\ attributes /\ ~late THEN UNCHANGED faults ELSE Fault("stores")
         /\ Proceeds(l, Attaches(load[l], profiles, attributes), late)
    /\ UNCHANGED <<cvars, scene, caller, flights, waiters, sources, decisions, situations, weather, judged>>

rest == <<cvars, caller, flights, waiters, entries, decisions, situations, weather, judged>>

\* RecipeSupply.replenish(), for a load that waits for it or in the background.
Replenishes(s) ==
    /\ s # Later => At(s, "supply")
    /\ Official(s) \/ Searches(s) \/ Looks(s) \/ Late(s)
    /\ UNCHANGED <<rest, load, memory>>

\* A page has been read, or its reading has unwound.
PageRead ==
    /\ \E v \in readings : Ended(v) \/ Died(v)
    /\ UNCHANGED <<rest, load, memory>>

\* CancelledError reaches the supply of a load.
SupplyStopped(l) ==
    /\ load[l].pc = "supply" /\ load[l].stage = "cancelled"
    /\ supply[l].pc # "none"
    /\ Stopped(l)
    /\ UNCHANGED <<rest, load, memory>>

\* A cancellation that finds the load awaiting a reading it has cancelled itself is
\* taken for the end of that reading, and the load goes on.
PageLeft(s) ==
    /\ Left(s)
    /\ load' = IF s # Later /\ supply[s].pc = "leaving" /\ load[s].stage = "cancelled"
                THEN [load EXCEPT ![s].stage = IF Rows(load[s]) = {} THEN "first" ELSE "again"]
                ELSE load
    /\ UNCHANGED <<rest, memory>>

\* supplement(): the recipes join the candidates, with what is stored about them.
Supplied(l) ==
    /\ At(l, "supply")
    /\ \E n \in 0 .. Len(supply[l].found) :
         LET ld == load[l]
             got == Brought(l, n).recipes
         IN /\ Saves(l, n)
            /\ load' = [load EXCEPT ![l].pc = "attach",
                                    ![l].rows = @ \cup {d \in got : Usable(ld.q, d)},
                                    ![l].k = [profiled |-> @.profiled \ got, classed |-> @.classed \ got],
                                    ![l].r.warned = @ \cup IF Brought(l, n).ok THEN {} ELSE {"SUPPLY"}]
    /\ Becomes(l, Idle)
    /\ UNCHANGED <<rest, memory>>

\* A supply that joined a reading somebody else had cancelled dies with it.
Unsupplied(s) ==
    /\ supply[s].pc = "dead"
    /\ load' = IF s = Later THEN load
                ELSE [load EXCEPT ![s].pc = "ended", ![s].out = [end |-> "cancelled"]]
    /\ Becomes(s, Idle)
    /\ UNCHANGED <<rest, scene, faults, sources>>

\* _run_deferred_supply(): what it found waits for later requests.
Replenished ==
    /\ \E n \in 0 .. Len(supply[Later].found) :
         Saves(Later, n) /\ memory' = memory \cup Brought(Later, n).recipes
    /\ Becomes(Later, Idle)
    /\ UNCHANGED <<rest, load>>

Calling == {l \in Load : load[l].pc = "calling"}

\* A slot is free: the circuit lets the call go, or the rank is over without it.
Slot(l) ==
    /\ At(l, "slot")
    /\ Cardinality(Calling) < AiSlots
    /\ \/ /\ Acquire(l)
          /\ load' = [load EXCEPT ![l].pc = "calling"]
          /\ UNCHANGED <<entries, supply>>
       \/ /\ Refuses
          /\ Goes(l, Assessed(Unanswered(load[l], "OPEN"), decisions, FALSE))
          /\ UNCHANGED cvars
    /\ UNCHANGED <<scene, caller, flights, waiters, sources, decisions, situations, weather, judged, faults>>

\* The time for the rank is over before a slot is free.
NoSlot(l) ==
    /\ At(l, "slot") /\ Cardinality(Calling) >= AiSlots
    /\ Goes(l, Assessed(Unanswered(load[l], "UNAVAILABLE"), decisions, FALSE))
    /\ UNCHANGED <<cvars, scene, caller, flights, waiters, sources, decisions, situations, weather, judged, faults>>

\* A valid answer: which rows match, with the tags it has quotes for.
Answered(l) ==
    LET ld == load[l]
        asked == {d \in ld.window : Knows(ld)[d] = Unknown}
    IN
    /\ At(l, "calling")
    /\ Succeed(l)
    /\ \E answer \in Answers(IF ld.q.tags = {} THEN {} ELSE asked, ld.q.tags), fits \in SUBSET IF ld.q.tags = {} THEN ld.window ELSE {} :
         LET r == Heard(Forget(ld.r), ld.q, ld.k, ld.window, answer, fits)
             kept == Remember(decisions, r, ld.q, Range(ld.shortlist), Knows(ld))
             settled == Settled(r, Range(ld.shortlist), Knows(ld))
             known == [d \in Dish |-> IF ld.q.tags # {} /\ d \in settled THEN kept[<<d, ld.q.tags>>]
                                      ELSE Knows(ld)[d]]
         IN /\ decisions' = kept
            /\ situations' = [p \in DOMAIN situations |->
                                 IF ld.q.tags = {} /\ p[1] \in ld.window /\ p[2] = ld.key[3]
                                 THEN p[1] \in fits ELSE situations[p]]
            /\ judged' = IF ld.q.tags = {} THEN judged
                          ELSE judged \cup {<<d, ld.q.tags>> : d \in ld.window \ r.vain}
            /\ Goes(l, Assessed(Ranked(ld, r, known, "answered"), kept, FALSE))
    /\ UNCHANGED <<scene, caller, flights, waiters, sources, weather, faults>>

\* The call fails, the retry of a transient failure included.
Failed(l) ==
    /\ At(l, "calling")
    /\ \E end \in CallEnds : IF Transient(end) THEN Fail(l) ELSE Succeed(l)
    /\ Fault("call")
    /\ Goes(l, Assessed(Unanswered(load[l], "UNAVAILABLE"), decisions, FALSE))
    /\ UNCHANGED <<scene, caller, flights, waiters, sources, decisions, situations, weather, judged>>

Cooled ==
    /\ CooledDown
    /\ UNCHANGED serviceVars

\* Time passes: a stored result, the decisions, the recipes of a deferred supply, or
\* what is known of a page are too old.
Ages ==
    /\ Fault("age")
    /\ \/ /\ \E i \in DOMAIN entries : entries[i].fresh /\ entries' = [entries EXCEPT ![i].fresh = FALSE]
          /\ UNCHANGED <<decisions, memory, pages>>
       \/ /\ \E p \in DOMAIN decisions : decisions[p] # Unknown
          /\ decisions' = [p \in DOMAIN decisions |-> Unknown]
          /\ UNCHANGED <<entries, memory, pages>>
       \/ memory # {} /\ memory' = {} /\ UNCHANGED <<entries, decisions, pages>>
       \/ /\ \E d \in Dish : pages[d] # "NONE" /\ pages' = [pages EXCEPT ![d] = "NONE"]
          /\ UNCHANGED <<entries, decisions, memory>>
    /\ UNCHANGED <<cvars, scene, caller, load, flights, waiters, stored, supply, readings, situations, weather, judged>>

System ==
    \/ Observed \/ Replenished \/ PageRead
    \/ \E s \in Supplier : Replenishes(s) \/ PageLeft(s) \/ Unsupplied(s)
    \/ \E c \in Caller : Start(c) \/ Waited(c) \/ Deliver(c) \/ Unwound(c)
    \/ \E l \in Load : \/ Unwind(l) \/ SupplyStopped(l) \/ Found(l) \/ Attached(l) \/ Supplied(l)
                       \/ Slot(l) \/ NoSlot(l) \/ Answered(l) \/ Failed(l)

Next == System \/ HourPasses \/ Cooled \/ Ages \/ \E c \in Caller : Abandon(c)

Spec == Init /\ [][Next]_vars

\* When a step of System can be taken.
Ready ==
    \/ refresh \in {"running", "late"} \/ supply[Later].pc # "none"
    \/ \E c \in Caller : \/ caller[c].pc \in {"idle", "weather"}
                         \/ caller[c].pc \in {"waiting", "unwinding"} /\ load[caller[c].load].pc = "ended"
    \/ \E l \in Load : load[l].pc \notin {"none", "ended"}

\* The event loop runs what is ready, calls have time limits, tasks end.  This is
\* WF_vars(System) with ENABLED written out: TLC is slow to find it out itself.
FairSpec == Spec /\ ([]<>~Ready \/ []<><<System>>_vars)

-----------------------------------------------------------------------------
(* Properties *)

Results == {l \in Load : load[l].pc = "ended" /\ load[l].out.end = "result"}

\* Whether the text or the stored facts of a recipe support a verdict.
Supported(d, t) ==
    \/ t \in Quotes[d]
    \/ Profile[d] # Unknown /\ t \in DOMAIN Profile[d] /\ Profile[d][t] = "MATCHED"
    \/ Class[d] # Unknown /\ t \in ClassTags /\ Class[d][t] = "MATCHED"
Refuted(q, d, t) ==
    \/ <<d, q.tags>> \in judged /\ t \notin Uncertain(q, d)
    \/ Profile[d] # Unknown /\ t \in DOMAIN Profile[d] /\ Profile[d][t] = "NOT_MATCHED"
    \/ Class[d] # Unknown /\ t \in ClassTags /\ Class[d][t] = "NOT_MATCHED"

\* The tags a stored profile does not name while it names another one that is asked
\* for: hydrate() counts the whole recipe as evaluated then.
Overlooked(q, d) ==
    {t \in q.tags \ ClassTags : /\ Profile[d] # Unknown /\ t \notin DOMAIN Profile[d]
                               /\ q.tags \cap DOMAIN Profile[d] # {}}

\* A recommendation for a preference holds recipes that match it, by a quote or by
\* stored facts and not by the word of the model or of another request's cached
\* verdict alone; a recipe counts as a mismatch only when somebody judged it and
\* its text could tell, or when the stored facts say so; and other recipes are
\* offered only when none matches.  Of the mismatch on an overlooked tag this says
\* nothing: there the code answers NOT_MATCHED though nobody may have judged the tag,
\* against recipe_async_api.md:128 and the comment at planning.py:149.
PreferenceHonoured ==
    \A l \in Results :
      LET out == load[l].out
          q == load[l].q
          proves(d) == \A t \in q.tags \ ClassTags : Supported(d, t) /\ out.verdict[d][t] = "MATCHED"
      IN /\ \A d \in Range(out.rows) : Usable(q, d) /\ (q.tags # {} /\ ~out.fallback => proves(d))
         /\ \A d \in DOMAIN out.verdict : \A t \in q.tags :
              /\ out.verdict[d][t] = "MATCHED" => Supported(d, t)
              /\ out.verdict[d][t] = "NOT_MATCHED" /\ t \notin Overlooked(q, d) => Refuted(q, d, t)
         /\ out.fallback /\ q.tags \ ClassTags # {} => ~ \E d \in Rows(load[l]) : proves(d)

\* A result that waits for other requests is one whose every rank was answered:
\* no failure, open circuit or missing slot is repeated to them as a judgement.
PinnedIsJudged ==
    \A i \in DOMAIN entries : "failed" \notin load[entries[i].load].ranks

\* A load is cancelled only by the last caller that waits for it, and the reading of
\* a page only by the last supply that does.
WaitedLoadsGoOn ==
    [][/\ \A l \in Load :
            load'[l].stage = "cancelled" /\ load[l].stage # "cancelled"
              => ~ \E c \in Caller : caller'[c].pc = "waiting" /\ caller'[c].load = l
       /\ \A v \in readings :
            v.state = "running" /\ [v EXCEPT !.state = "cancelled"] \in readings'
              => ~ \E s \in Supplier : Awaits(s, v)']_vars

\* The stock that a recommendation shows as used is shared fairly among the
\* ingredients of the recipe, the soonest to expire first (assess_quantities).
StockIsSharedFairly ==
    \A l \in Results : \A d \in Range(load[l].out.rows) : Fair(load[l].q, load[l].out.usage[d])

\* The model gets to see every urgent food there is room for, however few recipes
\* use it (representative_candidates).
UrgentFoodIsShown ==
    \A l \in Load : load[l].stage \in {"start", "first"} /\ load[l].pc \in {"slot", "calling", "ended"} =>
        Represented(load[l].q, Rows(load[l]), load[l].shortlist, MaxCandidates)

\* Whoever asks gets an answer, whatever fails on the way.
EveryRecommendationEnds == <>(\A c \in Caller : caller[c].pc = "ended")
=============================================================================
