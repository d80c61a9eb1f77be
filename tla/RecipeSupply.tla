----------------------------- MODULE RecipeSupply -----------------------------
(***************************************************************************)
(* Where recipes come from when the stores have none that fits               *)
(* (replenishment.py, web_provider.py, source_processing.py): the official   *)
(* source, a web search by food, and pages, some of which only the model can *)
(* read.  Supplies that need one page at the same time share its reading.    *)
(***************************************************************************)
EXTENDS RecipeRanker

CONSTANTS
    Supplier,        \* who may run a supply: the loads, and the one in the background
    PageText,        \* Dish -> "SECTIONS", "PROSE" or "MIXED", as its web page reads
    MaxExtractions   \* pages one search may give to the model, 2 in the code

VARIABLES
    scene,           \* what the web and the official source hold, and what may fail
    faults,          \* failures that may still happen
    stored,          \* the recipes of the database
    supply,          \* supplier -> its progress
    pages,           \* Dish -> what RecipeSourceProcessor remembers of its page
    readings         \* SourceFlights: [id, by, page, listed, state]

supplyVars == <<scene, faults, stored, supply, pages, readings>>

Fault(what) == what \in scene.flaky /\ faults > 0 /\ faults' = faults - 1

\* focus, names and hits are what is still to search and to look at; official and
\* found is what there is so far, ok whether nothing failed, at the reading awaited.
Idle == [pc |-> "none", q |-> Unknown, focus |-> << >>, names |-> << >>, hits |-> << >>, official |-> << >>,
         found |-> << >>, calls |-> 0, ok |-> TRUE, at |-> Unknown]

SupplyInit ==
    /\ supply = [s \in Supplier |-> Idle]
    /\ pages = [d \in Dish |-> "NONE"]
    /\ readings = {}

Becomes(s, x) == supply' = [supply EXCEPT ![s] = x]
Appended(list, d) == IF d \in Range(list) THEN list ELSE Append(list, d)

\* Foods of the stock, the soonest to expire first.
Soonest(q, S) ==
    Sorted(S, [n \in S |-> <<Lots(q, n)[1].days, Lots(q, n)[1].id>>])

FirstTwo(list) == SubSeq(list, 1, Least(2, Len(list)))

\* preference_search_focus(): urgent food that no recipe with a proven preference uses.
Unproven(q, rows, proven) ==
    Expiring(q) \ (Seasoning \cup Water \cup UNION {UrgentMain(q, d) : d \in rows \cap proven})

\* replenish() starts, with the official source unless only the web is wanted.
Begun(q, focus, official) ==
    [Idle EXCEPT !.pc = IF official THEN "official" ELSE "search", !.q = q, !.focus = focus,
                 !.names = FirstTwo(focus)]

\* The foods for which the official recipes have a dish of their own.
Covered(x) ==
    {n \in Range(x.focus) : \E d \in Range(x.official) :
        n \in LineNames(d) /\ Usable(x.q, d) /\ Role(d, n) = "MAIN" /\ (x.q.tags # {} => Signal(x.q, d))}

\* The official recipes are saved one by one; the web is not searched when they
\* cover the focus, or when less than a second is left.
Official(s) ==
    LET x == supply[s] IN
    /\ x.pc = "official"
    /\ \E n \in 0 .. Len(scene.official), late \in BOOLEAN :
         LET got == SubSeq(scene.official, 1, n)
             y == [x EXCEPT !.official = got, !.ok = n = Len(scene.official)]
             done == Range(x.focus) \subseteq Covered(y) \/ late
         IN /\ IF y.ok /\ ~late THEN UNCHANGED faults ELSE Fault("supply")
            /\ stored' = stored \cup Range(got)
            /\ Becomes(s, [y EXCEPT !.pc = IF done THEN "save" ELSE "search"])
    /\ UNCHANGED <<scene, pages, readings>>

\* WebRecipeProvider.search(): hits for the next food.
Searches(s) ==
    LET x == supply[s] IN
    /\ x.pc = "search"
    /\ Becomes(s, IF x.names = << >> THEN [x EXCEPT !.pc = "save"]
                  ELSE [x EXCEPT !.pc = IF scene.web = << >> THEN "search" ELSE "page", !.hits = scene.web,
                                 !.focus = <<Head(x.names)>>, !.names = Tail(x.names)])
    /\ UNCHANGED <<scene, faults, stored, pages, readings>>

\* A page is done with.  A recipe with the food, and with a sign of the preference,
\* ends the look at this food's pages.
Seen(x, d, end, own) ==
    LET good == end = "RECIPE"
        enough == good /\ x.focus[1] \in LineNames(d) /\ (x.q.tags # {} => Signal(x.q, d))
    IN [x EXCEPT !.pc = IF enough \/ Len(x.hits) = 1 THEN "search" ELSE "page",
                 !.hits = IF enough THEN << >> ELSE Tail(@),
                 !.found = IF good THEN Appended(@, d) ELSE @,
                 !.calls = @ + IF own THEN 1 ELSE 0,
                 !.ok = @ /\ end # "UNAVAILABLE", !.at = Unknown]

\* _materialize() without the model: what the rules make of a page.
Ruled(d) == IF PageText[d] = "SECTIONS" THEN "RECIPE" ELSE "REFUSED"
NeedsModel(x, d) == PageText[d] = "PROSE" /\ x.calls < MaxExtractions /\ scene.ai

Listed(d) == {v \in readings : v.page = d /\ v.listed}
Awaits(s, v) == supply[s].at = v.id /\ supply[s].pc = "reading"
\* A new task is none of those that are read or awaited.
Taken(n) == (\E v \in readings : v.id = n) \/ \E s \in Supplier : supply[s].at = n

\* RecipeSourceProcessor.process(): what is remembered of a page counts; a reading
\* with the model is joined or started; the rules alone need no reading.  A page
\* that only lacks the model is not remembered.
Looks(s) ==
    LET x == supply[s]
        d == Head(x.hits)
        known == pages[d] # "NONE"
        waits(v) == Becomes(s, [x EXCEPT !.pc = "reading", !.at = v.id])
        new(n) == [id |-> n, by |-> s, page |-> d, listed |-> TRUE, state |-> "running"]
    IN
    /\ x.pc = "page"
    /\ \/ /\ known \/ ~NeedsModel(x, d)
          /\ Becomes(s, Seen(x, d, IF known THEN pages[d] ELSE Ruled(d), FALSE))
          /\ pages' = IF known \/ PageText[d] = "PROSE" THEN pages ELSE [pages EXCEPT ![d] = Ruled(d)]
          /\ UNCHANGED readings
       \/ \E v \in Listed(d) : ~known /\ NeedsModel(x, d) /\ waits(v) /\ UNCHANGED <<pages, readings>>
       \/ /\ ~known /\ NeedsModel(x, d) /\ Listed(d) = {}
          /\ \E n \in 1 .. Cardinality(Supplier) :
               /\ ~Taken(n) /\ \A m \in 1 .. n - 1 : Taken(m)
               /\ readings' = readings \cup {new(n)}
               /\ waits(new(n))
          /\ UNCHANGED pages
    /\ UNCHANGED <<scene, faults, stored>>

\* The model has answered: an extraction that the text bears out is the recipe, any
\* other is refused; a call that failed is tried again soon, one there was no time
\* for leaves no trace.  Everybody who waits goes on; the one who started it counts
\* the call.
Ended(v) ==
    /\ v \in readings /\ v.state = "running"
    /\ \E end \in {"RECIPE", "REFUSED", "UNAVAILABLE"}, called \in BOOLEAN :
         /\ called \/ end = "UNAVAILABLE"
         /\ IF end = "RECIPE" THEN UNCHANGED faults ELSE Fault("supply")
         /\ pages' = IF called THEN [pages EXCEPT ![v.page] = end] ELSE pages
         /\ supply' = [s \in Supplier |-> IF Awaits(s, v)
                                         THEN Seen(supply[s], v.page, end, called /\ s = v.by) ELSE supply[s]]
    /\ readings' = readings \ {v}
    /\ UNCHANGED <<scene, stored>>

\* The time for the search is over.  What it has found is lost when the time limit
\* of replenish() strikes before its own.
OutOfTime(x, lost) == [x EXCEPT !.pc = "save", !.found = IF lost THEN << >> ELSE @, !.ok = FALSE, !.at = Unknown]

\* Mutant form: the one who started a reading takes it along.
LeavesWithAll(s, v, x, gone) ==
    /\ readings' = (readings \ {v}) \cup {[v EXCEPT !.state = "cancelled"]}
    /\ Becomes(s, x)

\* Nobody else waits: the reading is cancelled and the one who leaves awaits that.
Leaves(s, v, x, gone) ==
    IF \E o \in Supplier \ {s} : Awaits(o, v)
    THEN Becomes(s, gone) /\ UNCHANGED readings
    ELSE /\ readings' = (readings \ {v}) \cup {[v EXCEPT !.state = "cancelled"]}
         /\ Becomes(s, x)

Late(s) ==
    LET x == supply[s] IN
    /\ Fault("supply")
    /\ \E lost \in BOOLEAN :
         \/ x.pc \in {"search", "page"} /\ Becomes(s, OutOfTime(x, lost)) /\ UNCHANGED readings
         \/ \E v \in readings : /\ Awaits(s, v)
                               /\ Leaves(s, v, [x EXCEPT !.pc = "leaving", !.found = IF lost THEN << >> ELSE @],
                                         OutOfTime(x, lost))
    /\ UNCHANGED <<scene, stored, pages>>

\* CancelledError reaches a supply: one that waits for a page leaves it first.
Stopped(s) ==
    LET x == supply[s] IN
    /\ IF x.pc = "reading"
       THEN \E v \in readings : Awaits(s, v) /\ Leaves(s, v, [x EXCEPT !.pc = "unwinding"], Idle)
       ELSE x.pc \notin {"leaving", "unwinding"} /\ Becomes(s, Idle) /\ UNCHANGED readings
    /\ UNCHANGED <<scene, faults, stored, pages>>

\* The cancelled reading has unwound, and whoever joined it meanwhile is cancelled
\* with it.
Died(v) ==
    /\ v \in readings /\ v.state = "cancelled"
    /\ supply' = [s \in Supplier |-> IF Awaits(s, v) THEN [supply[s] EXCEPT !.pc = "dead"] ELSE supply[s]]
    /\ readings' = readings \ {v}
    /\ UNCHANGED <<scene, faults, stored, pages>>

\* The finally of process(): the one who cancelled the reading takes whatever reading
\* the page has by now off the list, and goes on with its timeout or its cancellation.
Left(s) ==
    LET x == supply[s]
        d == Head(x.hits)
    IN
    /\ x.pc \in {"leaving", "unwinding"}
    /\ ~ \E v \in readings : v.id = x.at /\ v.state = "cancelled"
    /\ readings' = {IF v.page = d THEN [v EXCEPT !.listed = FALSE] ELSE v : v \in readings}
    /\ Becomes(s, IF x.pc = "leaving" THEN OutOfTime(x, FALSE) ELSE Idle)
    /\ UNCHANGED <<scene, faults, stored, pages>>

\* The web recipes, as far as they could be saved; only approved sources are.
Brought(s, n) ==
    LET x == supply[s] IN
    [recipes |-> Range(x.official) \cup Range(SubSeq(x.found, 1, n)), ok |-> x.ok /\ n = Len(x.found)]
Saves(s, n) ==
    LET x == supply[s] IN
    /\ x.pc = "save" /\ n \in 0 .. Len(x.found)
    /\ IF n = Len(x.found) THEN UNCHANGED faults ELSE x.found[n + 1] \in scene.approved /\ Fault("supply")
    /\ stored' = stored \cup (Range(SubSeq(x.found, 1, n)) \cap scene.approved)
    /\ UNCHANGED <<scene, pages, readings>>
=============================================================================
