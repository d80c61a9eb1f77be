------------------------- MODULE RecipeServiceProofs -------------------------
(***************************************************************************)
(* Proofs about the recipe service: who waits for what, what a stored result *)
(* rests on, that the service uses the circuit as the circuit expects, and   *)
(* what the recommendations it answers with rest on.                         *)
(***************************************************************************)
EXTENDS RecipeService, RecipeCircuitProofs, RecipeStockProofs

-----------------------------------------------------------------------------
(* The invariant.                                                           *)

LoadFields == {"pc", "key", "q", "rows", "before", "k", "stage", "supplied", "asked",
               "r", "shortlist", "window", "ranked", "ranks", "out"}
RankFields == {"done", "ev", "vague", "vain", "fits", "warned"}
SupplyFields == {"pc", "q", "focus", "names", "hits", "official", "found", "calls", "ok", "at"}

LoadShape(x) == DOMAIN x = LoadFields /\ DOMAIN x.r = RankFields

\* A rank that failed has left its warning.
Warned(x) == "failed" \in x.ranks => {"UNAVAILABLE", "OPEN"} \cap x.r.warned # {}

Waiting(l) == {c \in Caller : caller[c].pc = "waiting" /\ caller[c].load = l}

\* The variables have the fields the operations expect.
Shapes ==
    /\ load = [l \in Load |-> load[l]]
    /\ \A l \in Load : LoadShape(load[l]) /\ Warned(load[l])
    /\ caller = [c \in Caller |-> caller[c]]
    /\ \A c \in Caller : DOMAIN caller[c] = {"pc", "load", "end"}
    /\ supply = [s \in Supplier |-> supply[s]]
    /\ \A s \in Supplier : DOMAIN supply[s] = SupplyFields
    /\ ticket = [l \in Load |-> ticket[l]]
    /\ flights \subseteq Load

\* The waiters of a load are counted, and a caller that has not asked yet has
\* started none.
WaitInv ==
    /\ waiters \in [Load -> Nat]
    /\ \A c \in Caller : caller[c].pc \in {"waiting", "unwinding"} => caller[c].load \in Load
    /\ \A c \in Caller : caller[c].pc \in {"idle", "weather"} => load[c].pc = "none"
    /\ \A l \in Load : waiters[l] = Cardinality(Waiting(l))

\* Only a load that calls the model has a ticket, and only one that waits for a
\* supply has it running.
LinkInv ==
    \A l \in Load : /\ ticket[l] # None => load[l].pc = "calling"
                    /\ supply[l].pc # "none" => load[l].pc = "supply"

\* What is stored is the result of a load that has ended, all its ranks answered.
StoreInv ==
    /\ entries \in Seq(Range(entries))
    /\ \A e \in Range(entries) :
         /\ DOMAIN e = {"key", "load", "fresh"} /\ e.load \in Load
         /\ load[e.load].pc = "ended" /\ "failed" \notin load[e.load].ranks

\* A reading has its own id.
ReadInv ==
    /\ \A v \in readings : DOMAIN v = {"id", "by", "page", "listed", "state"}
    /\ \A v, w \in readings : v.id = w.id => v = w

IInv == Shapes /\ WaitInv /\ LinkInv /\ StoreInv /\ ReadInv

-----------------------------------------------------------------------------
(* What a load computes between two awaits.                                 *)

\* A load goes on from x to y, at its end or waiting for a supply or a slot.
GoesOn(x, y) ==
    /\ LoadShape(y) /\ Warned(y)
    /\ y.stage \in {x.stage, "again"}
    /\ y.pc \in {"ended", "supply", "slot"}

LEMMA AnswerGoesOn ==
  ASSUME NEW x, LoadShape(x), Warned(x), NEW a, NEW b, NEW c, NEW d
  PROVE  GoesOn(x, Answer(x, a, b, c, d))
<1> DEFINE o == Answer(x, a, b, c, d).out
           y == [x EXCEPT !.pc = "ended", !.out = o]
<1>1. Answer(x, a, b, c, d) = y
  BY DEF Answer, LoadShape, LoadFields
<1> HIDE DEF o
<1>2. DOMAIN y = LoadFields /\ y.r = x.r /\ y.ranks = x.ranks /\ y.stage = x.stage /\ y.pc = "ended"
  BY DEF LoadShape, LoadFields
<1> QED
  BY <1>1, <1>2 DEF GoesOn, LoadShape, Warned

LEMMA FinishedGoesOn ==
  ASSUME NEW x, LoadShape(x), Warned(x)
  PROVE  GoesOn(x, Finished(x))
BY AnswerGoesOn DEF Finished, Judged, Choice

\* The web is searched once more, or it is over.
LEMMA ConcludesGoesOn ==
  ASSUME NEW x, LoadShape(x), Warned(x), NEW late
  PROVE  GoesOn(x, Concludes(x, late))
<1> DEFINE y == [x EXCEPT !.pc = "supply", !.stage = "again", !.supplied = TRUE, !.before = x.rows]
<1>1. DOMAIN y = LoadFields /\ y.r = x.r /\ y.ranks = x.ranks /\ y.stage = "again" /\ y.pc = "supply"
  BY DEF LoadShape, LoadFields
<1>2. GoesOn(x, y)
  BY <1>1 DEF GoesOn, LoadShape, Warned
<1>3. Concludes(x, late) \in {Finished(x), y}
  BY DEF Concludes
<1> HIDE DEF y
<1> QED
  BY <1>2, <1>3, FinishedGoesOn

\* hydrate() warns of nothing and forgets no warning.
LEMMA HydrateWarns ==
  ASSUME NEW r, DOMAIN r = RankFields, NEW q, NEW k, NEW rows, NEW known
  PROVE  DOMAIN Hydrate(r, q, k, rows, known) = RankFields /\ Hydrate(r, q, k, rows, known).warned = r.warned
<1> DEFINE h == Hydrate(r, q, k, rows, known)
           y == [r EXCEPT !.done = h.done, !.ev = h.ev, !.vague = h.vague, !.vain = h.vain]
<1>1. h = r \/ h = y
  BY DEF Hydrate, RankFields
<1> HIDE DEF h
<1>2. DOMAIN y = RankFields /\ y.warned = r.warned
  BY DEF RankFields
<1> QED
  BY <1>1, <1>2 DEF h

LEMMA AssessedGoesOn ==
  ASSUME NEW x, LoadShape(x), Warned(x), NEW known, NEW late
  PROVE  GoesOn(x, Assessed(x, known, late))
<1> DEFINE h == Hydrate(x.r, x.q, x.k, Rows(x), known)
           y == [x EXCEPT !.r = h]
<1>1. DOMAIN h = RankFields /\ h.warned = x.r.warned
  BY HydrateWarns DEF LoadShape
<1>2. Assessed(x, known, late) = Concludes(y, late)
  BY DEF Assessed
<1> HIDE DEF h
<1>3. DOMAIN y = LoadFields /\ y.r = h /\ y.ranks = x.ranks /\ y.stage = x.stage
  BY DEF LoadShape, LoadFields
<1>4. LoadShape(y) /\ Warned(y)
  BY <1>1, <1>3 DEF LoadShape, Warned
<1> HIDE DEF y
<1> QED
  BY <1>2, <1>3, <1>4, ConcludesGoesOn DEF GoesOn

\* recall() keeps the warnings of the rank.
LEMMA RecallWarns ==
  ASSUME NEW r, DOMAIN r = RankFields, NEW rows, NEW known
  PROVE  DOMAIN Recall(r, rows, known) = RankFields /\ Recall(r, rows, known).warned = r.warned
BY DEF Recall, RankFields

\* The same load at the same place, with what a rank has found.
Alike(x, y) == LoadShape(y) /\ Warned(y) /\ y.stage = x.stage /\ y.pc = x.pc

\* A rank that failed has warned of it, and the warnings of an earlier one stay.
LEMMA RankedIsAlike ==
  ASSUME NEW x, LoadShape(x), Warned(x), NEW r, DOMAIN r = RankFields, NEW known, NEW how,
         x.r.warned \subseteq r.warned,
         how = "failed" => {"UNAVAILABLE", "OPEN"} \cap r.warned # {}
  PROVE  Alike(x, Ranked(x, r, known, how))
<1> DEFINE n == Recall(r, Dish, known)
           m == [n EXCEPT !.fits = n.fits \cup x.r.fits]
           y == Ranked(x, r, known, how)
<1>1. DOMAIN n = RankFields /\ n.warned = r.warned
  BY RecallWarns
<1> HIDE DEF n
<1>2. DOMAIN m = RankFields /\ m.warned = r.warned
  BY <1>1 DEF RankFields
<1>3. y = [x EXCEPT !.r = m, !.ranked = y.ranked, !.ranks = x.ranks \cup {how}]
  BY DEF Ranked, LoadShape, LoadFields, n
<1> HIDE DEF m, y
<1>4. DOMAIN y = LoadFields /\ y.r = m /\ y.ranks = x.ranks \cup {how} /\ y.stage = x.stage /\ y.pc = x.pc
  BY <1>3 DEF LoadShape, LoadFields
<1>5. Alike(x, y)
  BY <1>2, <1>4 DEF Alike, LoadShape, Warned
<1> QED
  BY <1>5 DEF y

\* A rank without an answer.
LEMMA UnansweredIsAlike ==
  ASSUME NEW x, LoadShape(x), Warned(x), NEW why \in {"UNAVAILABLE", "OPEN"}
  PROVE  Alike(x, Unanswered(x, why))
<1> DEFINE f == Forget(x.r)
           r == [f EXCEPT !.warned = f.warned \cup {why}]
<1>1. DOMAIN f = RankFields /\ f.warned = x.r.warned
  BY DEF Forget, Fresh, RankFields
<1> HIDE DEF f
<1>2. DOMAIN r = RankFields /\ r.warned = x.r.warned \cup {why}
  BY <1>1 DEF RankFields
<1>3. Unanswered(x, why) = Ranked(x, r, Knows(x), "failed")
  BY DEF Unanswered, f
<1> HIDE DEF r
<1> QED
  BY <1>2, <1>3, RankedIsAlike

LEMMA ListingIsAlike ==
  ASSUME NEW x, LoadShape(x), Warned(x)
  PROVE  Alike(x, Listing(x))
<1>1. ASSUME NEW list PROVE Alike(x, Lists(x, list))
  BY DEF Lists, Alike, LoadShape, LoadFields, Warned
<1> QED
  BY <1>1 DEF Listing, ListedFrom

\* What follows the stores: the rank is over at once or waits for a slot.
LEMMA RankingGoesOn ==
  ASSUME NEW x, LoadShape(x), Warned(x), NEW late
  PROVE  GoesOn(x, Ranking(x, late))
<1> DEFINE fitting == {d \in x.window : Fitting(x, d) = TRUE}
           known == Ranked(x, [Forget(x.r) EXCEPT !.fits = fitting], Knows(x), "known")
           slot == [x EXCEPT !.pc = "slot"]
<1>1. Alike(x, known)
  <2> DEFINE f == Forget(x.r)
             r == [f EXCEPT !.fits = fitting]
  <2>1. DOMAIN f = RankFields /\ f.warned = x.r.warned
    BY DEF Forget, Fresh, RankFields
  <2> HIDE DEF f, fitting
  <2>2. DOMAIN r = RankFields /\ r.warned = x.r.warned
    BY <2>1 DEF RankFields
  <2>3. known = Ranked(x, r, Knows(x), "known")
    BY DEF f
  <2> HIDE DEF r, known
  <2> QED
    BY <2>2, <2>3, RankedIsAlike
<1>2. Alike(x, Unanswered(x, "UNAVAILABLE"))
  BY UnansweredIsAlike
<1>3. GoesOn(x, slot)
  BY DEF GoesOn, LoadShape, LoadFields, Warned
<1>4. Alike(x, x)
  BY DEF Alike
<1>5. ASSUME NEW y, Alike(x, y) PROVE GoesOn(x, Assessed(y, decisions, late))
  BY <1>5, AssessedGoesOn DEF Alike, GoesOn
<1>6. Ranking(x, late) \in {slot, Assessed(x, decisions, late), Assessed(known, decisions, late),
                            Assessed(Unanswered(x, "UNAVAILABLE"), decisions, late)}
  BY DEF Ranking
<1> HIDE DEF known, slot, fitting
<1> QED
  BY <1>1, <1>2, <1>3, <1>4, <1>5, <1>6

-----------------------------------------------------------------------------
(* What a step keeps.                                                       *)

\* A load goes from x to y without being started or cancelled.
Steady(x, y) ==
    /\ LoadShape(y) /\ Warned(y)
    /\ y.stage = "cancelled" => x.stage = "cancelled"
    /\ x.pc = "none" <=> y.pc = "none"
    /\ x.pc = "ended" => y.pc = "ended" /\ y.ranks = x.ranks

LoadsSteady == load' = [l \in Load |-> load'[l]] /\ \A l \in Load : Steady(load[l], load'[l])

\* WaitedLoadsGoOn, for loads and for the readings of pages.
Patient ==
    \A l \in Load :
        load'[l].stage = "cancelled" /\ load[l].stage # "cancelled"
          => ~ \E c \in Caller : caller'[c].pc = "waiting" /\ caller'[c].load = l
ReadsGoOn ==
    \A v \in readings :
        v.state = "running" /\ [v EXCEPT !.state = "cancelled"] \in readings'
          => ~ \E s \in Supplier : Awaits(s, v)'

\* What every step does.
Sustained == IInv' /\ [CNext]_cvars /\ Patient /\ ReadsGoOn

LEMMA LaterIs == Later \in Supplier /\ Later \notin Load /\ Supplier = Load \cup {Later}
<1>1. \E s \in Supplier : s \notin Load /\ Supplier = Load \cup {s}
  BY ServiceAssumption
<1>2. Later \in Supplier /\ Later \notin Load
  BY <1>1 DEF Later
<1> QED
  BY <1>1, <1>2

LEMMA OneLoad ==
  ASSUME Shapes, NEW l \in Load, NEW y, load' = [load EXCEPT ![l] = y], Steady(load[l], y)
  PROVE  /\ LoadsSteady
         /\ load'[l] = y
         /\ \A k \in Load : k # l => load'[k] = load[k]
<1>1. load' = [k \in Load |-> load'[k]] /\ load'[l] = y /\ \A k \in Load : k # l => load'[k] = load[k]
  BY DEF Shapes
<1>2. ASSUME NEW k \in Load, k # l PROVE Steady(load[k], load'[k])
  BY <1>1, <1>2 DEF Shapes, Steady
<1> QED
  BY <1>1, <1>2 DEF LoadsSteady

\* Nobody comes or leaves.
LEMMA CalmKeeps ==
  ASSUME Shapes, WaitInv, UNCHANGED <<caller, waiters, flights>>, LoadsSteady
  PROVE  WaitInv' /\ Patient
<1>1. \A l \in Load : Waiting(l)' = Waiting(l)
  BY DEF Waiting
<1>2. \A c \in Caller : caller[c].pc \in {"idle", "weather"} => load'[c].pc = "none"
  BY DEF WaitInv, LoadsSteady, Steady, Caller
<1>3. Patient
  BY DEF Patient, LoadsSteady, Steady
<1> QED
  BY <1>1, <1>2, <1>3 DEF WaitInv

LEMMA SteadyShapes ==
  ASSUME Shapes, UNCHANGED <<caller, flights>>, LoadsSteady,
         supply' = [s \in Supplier |-> supply'[s]], \A s \in Supplier : DOMAIN supply'[s] = SupplyFields,
         ticket' = [l \in Load |-> ticket'[l]]
  PROVE  Shapes'
BY DEF Shapes, LoadsSteady, Steady

\* What is stored stays the result of a load that has ended.
LEMMA StoreKept ==
  ASSUME StoreInv, \A l \in Load : load[l].pc = "ended" => load'[l].pc = "ended" /\ load'[l].ranks = load[l].ranks,
         NEW S, entries' \in Seq(S),
         \A e \in S : /\ DOMAIN e = {"key", "load", "fresh"} /\ e.load \in Load
                      /\ load'[e.load].pc = "ended" /\ "failed" \notin load'[e.load].ranks
  PROVE  StoreInv'
<1>1. entries' \in Seq(Range(entries')) /\ Range(entries') \subseteq S
  BY DEF Range
<1> QED
  BY <1>1 DEF StoreInv

LEMMA StoreStands ==
  ASSUME StoreInv, \A l \in Load : load[l].pc = "ended" => load'[l].pc = "ended" /\ load'[l].ranks = load[l].ranks,
         entries' \in Seq(Range(entries))
  PROVE  StoreInv'
<1>1. \A e \in Range(entries) : /\ DOMAIN e = {"key", "load", "fresh"} /\ e.load \in Load
                                /\ load'[e.load].pc = "ended" /\ "failed" \notin load'[e.load].ranks
  BY DEF StoreInv
<1> QED
  BY <1>1, StoreKept

\* No reading changes: two of them never share an id.
LEMMA ReadsStand ==
  ASSUME ReadInv, readings' \subseteq readings
  PROVE  ReadInv' /\ ReadsGoOn
<1>1. ASSUME NEW v \in readings, v.state = "running", [v EXCEPT !.state = "cancelled"] \in readings PROVE FALSE
  <2> DEFINE w == [v EXCEPT !.state = "cancelled"]
  <2>1. w.id = v.id /\ w.state = "cancelled"
    BY DEF ReadInv
  <2> HIDE DEF w
  <2>2. w = v
    BY <1>1, <2>1 DEF ReadInv, w
  <2> QED
    BY <1>1, <2>1, <2>2
<1> QED
  BY <1>1 DEF ReadInv, ReadsGoOn

\* Callers stand, the loads go on, whatever the step does to supplies and pages.
LEMMA LoadKeeps ==
  ASSUME IInv, UNCHANGED <<caller, waiters, flights>>, LoadsSteady,
         supply' = [s \in Supplier |-> supply'[s]], \A s \in Supplier : DOMAIN supply'[s] = SupplyFields,
         ticket' = [l \in Load |-> ticket'[l]],
         LinkInv', StoreInv', ReadInv', ReadsGoOn, [CNext]_cvars
  PROVE  Sustained
BY CalmKeeps, SteadyShapes DEF IInv, Sustained

LEMMA LoadsStand ==
  ASSUME Shapes, load' = load
  PROVE  LoadsSteady
BY DEF Shapes, LoadsSteady, Steady

\* Only a supply moves, and it does not begin.
LEMMA SupplyKeeps ==
  ASSUME IInv, UNCHANGED <<cvars, caller, waiters, flights, entries, load>>,
         supply' = [s \in Supplier |-> supply'[s]], \A s \in Supplier : DOMAIN supply'[s] = SupplyFields,
         \A s \in Supplier : supply[s].pc = "none" => supply'[s].pc = "none",
         ReadInv', ReadsGoOn
  PROVE  Sustained
<1>1. LoadsSteady
  BY LoadsStand DEF IInv
<1>2. ticket' = ticket /\ ticket' = [l \in Load |-> ticket'[l]]
  BY DEF cvars, IInv, Shapes
<1>3. LinkInv'
  BY <1>2, LaterIs DEF IInv, LinkInv
<1>4. StoreInv'
  BY DEF IInv, StoreInv
<1> QED
  BY <1>1, <1>2, <1>3, <1>4, LoadKeeps

-----------------------------------------------------------------------------
(* The supplies and the readings they share.                                *)

\* Supply s, which was running, becomes x.
Turns(s) ==
    /\ supply' = [o \in Supplier |-> supply'[o]]
    /\ \A o \in Supplier : DOMAIN supply'[o] = SupplyFields
    /\ \A o \in Supplier : supply[o].pc = "none" => supply'[o].pc = "none"
    /\ \A o \in Supplier : o # s => supply'[o] = supply[o]

LEMMA Becoming ==
  ASSUME Shapes, NEW s \in Supplier, NEW x, Becomes(s, x), DOMAIN x = SupplyFields, supply[s].pc # "none"
  PROVE  Turns(s) /\ supply'[s] = x
BY DEF Shapes, Becomes, Turns

LEMMA SeenShape ==
  ASSUME NEW x, DOMAIN x = SupplyFields, NEW d, NEW end, NEW own
  PROVE  DOMAIN Seen(x, d, end, own) = SupplyFields
BY DEF Seen, SupplyFields

LEMMA OutOfTimeShape ==
  ASSUME NEW x, DOMAIN x = SupplyFields, NEW lost
  PROVE  DOMAIN OutOfTime(x, lost) = SupplyFields
BY DEF OutOfTime, SupplyFields

LEMMA IdleShape == DOMAIN Idle = SupplyFields /\ Idle.pc = "none"
BY DEF Idle, SupplyFields

\* A new reading has a new id.
LEMMA ReadsGrow ==
  ASSUME ReadInv, NEW n, \A v \in readings : v.id # n, NEW s, NEW d,
         readings' = readings \cup {[id |-> n, by |-> s, page |-> d, listed |-> TRUE, state |-> "running"]}
  PROVE  ReadInv' /\ ReadsGoOn
<1> DEFINE new == [id |-> n, by |-> s, page |-> d, listed |-> TRUE, state |-> "running"]
<1>1. new.id = n /\ new.state = "running" /\ DOMAIN new = {"id", "by", "page", "listed", "state"}
  OBVIOUS
<1> HIDE DEF new
<1>2. readings' = readings \cup {new}
  BY DEF new
<1>3. ReadInv'
  BY <1>1, <1>2 DEF ReadInv
<1>4. ASSUME NEW v \in readings, v.state = "running", [v EXCEPT !.state = "cancelled"] \in readings' PROVE FALSE
  <2> DEFINE w == [v EXCEPT !.state = "cancelled"]
  <2>1. w.id = v.id /\ w.state = "cancelled"
    BY DEF ReadInv
  <2> HIDE DEF w
  <2>2. w # new
    BY <1>1, <2>1
  <2>3. w = v
    BY <1>2, <1>4, <2>1, <2>2 DEF ReadInv, w
  <2> QED
    BY <1>4, <2>1, <2>3
<1> QED
  BY <1>3, <1>4 DEF ReadsGoOn

\* The last one who waits takes the reading along, nobody else does.
LEMMA LeavesKeeps ==
  ASSUME Shapes, ReadInv, NEW s \in Supplier, NEW v \in readings, supply[s].pc # "none",
         NEW x, DOMAIN x = SupplyFields, x.pc # "reading", NEW gone, DOMAIN gone = SupplyFields,
         Leaves(s, v, x, gone)
  PROVE  Turns(s) /\ ReadInv' /\ ReadsGoOn
<1>1. CASE \E o \in Supplier \ {s} : Awaits(o, v)
  <2>1. Becomes(s, gone) /\ readings' = readings
    BY <1>1 DEF Leaves
  <2> QED
    BY <2>1, Becoming, ReadsStand
<1>2. CASE ~\E o \in Supplier \ {s} : Awaits(o, v)
  <2> DEFINE u == [v EXCEPT !.state = "cancelled"]
  <2>1. Becomes(s, x) /\ readings' = (readings \ {v}) \cup {u}
    BY <1>2 DEF Leaves
  <2>2. Turns(s) /\ supply'[s] = x
    BY <2>1, Becoming
  <2>3. u.id = v.id /\ DOMAIN u = {"id", "by", "page", "listed", "state"}
    BY DEF ReadInv
  <2> HIDE DEF u
  <2>4. ReadInv'
    BY <2>1, <2>3 DEF ReadInv
  <2>5. ASSUME NEW r \in readings, r.state = "running", [r EXCEPT !.state = "cancelled"] \in readings'
        PROVE  r = v
    <3> DEFINE w == [r EXCEPT !.state = "cancelled"]
    <3>1. w.id = r.id /\ w.state = "cancelled"
      BY DEF ReadInv
    <3> HIDE DEF w
    <3>2. w = u \/ w \in readings
      BY <2>1, <2>5 DEF w
    <3>3. CASE w = u
      BY <2>3, <3>1, <3>3 DEF ReadInv
    <3>4. CASE w \in readings
      <4>1. w = r
        BY <3>1, <3>4 DEF ReadInv
      <4> QED
        BY <2>5, <3>1, <4>1
    <3> QED
      BY <3>2, <3>3, <3>4
  <2>6. \A o \in Supplier : ~Awaits(o, v)'
    BY <1>2, <2>2 DEF Awaits, Turns
  <2>7. ReadsGoOn
    BY <2>5, <2>6 DEF ReadsGoOn
  <2> QED
    BY <2>2, <2>4, <2>7
<1> QED
  BY <1>1, <1>2

LEMMA OfficialKeeps ==
  ASSUME Shapes, ReadInv, NEW s \in Supplier, Official(s)
  PROVE  Turns(s) /\ ReadInv' /\ ReadsGoOn
<1>1. DOMAIN supply[s] = SupplyFields /\ supply[s].pc # "none"
  BY DEF Shapes, Official
<1>2. PICK n \in 0 .. Len(scene.official), pc \in {"save", "search"}, ok \in BOOLEAN :
        Becomes(s, [[supply[s] EXCEPT !.official = SubSeq(scene.official, 1, n), !.ok = ok] EXCEPT !.pc = pc])
  BY DEF Official
<1> DEFINE x == [[supply[s] EXCEPT !.official = SubSeq(scene.official, 1, n), !.ok = ok] EXCEPT !.pc = pc]
<1>3. DOMAIN x = SupplyFields
  BY <1>1 DEF SupplyFields
<1> HIDE DEF x
<1>4. Turns(s)
  BY <1>1, <1>2, <1>3, Becoming DEF x
<1>5. readings' = readings
  BY DEF Official
<1> QED
  BY <1>4, <1>5, ReadsStand

LEMMA SearchesKeeps ==
  ASSUME Shapes, ReadInv, NEW s \in Supplier, Searches(s)
  PROVE  Turns(s) /\ ReadInv' /\ ReadsGoOn
<1>1. DOMAIN supply[s] = SupplyFields /\ supply[s].pc # "none"
  BY DEF Shapes, Searches
<1> DEFINE x == IF supply[s].names = << >> THEN [supply[s] EXCEPT !.pc = "save"]
                ELSE [supply[s] EXCEPT !.pc = IF scene.web = << >> THEN "search" ELSE "page", !.hits = scene.web,
                                       !.focus = <<Head(supply[s].names)>>, !.names = Tail(supply[s].names)]
<1>2. DOMAIN x = SupplyFields
  BY <1>1 DEF SupplyFields
<1>3. Becomes(s, x) /\ readings' = readings
  BY DEF Searches
<1> HIDE DEF x
<1> QED
  BY <1>1, <1>2, <1>3, Becoming, ReadsStand

LEMMA LooksKeeps ==
  ASSUME Shapes, ReadInv, NEW s \in Supplier, Looks(s)
  PROVE  Turns(s) /\ ReadInv' /\ ReadsGoOn
<1> DEFINE d == Head(supply[s].hits)
           waits(n) == [supply[s] EXCEPT !.pc = "reading", !.at = n]
           new(n) == [id |-> n, by |-> s, page |-> d, listed |-> TRUE, state |-> "running"]
<1>1. DOMAIN supply[s] = SupplyFields /\ supply[s].pc # "none"
  BY DEF Shapes, Looks
<1>2. \A n : DOMAIN waits(n) = SupplyFields
  BY <1>1 DEF SupplyFields
<1>3. \/ readings' = readings /\ \E end : Becomes(s, Seen(supply[s], d, end, FALSE))
      \/ readings' = readings /\ \E v \in readings : Becomes(s, waits(v.id))
      \/ \E n \in 1 .. Cardinality(Supplier) :
            ~Taken(n) /\ readings' = readings \cup {new(n)} /\ Becomes(s, waits(n))
  BY DEF Looks, Listed
<1> HIDE DEF d, waits
<1>4. CASE readings' = readings /\ \E end : Becomes(s, Seen(supply[s], d, end, FALSE))
  BY <1>1, <1>4, SeenShape, Becoming, ReadsStand
<1>5. CASE readings' = readings /\ \E v \in readings : Becomes(s, waits(v.id))
  BY <1>1, <1>2, <1>5, Becoming, ReadsStand
<1>6. CASE \E n \in 1 .. Cardinality(Supplier) :
             ~Taken(n) /\ readings' = readings \cup {new(n)} /\ Becomes(s, waits(n))
  <2>1. PICK n \in 1 .. Cardinality(Supplier) :
          ~Taken(n) /\ readings' = readings \cup {new(n)} /\ Becomes(s, waits(n))
    BY <1>6
  <2>2. Turns(s)
    BY <1>1, <1>2, <2>1, Becoming
  <2>3. ReadInv' /\ ReadsGoOn
    BY <2>1, ReadsGrow DEF Taken
  <2> QED
    BY <2>2, <2>3
<1> QED
  BY <1>3, <1>4, <1>5, <1>6

LEMMA LateKeeps ==
  ASSUME Shapes, ReadInv, NEW s \in Supplier, Late(s)
  PROVE  Turns(s) /\ ReadInv' /\ ReadsGoOn
<1>1. PICK lost \in BOOLEAN :
         \/ supply[s].pc \in {"search", "page"} /\ Becomes(s, OutOfTime(supply[s], lost)) /\ readings' = readings
         \/ \E v \in readings :
               Awaits(s, v) /\ Leaves(s, v, [supply[s] EXCEPT !.pc = "leaving", !.found = IF lost THEN << >> ELSE @],
                                      OutOfTime(supply[s], lost))
  BY DEF Late
<1>2. DOMAIN supply[s] = SupplyFields
  BY DEF Shapes
<1>3. DOMAIN OutOfTime(supply[s], lost) = SupplyFields
  BY <1>2, OutOfTimeShape
<1>4. CASE supply[s].pc \in {"search", "page"} /\ Becomes(s, OutOfTime(supply[s], lost)) /\ readings' = readings
  <2>1. supply[s].pc # "none"
    BY <1>4
  <2> QED
    BY <1>3, <1>4, <2>1, Becoming, ReadsStand
<1>5. CASE \E v \in readings :
             Awaits(s, v) /\ Leaves(s, v, [supply[s] EXCEPT !.pc = "leaving", !.found = IF lost THEN << >> ELSE @],
                                    OutOfTime(supply[s], lost))
  <2> DEFINE x == [supply[s] EXCEPT !.pc = "leaving", !.found = IF lost THEN << >> ELSE supply[s].found]
  <2>1. PICK v \in readings : Awaits(s, v) /\ Leaves(s, v, x, OutOfTime(supply[s], lost))
    BY <1>5
  <2>2. DOMAIN x = SupplyFields /\ x.pc = "leaving" /\ supply[s].pc # "none"
    BY <1>2, <2>1 DEF SupplyFields, Awaits
  <2> HIDE DEF x
  <2> QED
    BY <1>3, <2>1, <2>2, LeavesKeeps
<1> QED
  BY <1>1, <1>4, <1>5

LEMMA StoppedKeeps ==
  ASSUME Shapes, ReadInv, NEW s \in Supplier, supply[s].pc # "none", Stopped(s)
  PROVE  Turns(s) /\ ReadInv' /\ ReadsGoOn
<1>1. DOMAIN supply[s] = SupplyFields
  BY DEF Shapes
<1>2. CASE supply[s].pc = "reading"
  <2> DEFINE x == [supply[s] EXCEPT !.pc = "unwinding"]
  <2>1. PICK v \in readings : Leaves(s, v, x, Idle)
    BY <1>2 DEF Stopped
  <2>2. DOMAIN x = SupplyFields /\ x.pc = "unwinding"
    BY <1>1 DEF SupplyFields
  <2> HIDE DEF x
  <2> QED
    BY <2>1, <2>2, IdleShape, LeavesKeeps
<1>3. CASE supply[s].pc # "reading"
  BY <1>3, IdleShape, Becoming, ReadsStand DEF Stopped
<1> QED
  BY <1>2, <1>3

\* The page of the reading is taken off the list, whatever reading it has by now.
LEMMA LeftKeeps ==
  ASSUME Shapes, ReadInv, NEW s \in Supplier, Left(s)
  PROVE  Turns(s) /\ ReadInv' /\ ReadsGoOn
<1> DEFINE off(v) == IF v.page = Head(supply[s].hits) THEN [v EXCEPT !.listed = FALSE] ELSE v
           x == IF supply[s].pc = "leaving" THEN OutOfTime(supply[s], FALSE) ELSE Idle
<1>1. DOMAIN supply[s] = SupplyFields /\ supply[s].pc # "none"
  BY DEF Shapes, Left
<1>2. readings' = {off(v) : v \in readings} /\ Becomes(s, x)
  BY DEF Left
<1>3. DOMAIN x = SupplyFields
  BY <1>1, OutOfTimeShape, IdleShape
<1>4. \A v \in readings : /\ off(v).id = v.id /\ off(v).state = v.state
                          /\ DOMAIN off(v) = {"id", "by", "page", "listed", "state"}
  BY DEF ReadInv
<1> HIDE DEF off, x
<1>5. Turns(s)
  BY <1>1, <1>2, <1>3, Becoming
<1>6. ReadInv'
  BY <1>2, <1>4 DEF ReadInv
<1>7. ASSUME NEW v \in readings, v.state = "running", [v EXCEPT !.state = "cancelled"] \in readings' PROVE FALSE
  <2> DEFINE w == [v EXCEPT !.state = "cancelled"]
  <2>1. w.id = v.id /\ w.state = "cancelled"
    BY DEF ReadInv
  <2> HIDE DEF w
  <2>2. PICK u \in readings : w = off(u)
    BY <1>2, <1>7 DEF w
  <2>3. u = v
    BY <1>4, <2>1, <2>2 DEF ReadInv
  <2> QED
    BY <1>4, <1>7, <2>1, <2>2, <2>3
<1> QED
  BY <1>5, <1>6, <1>7 DEF ReadsGoOn

-----------------------------------------------------------------------------
(* The steps of the supplies.                                               *)

LEMMA ReplenishesKeeps ==
  ASSUME IInv, NEW s \in Supplier, Replenishes(s)
  PROVE  Sustained
<1>1. Turns(s) /\ ReadInv' /\ ReadsGoOn
  BY OfficialKeeps, SearchesKeeps, LooksKeeps, LateKeeps DEF IInv, Replenishes
<1> QED
  BY <1>1, SupplyKeeps DEF Turns, Replenishes, rest

LEMMA PageReadKeeps ==
  ASSUME IInv, PageRead
  PROVE  Sustained
<1>1. PICK v \in readings : Ended(v) \/ Died(v)
  BY DEF PageRead
<1>2. readings' \subseteq readings
  BY <1>1 DEF Ended, Died
<1>3. supply' = [s \in Supplier |-> supply'[s]]
  BY <1>1 DEF Ended, Died
<1>4. ASSUME NEW s \in Supplier
      PROVE  DOMAIN supply'[s] = SupplyFields /\ (supply[s].pc = "none" => supply'[s].pc = "none")
  <2>1. DOMAIN supply[s] = SupplyFields
    BY DEF IInv, Shapes
  <2>2. CASE Ended(v)
    <3>1. supply'[s] = supply[s] \/ (Awaits(s, v) /\ \E end, own : supply'[s] = Seen(supply[s], v.page, end, own))
      BY <2>2 DEF Ended
    <3>2. CASE supply'[s] = supply[s]
      BY <2>1, <3>2
    <3>3. CASE Awaits(s, v) /\ \E end, own : supply'[s] = Seen(supply[s], v.page, end, own)
      BY <2>1, <3>3, SeenShape DEF Awaits
    <3> QED
      BY <3>1, <3>2, <3>3
  <2>3. CASE Died(v)
    <3>1. supply'[s] = supply[s] \/ (Awaits(s, v) /\ supply'[s] = [supply[s] EXCEPT !.pc = "dead"])
      BY <2>3 DEF Died
    <3>2. DOMAIN [supply[s] EXCEPT !.pc = "dead"] = SupplyFields
      BY <2>1
    <3> QED
      BY <2>1, <3>1, <3>2 DEF Awaits
  <2> QED
    BY <1>1, <2>2, <2>3
<1>5. ReadInv' /\ ReadsGoOn
  BY <1>2, ReadsStand DEF IInv
<1> QED
  BY <1>3, <1>4, <1>5, SupplyKeeps DEF PageRead, rest

LEMMA SupplyStoppedKeeps ==
  ASSUME IInv, NEW l \in Load, SupplyStopped(l)
  PROVE  Sustained
<1>1. l \in Supplier
  BY LaterIs
<1>2. Turns(l) /\ ReadInv' /\ ReadsGoOn
  BY <1>1, StoppedKeeps DEF IInv, SupplyStopped
<1> QED
  BY <1>2, SupplyKeeps DEF Turns, SupplyStopped, rest

LEMMA ReplenishedKeeps ==
  ASSUME IInv, Replenished
  PROVE  Sustained
<1>1. Later \in Supplier /\ supply[Later].pc # "none" /\ readings' = readings
  BY LaterIs DEF Replenished, Saves
<1>2. Turns(Later)
  BY <1>1, Becoming, IdleShape DEF Replenished, IInv
<1>3. ReadInv' /\ ReadsGoOn
  BY <1>1, ReadsStand DEF IInv
<1> QED
  BY <1>2, <1>3, SupplyKeeps DEF Turns, Replenished, rest

\* A supply and the load it belongs to move; the circuit and the store do not.
LEMMA PairKeeps ==
  ASSUME IInv, UNCHANGED <<cvars, caller, waiters, flights, entries>>, LoadsSteady, NEW s \in Supplier, Turns(s),
         ReadInv', ReadsGoOn,
         \A l \in Load : load'[l].pc = load[l].pc \/ (ticket[l] = None /\ supply'[l].pc = "none")
  PROVE  Sustained
<1>1. ticket' = ticket /\ ticket' = [l \in Load |-> ticket'[l]]
  BY DEF cvars, IInv, Shapes
<1>2. LinkInv'
  BY <1>1, LaterIs DEF IInv, LinkInv, Turns
<1>3. StoreInv'
  BY StoreStands DEF IInv, StoreInv, LoadsSteady, Steady
<1>4. [CNext]_cvars
  OBVIOUS
<1> QED
  BY <1>1, <1>2, <1>3, <1>4, LoadKeeps DEF Turns

LEMMA PageLeftKeeps ==
  ASSUME IInv, NEW s \in Supplier, PageLeft(s)
  PROVE  Sustained
<1>1. Turns(s) /\ ReadInv' /\ ReadsGoOn
  BY LeftKeeps DEF IInv, PageLeft
<1>2. CASE load' = load
  <2>1. LoadsSteady
    BY <1>2, LoadsStand DEF IInv
  <2> QED
    BY <1>1, <1>2, <2>1, PairKeeps DEF PageLeft, rest
<1>3. CASE s # Later /\ \E how \in {"first", "again"} : load' = [load EXCEPT ![s].stage = how]
  <2>1. PICK how \in {"first", "again"} : load' = [load EXCEPT ![s].stage = how]
    BY <1>3
  <2> DEFINE y == [load[s] EXCEPT !.stage = how]
  <2>2. s \in Load
    BY <1>3, LaterIs
  <2>3. load' = [load EXCEPT ![s] = y]
    BY <2>1
  <2>4. DOMAIN y = LoadFields /\ y.r = load[s].r /\ y.ranks = load[s].ranks /\ y.stage = how /\ y.pc = load[s].pc
    BY <2>2 DEF IInv, Shapes, LoadShape, LoadFields
  <2> HIDE DEF y
  <2>5. Steady(load[s], y)
    BY <2>2, <2>4 DEF IInv, Shapes, LoadShape, Warned, Steady
  <2>6. LoadsSteady /\ \A l \in Load : load'[l].pc = load[l].pc
    BY <2>2, <2>3, <2>4, <2>5, OneLoad DEF IInv
  <2> QED
    BY <1>1, <2>6, PairKeeps DEF PageLeft, rest
<1> QED
  BY <1>2, <1>3 DEF PageLeft

LEMMA SuppliedKeeps ==
  ASSUME IInv, NEW l \in Load, Supplied(l)
  PROVE  Sustained
<1>1. l \in Supplier /\ load[l].pc = "supply" /\ load[l].stage # "cancelled" /\ LoadShape(load[l]) /\ Warned(load[l])
  BY LaterIs DEF Supplied, At, Running, IInv, Shapes
<1>2. PICK n \in 0 .. Len(supply[l].found) :
         LET ld == load[l]
             got == Brought(l, n).recipes
         IN /\ Saves(l, n)
            /\ load' = [load EXCEPT ![l].pc = "attach",
                                    ![l].rows = @ \cup {d \in got : Usable(ld.q, d)},
                                    ![l].k = [profiled |-> @.profiled \ got, classed |-> @.classed \ got],
                                    ![l].r.warned = @ \cup IF Brought(l, n).ok THEN {} ELSE {"SUPPLY"}]
  BY DEF Supplied
<1> DEFINE got == Brought(l, n).recipes
           more == IF Brought(l, n).ok THEN {} ELSE {"SUPPLY"}
           r == [load[l].r EXCEPT !.warned = load[l].r.warned \cup more]
           y == [load[l] EXCEPT !.pc = "attach", !.rows = load[l].rows \cup {d \in got : Usable(load[l].q, d)},
                                !.k = [profiled |-> load[l].k.profiled \ got, classed |-> load[l].k.classed \ got],
                                !.r = r]
<1>3. load' = [load EXCEPT ![l] = y]
  BY <1>1, <1>2 DEF LoadShape, LoadFields
<1>4. DOMAIN r = RankFields /\ load[l].r.warned \subseteq r.warned
  BY <1>1 DEF LoadShape, RankFields
<1> HIDE DEF got, more, r
<1>5. DOMAIN y = LoadFields /\ y.r = r /\ y.ranks = load[l].ranks /\ y.stage = load[l].stage /\ y.pc = "attach"
  BY <1>1 DEF LoadShape, LoadFields
<1> HIDE DEF y
<1>6. Steady(load[l], y)
  BY <1>1, <1>4, <1>5 DEF LoadShape, Warned, Steady
<1>7. LoadsSteady /\ \A k \in Load : k # l => load'[k] = load[k]
  BY <1>3, <1>6, OneLoad DEF IInv
<1>8. supply[l].pc # "none" /\ readings' = readings
  BY <1>2 DEF Saves
<1>9. Turns(l) /\ supply'[l].pc = "none"
  BY <1>1, <1>8, Becoming, IdleShape DEF Supplied, IInv
<1>10. ReadInv' /\ ReadsGoOn
  BY <1>8, ReadsStand DEF IInv
<1>11. ticket[l] = None
  BY <1>1 DEF IInv, LinkInv
<1> QED
  BY <1>1, <1>7, <1>9, <1>10, <1>11, PairKeeps DEF Supplied, rest

LEMMA UnsuppliedKeeps ==
  ASSUME IInv, NEW s \in Supplier, Unsupplied(s)
  PROVE  Sustained
<1>1. supply[s].pc # "none" /\ readings' = readings
  BY DEF Unsupplied, sources
<1>2. Turns(s) /\ supply'[s].pc = "none"
  BY <1>1, Becoming, IdleShape DEF Unsupplied, IInv
<1>3. ReadInv' /\ ReadsGoOn
  BY <1>1, ReadsStand DEF IInv
<1>4. CASE s = Later
  <2>1. LoadsSteady /\ load' = load
    BY <1>4, LoadsStand DEF IInv, Unsupplied
  <2> QED
    BY <1>2, <1>3, <2>1, PairKeeps DEF Unsupplied, rest
<1>5. CASE s # Later
  <2> DEFINE y == [load[s] EXCEPT !.pc = "ended", !.out = [end |-> "cancelled"]]
  <2>1. s \in Load /\ load[s].pc = "supply" /\ ticket[s] = None /\ LoadShape(load[s]) /\ Warned(load[s])
    BY <1>1, <1>5, LaterIs DEF IInv, LinkInv, Shapes
  <2>2. load' = [load EXCEPT ![s] = y]
    BY <1>5 DEF Unsupplied
  <2>3. DOMAIN y = LoadFields /\ y.r = load[s].r /\ y.ranks = load[s].ranks /\ y.stage = load[s].stage /\ y.pc = "ended"
    BY <2>1 DEF LoadShape, LoadFields
  <2> HIDE DEF y
  <2>4. Steady(load[s], y)
    BY <2>1, <2>3 DEF LoadShape, Warned, Steady
  <2>5. LoadsSteady /\ \A k \in Load : k # s => load'[k] = load[k]
    BY <2>1, <2>2, <2>4, OneLoad DEF IInv
  <2> QED
    BY <1>2, <1>3, <2>1, <2>5, PairKeeps DEF Unsupplied, rest
<1> QED
  BY <1>4, <1>5

-----------------------------------------------------------------------------
(* The steps of a load.                                                     *)

LEMMA DroppedIsKept ==
  ASSUME NEW S, entries \in Seq(S), NEW key
  PROVE  Dropped(key) \in Seq(S)
<1>1. CASE Entry(key) = {}
  BY <1>1 DEF Dropped
<1>2. CASE Entry(key) # {}
  <2> DEFINE i == CHOOSE j \in Entry(key) : TRUE
  <2>1. i \in 1 .. Len(entries)
    BY <1>2 DEF Entry
  <2>2. Dropped(key) = RemoveAt(entries, i)
    BY <1>2 DEF Dropped
  <2> HIDE DEF i
  <2>3. SubSeq(entries, 1, i - 1) \in Seq(S)
    BY <2>1, SubSeqProperties
  <2>4. SubSeq(entries, i + 1, Len(entries)) \in Seq(S)
    BY <2>1, SubSeqProperties
  <2> QED
    BY <2>2, <2>3, <2>4 DEF RemoveAt
<1> QED
  BY <1>1, <1>2

\* The oldest entries make room.
LEMMA NewestOf ==
  ASSUME NEW S, NEW list \in Seq(S)
  PROVE  SubSeq(list, Len(list) - Least(MaxEntries, Len(list)) + 1, Len(list)) \in Seq(S)
<1> DEFINE m == Len(list) - Least(MaxEntries, Len(list)) + 1
<1>1. MaxEntries \in Nat /\ Len(list) \in Nat
  BY ServiceAssumption
<1>2. Least(MaxEntries, Len(list)) \in 0 .. Len(list)
  BY <1>1 DEF Least
<1>3. m \in 1 .. Len(list) + 1
  BY <1>1, <1>2
<1> HIDE DEF m
<1>4. \A i \in m .. Len(list) : list[i] \in S
  BY <1>1, <1>3
<1>5. SubSeq(list, m, Len(list)) \in Seq(S)
  BY <1>1, <1>3, <1>4, SubSeqProperties
<1> QED
  BY <1>5 DEF m

\* The load goes on from a place where it neither waits for a supply nor has ended.
Going(l, y) ==
    /\ load[l].pc \in {"attach", "slot", "calling"}
    /\ LoadShape(y) /\ Warned(y)
    /\ y.stage # "cancelled"
    /\ y.pc \in {"ended", "supply", "slot"}

LEMMA GoingIsSteady ==
  ASSUME NEW l \in Load, NEW y, Going(l, y)
  PROVE  Steady(load[l], y)
BY DEF Going, Steady

\* A stored result lacks no judgement.
LEMMA GoingStores ==
  ASSUME IInv, NEW l \in Load, NEW y, Going(l, y), load' = [load EXCEPT ![l] = y],
         NEW running, GoesWith(l, y, running)
  PROVE  StoreInv'
<1>1. LoadsSteady /\ load'[l] = y
  BY GoingIsSteady, OneLoad DEF IInv
<1>2. \A k \in Load : load[k].pc = "ended" => load'[k].pc = "ended" /\ load'[k].ranks = load[k].ranks
  BY <1>1 DEF LoadsSteady, Steady
<1>3. CASE y.pc = "ended" /\ Stores(y)
  <2> DEFINE new == [key |-> y.key, load |-> l, fresh |-> TRUE]
             S == Range(entries) \cup {new}
             all == Append(Dropped(y.key), new)
  <2>1. entries \in Seq(S)
    BY DEF IInv, StoreInv
  <2>2. Dropped(y.key) \in Seq(S)
    BY <2>1, DroppedIsKept
  <2>3. all \in Seq(S)
    BY <2>2
  <2>4. entries' = SubSeq(all, Len(all) - Least(MaxEntries, Len(all)) + 1, Len(all))
    BY <1>3 DEF GoesWith
  <2> HIDE DEF all
  <2>5. entries' \in Seq(S)
    BY <2>3, <2>4, NewestOf
  <2>6. "failed" \notin y.ranks
    BY <1>3 DEF Stores, Lacks, Going, Warned
  <2>7. DOMAIN new = {"key", "load", "fresh"} /\ new.load = l
    OBVIOUS
  <2> HIDE DEF new
  <2>8. \A e \in S : /\ DOMAIN e = {"key", "load", "fresh"} /\ e.load \in Load
                     /\ load'[e.load].pc = "ended" /\ "failed" \notin load'[e.load].ranks
    BY <1>1, <1>2, <1>3, <2>6, <2>7 DEF IInv, StoreInv
  <2> HIDE DEF S
  <2> QED
    BY <1>2, <2>5, <2>8, StoreKept DEF IInv
<1>4. CASE ~(y.pc = "ended" /\ Stores(y))
  <2>1. entries' = entries
    BY <1>4 DEF GoesWith
  <2> QED
    BY <1>2, <2>1, StoreStands DEF IInv, StoreInv
<1> QED
  BY <1>3, <1>4

\* Its ticket, if it had one, is back.
LEMMA GoesKeeps ==
  ASSUME IInv, NEW l \in Load, NEW y, Going(l, y), NEW running, GoesWith(l, y, running),
         running = [s \in Supplier |-> running[s]], \A s \in Supplier : DOMAIN running[s] = SupplyFields,
         \A k \in Load : running[k] = supply[k],
         UNCHANGED <<caller, waiters, flights, readings>>,
         ticket' = [k \in Load |-> ticket'[k]], ticket'[l] = None,
         \A k \in Load : k # l => ticket'[k] = ticket[k],
         [CNext]_cvars
  PROVE  Sustained
<1> DEFINE b == Begun(y.q, Focus(y), y.stage = "first")
<1>1. load' = [load EXCEPT ![l] = y]
  BY DEF GoesWith
<1>2. /\ LoadsSteady /\ load'[l] = y
      /\ \A k \in Load : k # l => load'[k] = load[k]
  BY <1>1, GoingIsSteady, OneLoad DEF IInv
<1>3. StoreInv'
  BY <1>1, GoingStores
<1>4. DOMAIN b = SupplyFields
  BY DEF Begun, Idle, SupplyFields
<1>5. l \in Supplier
  BY LaterIs
<1>6. supply' = IF y.pc = "supply" THEN [running EXCEPT ![l] = b] ELSE running
  BY DEF GoesWith
<1> HIDE DEF b
<1>7. supply' = [s \in Supplier |-> supply'[s]] /\ \A s \in Supplier : DOMAIN supply'[s] = SupplyFields
  BY <1>4, <1>5, <1>6
<1>8. \A k \in Load : supply'[k] = supply[k] \/ (k = l /\ y.pc = "supply")
  BY <1>5, <1>6, LaterIs
<1>9. supply[l].pc = "none"
  BY DEF IInv, LinkInv, Going
<1>10. LinkInv'
  BY <1>2, <1>8, <1>9 DEF IInv, LinkInv
<1>11. ReadInv' /\ ReadsGoOn
  BY ReadsStand DEF IInv
<1> QED
  BY <1>2, <1>3, <1>7, <1>10, <1>11, LoadKeeps

\* The supplies that run, when the step starts none in the background.
LEMMA RunningSupply ==
  ASSUME Shapes
  PROVE  /\ supply = [s \in Supplier |-> supply[s]] /\ \A s \in Supplier : DOMAIN supply[s] = SupplyFields
         /\ \A k \in Load : supply[k] = supply[k]
BY DEF Shapes

LEMMA BegunShape ==
  ASSUME NEW q, NEW focus, NEW official
  PROVE  DOMAIN Begun(q, focus, official) = SupplyFields
BY DEF Begun, Idle, SupplyFields

\* What the stores had, and a supply for later when none is under way.
LEMMA AttachedKeeps ==
  ASSUME IInv, NEW l \in Load, Attached(l)
  PROVE  Sustained
<1> DEFINE old == load[l]
           first(x) == [x EXCEPT !.pc = "supply", !.stage = "first", !.supplied = TRUE]
<1>1. LoadShape(old) /\ Warned(old) /\ old.pc = "attach" /\ old.stage # "cancelled"
  BY DEF IInv, Shapes, Attached, At, Running
<1>2. PICK profiles, attributes, late \in BOOLEAN :
         /\ IF profiles /\ attributes /\ ~late THEN UNCHANGED faults ELSE Fault("stores")
         /\ Proceeds(l, Attaches(load[l], profiles, attributes), late)
  BY DEF Attached
<1> DEFINE ld == Attaches(old, profiles, attributes)
<1>3. Alike(old, ld)
  BY <1>1 DEF Attaches, Alike, LoadShape, LoadFields, Warned
<1>4. PICK running :
        /\ running = supply \/ \E q, focus : running = [supply EXCEPT ![Later] = Begun(q, focus, TRUE)]
        /\ GoesWith(l, first(ld), running) \/ GoesWith(l, Ranking(Listing(ld), late), running)
  BY <1>2 DEF Proceeds, Goes
<1> HIDE DEF ld
<1>5. Going(l, first(ld))
  BY <1>1, <1>3 DEF Going, Alike, LoadShape, LoadFields, Warned
<1> HIDE DEF first
<1>6. Going(l, Ranking(Listing(ld), late))
  <2>1. Alike(ld, Listing(ld))
    BY <1>3, ListingIsAlike DEF Alike
  <2>2. GoesOn(Listing(ld), Ranking(Listing(ld), late))
    BY <2>1, RankingGoesOn DEF Alike
  <2> QED
    BY <1>1, <1>3, <2>1, <2>2 DEF Going, Alike, GoesOn
<1>7. /\ running = [s \in Supplier |-> running[s]]
      /\ \A s \in Supplier : DOMAIN running[s] = SupplyFields
      /\ \A j \in Load : running[j] = supply[j]
  <2>1. CASE running = supply
    BY <2>1, RunningSupply DEF IInv
  <2>2. CASE \E q, focus : running = [supply EXCEPT ![Later] = Begun(q, focus, TRUE)]
    <3>1. PICK b : running = [supply EXCEPT ![Later] = b] /\ DOMAIN b = SupplyFields
      BY <2>2, BegunShape
    <3> QED
      BY <3>1, RunningSupply, LaterIs DEF IInv
  <2> QED
    BY <1>4, <2>1, <2>2
<1>8. /\ UNCHANGED <<cvars, caller, waiters, flights, readings>>
      /\ ticket' = [j \in Load |-> ticket'[j]] /\ ticket'[l] = None /\ ticket' = ticket
  BY <1>1 DEF Attached, sources, cvars, IInv, LinkInv, Shapes
<1> HIDE DEF old
<1>9. ASSUME NEW y, Going(l, y), GoesWith(l, y, running) PROVE Sustained
  BY <1>7, <1>8, <1>9, GoesKeeps
<1> QED
  BY <1>4, <1>5, <1>6, <1>9

\* The rank is over without an answer of the model.
LEMMA UnansweredGoes ==
  ASSUME IInv, NEW l \in Load, load[l].pc \in {"slot", "calling"}, Running(l), NEW why \in {"UNAVAILABLE", "OPEN"}
  PROVE  Going(l, Assessed(Unanswered(load[l], why), decisions, FALSE))
<1>1. LoadShape(load[l]) /\ Warned(load[l])
  BY DEF IInv, Shapes
<1>2. Alike(load[l], Unanswered(load[l], why))
  BY <1>1, UnansweredIsAlike
<1>3. GoesOn(Unanswered(load[l], why), Assessed(Unanswered(load[l], why), decisions, FALSE))
  BY <1>2, AssessedGoesOn DEF Alike
<1> QED
  BY <1>2, <1>3 DEF Going, GoesOn, Alike, Running

LEMMA SlotKeeps ==
  ASSUME IInv, NEW l \in Load, Slot(l)
  PROVE  Sustained
<1>1. /\ load[l].pc = "slot" /\ Running(l) /\ ticket[l] = None /\ supply[l].pc = "none"
      /\ LoadShape(load[l]) /\ Warned(load[l])
  BY DEF Slot, At, IInv, LinkInv, Shapes
<1>2. CASE Acquire(l) /\ load' = [load EXCEPT ![l].pc = "calling"] /\ UNCHANGED <<entries, supply>>
  <2> DEFINE y == [load[l] EXCEPT !.pc = "calling"]
  <2>1. load' = [load EXCEPT ![l] = y]
    BY <1>2
  <2>2. DOMAIN y = LoadFields /\ y.r = load[l].r /\ y.ranks = load[l].ranks /\ y.stage = load[l].stage /\ y.pc = "calling"
    BY <1>1 DEF LoadShape, LoadFields
  <2> HIDE DEF y
  <2>3. Steady(load[l], y)
    BY <1>1, <2>2 DEF LoadShape, Warned, Steady
  <2>4. LoadsSteady /\ load'[l] = y /\ \A k \in Load : k # l => load'[k] = load[k]
    BY <2>1, <2>3, OneLoad DEF IInv
  <2>5. /\ ticket' = [k \in Load |-> ticket'[k]]
        /\ \A k \in Load : k # l => ticket'[k] = ticket[k]
    BY <1>2 DEF Acquire, IInv, Shapes
  <2>6. LinkInv'
    BY <1>1, <1>2, <2>2, <2>4, <2>5 DEF IInv, LinkInv
  <2>7. StoreInv'
    BY <1>2, <2>4, StoreStands DEF IInv, StoreInv, LoadsSteady, Steady
  <2>8. ReadInv' /\ ReadsGoOn
    BY ReadsStand DEF IInv, Slot, sources
  <2>9. [CNext]_cvars
    BY <1>1, <1>2 DEF CNext
  <2>10. supply' = [s \in Supplier |-> supply'[s]] /\ \A s \in Supplier : DOMAIN supply'[s] = SupplyFields
    BY <1>2, RunningSupply DEF IInv
  <2> QED
    BY <2>4, <2>5, <2>6, <2>7, <2>8, <2>9, <2>10, LoadKeeps DEF Slot
<1>3. CASE Goes(l, Assessed(Unanswered(load[l], "OPEN"), decisions, FALSE)) /\ UNCHANGED cvars
  <2> DEFINE y == Assessed(Unanswered(load[l], "OPEN"), decisions, FALSE)
  <2>1. Going(l, y)
    BY <1>1, UnansweredGoes
  <2>2. GoesWith(l, y, supply)
    BY <1>3 DEF Goes
  <2> HIDE DEF y
  <2>3. UNCHANGED <<caller, waiters, flights, readings, ticket>>
    BY <1>3 DEF Slot, sources, cvars
  <2> QED
    BY <1>1, <1>3, <2>1, <2>2, <2>3, RunningSupply, GoesKeeps DEF IInv, Shapes
<1> QED
  BY <1>2, <1>3 DEF Slot

LEMMA NoSlotKeeps ==
  ASSUME IInv, NEW l \in Load, NoSlot(l)
  PROVE  Sustained
<1> DEFINE y == Assessed(Unanswered(load[l], "UNAVAILABLE"), decisions, FALSE)
<1>1. load[l].pc = "slot" /\ Running(l) /\ ticket[l] = None
  BY DEF NoSlot, At, IInv, LinkInv
<1>2. Going(l, y)
  BY <1>1, UnansweredGoes
<1>3. GoesWith(l, y, supply)
  BY DEF NoSlot, Goes
<1> HIDE DEF y
<1>4. UNCHANGED <<cvars, caller, waiters, flights, readings, ticket>>
  BY DEF NoSlot, sources, cvars
<1> QED
  BY <1>1, <1>2, <1>3, <1>4, RunningSupply, GoesKeeps DEF IInv, Shapes

LEMMA HeardWarns ==
  ASSUME NEW r, DOMAIN r = RankFields, NEW q, NEW k, NEW window, NEW answer, NEW fits
  PROVE  /\ DOMAIN Heard(r, q, k, window, answer, fits) = RankFields
         /\ r.warned \subseteq Heard(r, q, k, window, answer, fits).warned
BY DEF Heard, RankFields

\* A call of the model gives its ticket back.
LEMMA CallEndsOnce ==
  ASSUME Shapes, NEW l \in Load, Succeed(l) \/ Fail(l) \/ CancelCall(l)
  PROVE  /\ ticket' = [k \in Load |-> ticket'[k]] /\ ticket'[l] = None
         /\ \A k \in Load : k # l => ticket'[k] = ticket[k]
         /\ [CNext]_cvars
<1>1. ticket' = [ticket EXCEPT ![l] = None]
  BY DEF Succeed, Fail, CancelCall, Returned
<1>2. CNext
  BY DEF CNext
<1> QED
  BY <1>1, <1>2 DEF Shapes

LEMMA AnsweredKeeps ==
  ASSUME IInv, NEW l \in Load, Answered(l)
  PROVE  Sustained
<1> DEFINE ld == load[l]
<1>1. LoadShape(ld) /\ Warned(ld) /\ ld.pc = "calling" /\ Running(l)
  BY DEF IInv, Shapes, Answered, At
<1>2. PICK answer, fits, known, kept :
        Goes(l, Assessed(Ranked(ld, Heard(Forget(ld.r), ld.q, ld.k, ld.window, answer, fits), known, "answered"),
                         kept, FALSE))
  BY DEF Answered
<1> DEFINE r == Heard(Forget(ld.r), ld.q, ld.k, ld.window, answer, fits)
           z == Ranked(ld, r, known, "answered")
           y == Assessed(z, kept, FALSE)
<1>3. DOMAIN Forget(ld.r) = RankFields /\ Forget(ld.r).warned = ld.r.warned
  BY DEF Forget, Fresh, RankFields
<1>4. DOMAIN r = RankFields /\ ld.r.warned \subseteq r.warned
  BY <1>3, HeardWarns
<1> HIDE DEF r
<1>5. Alike(ld, z)
  BY <1>1, <1>4, RankedIsAlike
<1> HIDE DEF z
<1>6. GoesOn(z, y)
  BY <1>5, AssessedGoesOn DEF Alike
<1>7. GoesWith(l, y, supply)
  BY <1>2 DEF Goes, r, z
<1> HIDE DEF y
<1>8. Going(l, y)
  BY <1>1, <1>5, <1>6 DEF Going, GoesOn, Alike, Running
<1>9. UNCHANGED <<caller, waiters, flights, readings>> /\ Succeed(l)
  BY DEF Answered, sources
<1> QED
  BY <1>7, <1>8, <1>9, CallEndsOnce, RunningSupply, GoesKeeps DEF IInv

LEMMA FailedKeeps ==
  ASSUME IInv, NEW l \in Load, Failed(l)
  PROVE  Sustained
<1> DEFINE y == Assessed(Unanswered(load[l], "UNAVAILABLE"), decisions, FALSE)
<1>1. load[l].pc = "calling" /\ Running(l) /\ (Succeed(l) \/ Fail(l))
  BY DEF Failed, At
<1>2. Going(l, y)
  BY <1>1, UnansweredGoes
<1>3. GoesWith(l, y, supply)
  BY DEF Failed, Goes
<1> HIDE DEF y
<1>4. UNCHANGED <<caller, waiters, flights, readings>>
  BY DEF Failed, sources
<1> QED
  BY <1>1, <1>2, <1>3, <1>4, CallEndsOnce, RunningSupply, GoesKeeps DEF IInv

\* A load that neither has a ticket nor a supply goes from x to y.
LEMMA QuietKeeps ==
  ASSUME IInv, UNCHANGED <<caller, waiters, flights, entries, supply, readings>>,
         NEW l \in Load, NEW y, load' = [load EXCEPT ![l] = y], Steady(load[l], y),
         ticket' = [k \in Load |-> ticket'[k]], \A k \in Load : k # l => ticket'[k] = ticket[k],
         ticket'[l] = None, supply[l].pc = "none", [CNext]_cvars
  PROVE  Sustained
<1>1. LoadsSteady /\ \A k \in Load : k # l => load'[k] = load[k]
  BY OneLoad DEF IInv
<1>2. LinkInv'
  BY <1>1 DEF IInv, LinkInv
<1>3. StoreInv'
  BY <1>1, StoreStands DEF IInv, StoreInv, LoadsSteady, Steady
<1>4. ReadInv' /\ ReadsGoOn
  BY ReadsStand DEF IInv
<1> QED
  BY <1>1, <1>2, <1>3, <1>4, RunningSupply, LoadKeeps DEF IInv

LEMMA FoundKeeps ==
  ASSUME IInv, NEW l \in Load, Found(l)
  PROVE  Sustained
<1>1. /\ load[l].pc = "find" /\ ticket[l] = None /\ supply[l].pc = "none"
      /\ LoadShape(load[l]) /\ Warned(load[l])
  BY DEF Found, At, IInv, LinkInv, Shapes
<1>2. /\ UNCHANGED <<caller, waiters, flights, entries, supply, readings, ticket>>
      /\ [CNext]_cvars /\ ticket' = [k \in Load |-> ticket'[k]]
  BY DEF Found, world, sources, cvars, IInv, Shapes
<1>3. PICK rows, out : \/ load' = [load EXCEPT ![l].pc = "attach", ![l].rows = rows]
                       \/ load' = [load EXCEPT ![l].pc = "ended", ![l].out = out]
  BY DEF Found
<1> DEFINE y == [load[l] EXCEPT !.pc = "attach", !.rows = rows]
           z == [load[l] EXCEPT !.pc = "ended", !.out = out]
<1>4. load' = [load EXCEPT ![l] = y] \/ load' = [load EXCEPT ![l] = z]
  BY <1>3
<1>5. Steady(load[l], y)
  <2>1. DOMAIN y = LoadFields /\ y.r = load[l].r /\ y.ranks = load[l].ranks /\ y.stage = load[l].stage /\ y.pc = "attach"
    BY <1>1 DEF LoadShape, LoadFields
  <2> HIDE DEF y
  <2> QED
    BY <1>1, <2>1 DEF LoadShape, Warned, Steady
<1>6. Steady(load[l], z)
  <2>1. DOMAIN z = LoadFields /\ z.r = load[l].r /\ z.ranks = load[l].ranks /\ z.stage = load[l].stage /\ z.pc = "ended"
    BY <1>1 DEF LoadShape, LoadFields
  <2> HIDE DEF z
  <2> QED
    BY <1>1, <2>1 DEF LoadShape, Warned, Steady
<1> HIDE DEF y, z
<1> QED
  BY <1>1, <1>2, <1>4, <1>5, <1>6, QuietKeeps

LEMMA UnwindKeeps ==
  ASSUME IInv, NEW l \in Load, Unwind(l)
  PROVE  Sustained
<1> DEFINE z == [load[l] EXCEPT !.pc = "ended", !.out = [end |-> "cancelled"]]
<1>1. /\ load[l].pc \notin {"none", "ended"} /\ supply[l].pc = "none"
      /\ LoadShape(load[l]) /\ Warned(load[l])
  BY DEF Unwind, IInv, Shapes
<1>2. load' = [load EXCEPT ![l] = z]
  BY DEF Unwind
<1>3. Steady(load[l], z)
  <2>1. DOMAIN z = LoadFields /\ z.r = load[l].r /\ z.ranks = load[l].ranks /\ z.stage = load[l].stage /\ z.pc = "ended"
    BY <1>1 DEF LoadShape, LoadFields
  <2> HIDE DEF z
  <2> QED
    BY <1>1, <2>1 DEF LoadShape, Warned, Steady
<1> HIDE DEF z
<1>4. /\ ticket' = [k \in Load |-> ticket'[k]] /\ ticket'[l] = None
      /\ \A k \in Load : k # l => ticket'[k] = ticket[k]
      /\ [CNext]_cvars
  <2>1. CASE ticket[l] # None
    BY <2>1, CallEndsOnce DEF Unwind, IInv
  <2>2. CASE ticket[l] = None
    BY <2>2 DEF Unwind, cvars, IInv, Shapes
  <2> QED
    BY <2>1, <2>2
<1>5. UNCHANGED <<caller, waiters, flights, entries, supply, readings>>
  BY DEF Unwind, world, sources
<1> QED
  BY <1>1, <1>2, <1>3, <1>4, <1>5, QuietKeeps

-----------------------------------------------------------------------------
(* The steps of a caller.                                                   *)

CallerFields == {"pc", "load", "end"}
Counted == waiters \in [Load -> Nat] /\ \A l \in Load : waiters[l] = Cardinality(Waiting(l))

\* Caller c goes on as x.
Moves(c, x) ==
    /\ caller' = [caller EXCEPT ![c] = x]
    /\ DOMAIN x = CallerFields
    /\ x.pc \in {"waiting", "unwinding"} => x.load \in Load
    /\ x.pc \in {"idle", "weather"} => load'[c].pc = "none"

\* Its move changes who waits for l at most, and nobody when that is nobody.
LEMMA MovedWaits ==
  ASSUME Shapes, NEW c \in Load, NEW x, Moves(c, x), NEW l
  PROVE  /\ x.pc = "waiting" /\ x.load = l => Waiting(l)' = Waiting(l) \cup {c}
         /\ ~(x.pc = "waiting" /\ x.load = l) => Waiting(l)' = Waiting(l) \ {c}
<1>1. caller'[c] = x /\ \A d \in Caller : d # c => caller'[d] = caller[d]
  BY DEF Moves, Shapes, Caller
<1> QED
  BY <1>1 DEF Waiting, Caller

LEMMA WaitingIsFinite == \A l : IsFiniteSet(Waiting(l)) /\ Cardinality(Waiting(l)) \in Nat
<1>1. \A l : Waiting(l) \subseteq Load
  BY DEF Waiting, Caller
<1> QED
  BY <1>1, ServiceAssumption, FS_Subset, FS_CardinalityType

LEMMA ComesCounted ==
  ASSUME Shapes, Counted, NEW c \in Load, caller[c].pc # "waiting", NEW x, Moves(c, x),
         NEW l \in Load, x.pc = "waiting", x.load = l, waiters' = [waiters EXCEPT ![l] = @ + 1]
  PROVE  Counted'
<1>1. c \notin Waiting(l) /\ \A k : c \notin Waiting(k)
  BY DEF Waiting
<1>2. Waiting(l)' = Waiting(l) \cup {c} /\ \A k : k # l => Waiting(k)' = Waiting(k)
  BY <1>1, MovedWaits
<1>3. Cardinality(Waiting(l) \cup {c}) = Cardinality(Waiting(l)) + 1
  BY <1>1, WaitingIsFinite, FS_AddElement
<1>4. waiters' \in [Load -> Nat] /\ waiters'[l] = waiters[l] + 1 /\ \A k \in Load : k # l => waiters'[k] = waiters[k]
  BY DEF Counted
<1>5. waiters'[l] = Cardinality(Waiting(l)')
  BY <1>2, <1>3, <1>4 DEF Counted
<1>6. ASSUME NEW k \in Load, k # l PROVE waiters'[k] = Cardinality(Waiting(k)')
  BY <1>2, <1>4, <1>6 DEF Counted
<1> QED
  BY <1>4, <1>5, <1>6 DEF Counted

LEMMA LeavesCounted ==
  ASSUME Shapes, Counted, NEW c \in Load, caller[c].pc = "waiting", NEW x, Moves(c, x), x.pc # "waiting",
         NEW l \in Load, caller[c].load = l, waiters' = [waiters EXCEPT ![l] = @ - 1]
  PROVE  Counted' /\ (waiters[l] = 1 => Waiting(l)' = {})
<1>1. c \in Waiting(l) /\ \A k : k # l => c \notin Waiting(k)
  BY DEF Waiting, Caller
<1>2. Waiting(l)' = Waiting(l) \ {c} /\ \A k : k # l => Waiting(k)' = Waiting(k)
  <2>1. \A k : Waiting(k)' = Waiting(k) \ {c}
    BY MovedWaits
  <2>2. \A k : k # l => Waiting(k) \ {c} = Waiting(k)
    BY <1>1
  <2> QED
    BY <2>1, <2>2
<1>3. /\ IsFiniteSet(Waiting(l)) /\ Cardinality(Waiting(l)) \in Nat
      /\ Cardinality(Waiting(l) \ {c}) = Cardinality(Waiting(l)) - 1
      /\ IsFiniteSet(Waiting(l) \ {c}) /\ Cardinality(Waiting(l) \ {c}) \in Nat
  BY <1>1, WaitingIsFinite, FS_RemoveElement, FS_CardinalityType
<1>4. Counted'
  <2>1. waiters[l] = Cardinality(Waiting(l)) /\ waiters[l] - 1 \in Nat
    BY <1>3 DEF Counted
  <2>2. waiters' \in [Load -> Nat] /\ waiters'[l] = waiters[l] - 1 /\ \A k \in Load : k # l => waiters'[k] = waiters[k]
    BY <2>1 DEF Counted
  <2>3. ASSUME NEW k \in Load PROVE waiters'[k] = Cardinality(Waiting(k)')
    BY <1>2, <1>3, <2>1, <2>2 DEF Counted
  <2> QED
    BY <2>2, <2>3 DEF Counted
<1>5. waiters[l] = 1 => Cardinality(Waiting(l) \ {c}) = 0
  BY <1>3 DEF Counted
<1>6. Cardinality(Waiting(l) \ {c}) = 0 => Waiting(l) \ {c} = {}
  BY <1>3, FS_EmptySet
<1> QED
  BY <1>2, <1>4, <1>5, <1>6

LEMMA StaysCounted ==
  ASSUME Shapes, Counted, NEW c \in Load, caller[c].pc # "waiting", NEW x, Moves(c, x), x.pc # "waiting",
         waiters' = waiters
  PROVE  Counted'
<1>1. \A k : c \notin Waiting(k)
  BY DEF Waiting
<1>2. \A k : Waiting(k)' = Waiting(k)
  BY <1>1, MovedWaits
<1> QED
  BY <1>2 DEF Counted

\* The loads, as far as a caller moves them: it starts its own or cancels one.
LoadsFit(c) ==
    /\ load' = [l \in Load |-> load'[l]]
    /\ \A l \in Load : /\ LoadShape(load'[l]) /\ Warned(load'[l])
                       /\ load[l].pc = "ended" => load'[l].ranks = load[l].ranks
    /\ \A l \in Load : load'[l].pc = load[l].pc \/ (l = c /\ load[l].pc = "none" /\ load'[l].pc # "none")

LEMMA CallerKeeps ==
  ASSUME IInv, UNCHANGED <<cvars, supply, readings>>, NEW c \in Load, NEW x, Moves(c, x), Counted',
         flights' \subseteq Load, LoadsFit(c), entries' \in Seq(Range(entries)), Patient
  PROVE  Sustained
<1>1. caller'[c] = x /\ caller' = [d \in Caller |-> caller'[d]] /\ \A d \in Caller : d # c => caller'[d] = caller[d]
  BY DEF Moves, IInv, Shapes, Caller
<1>2. ticket' = ticket /\ [CNext]_cvars
  BY DEF cvars
<1>3. \A d \in Caller : DOMAIN caller'[d] = CallerFields
  BY <1>1 DEF Moves, IInv, Shapes, CallerFields
<1>4. Shapes'
  BY <1>1, <1>2, <1>3 DEF IInv, Shapes, LoadsFit, CallerFields
<1>5. WaitInv'
  BY <1>1 DEF IInv, WaitInv, Moves, LoadsFit, Counted, Caller
<1>6. LinkInv'
  BY <1>2 DEF IInv, LinkInv, LoadsFit
<1>7. StoreInv'
  BY StoreStands DEF IInv, LoadsFit
<1>8. ReadInv' /\ ReadsGoOn
  BY ReadsStand DEF IInv
<1> QED
  BY <1>2, <1>4, <1>5, <1>6, <1>7, <1>8 DEF IInv, Sustained

LEMMA StandingFits ==
  ASSUME Shapes, load' = load, NEW c
  PROVE  LoadsFit(c) /\ Patient
BY DEF Shapes, LoadsFit, Patient

\* A load that its caller has just started.
Begins(c, key) == [NewLoad EXCEPT !.pc = "find", !.key = key, !.q = Request(c)]

LEMMA BeginsFit ==
  ASSUME Shapes, NEW c \in Load, load[c].pc = "none", NEW key,
         load' = [load EXCEPT ![c] = Begins(c, key)]
  PROVE  LoadsFit(c) /\ Patient
<1> DEFINE y == Begins(c, key)
<1>1. DOMAIN y = LoadFields /\ y.r = Fresh /\ y.ranks = {} /\ y.stage = "start" /\ y.pc = "find"
  BY DEF Begins, NewLoad, LoadFields
<1>2. LoadShape(y) /\ Warned(y)
  BY <1>1 DEF LoadShape, Warned, Fresh, RankFields
<1> HIDE DEF y
<1>3. load' = [l \in Load |-> load'[l]] /\ load'[c] = y /\ \A l \in Load : l # c => load'[l] = load[l]
  BY DEF Shapes, y
<1>4. LoadsFit(c)
  BY <1>1, <1>2, <1>3 DEF LoadsFit, Shapes
<1>5. Patient
  BY <1>1, <1>3 DEF Patient
<1> QED
  BY <1>4, <1>5

\* A request takes a stored result, joins a load or starts one.
LEMMA EnterKeeps ==
  ASSUME IInv, NEW c \in Load, caller[c].pc \in {"idle", "weather"}, NEW w, Enter(c, w),
         UNCHANGED <<cvars, supply, readings>>
  PROVE  Sustained
<1> DEFINE key == Key(c, w)
           x(l) == [pc |-> "waiting", load |-> l, end |-> None]
<1>1. load[c].pc = "none" /\ caller[c].pc # "waiting" /\ c \in Caller
  BY DEF IInv, WaitInv, Caller
<1>2. entries \in Seq(Range(entries)) /\ Dropped(key) \in Seq(Range(entries))
  BY DroppedIsKept DEF IInv, StoreInv
<1>3. Counted /\ Shapes
  BY DEF IInv, WaitInv, Counted
<1>4. \/ \E i \in DOMAIN entries : /\ entries' = Append(Dropped(key), entries[i])
                                   /\ Ends(c, entries[i].load, "stored")
                                   /\ UNCHANGED <<load, flights, waiters>>
      \/ \E l \in flights : /\ caller' = [caller EXCEPT ![c] = x(l)] /\ Joins(l) /\ entries' = Dropped(key)
                            /\ UNCHANGED <<load, flights>>
      \/ /\ load' = [load EXCEPT ![c] = Begins(c, key)]
         /\ flights' = flights \cup {c}
         /\ caller' = [caller EXCEPT ![c] = x(c)] /\ Joins(c) /\ entries' = Dropped(key)
  BY DEF Enter, Entry, Flight, Begins
<1>5. CASE \E i \in DOMAIN entries : /\ entries' = Append(Dropped(key), entries[i])
                                     /\ Ends(c, entries[i].load, "stored")
                                     /\ UNCHANGED <<load, flights, waiters>>
  <2>1. PICK i \in DOMAIN entries : /\ entries' = Append(Dropped(key), entries[i])
                                    /\ Ends(c, entries[i].load, "stored")
                                    /\ UNCHANGED <<load, flights, waiters>>
    BY <1>5
  <2> DEFINE e == [pc |-> "ended", load |-> entries[i].load, end |-> "stored"]
  <2>2. Moves(c, e) /\ e.pc = "ended"
    BY <2>1 DEF Ends, Moves, CallerFields
  <2> HIDE DEF e, key
  <2>3. Counted'
    BY <1>1, <1>3, <2>1, <2>2, StaysCounted
  <2>4. entries[i] \in Range(entries)
    BY DEF Range
  <2>5. entries' \in Seq(Range(entries))
    BY <1>2, <2>1, <2>4
  <2>6. LoadsFit(c) /\ Patient /\ flights' \subseteq Load
    BY <1>3, <2>1, StandingFits DEF Shapes
  <2> QED
    BY <2>2, <2>3, <2>5, <2>6, CallerKeeps
<1>6. CASE \E l \in flights : /\ caller' = [caller EXCEPT ![c] = x(l)] /\ Joins(l) /\ entries' = Dropped(key)
                              /\ UNCHANGED <<load, flights>>
  <2>1. PICK l \in flights : /\ caller' = [caller EXCEPT ![c] = x(l)] /\ Joins(l) /\ entries' = Dropped(key)
                             /\ UNCHANGED <<load, flights>>
    BY <1>6
  <2>2. l \in Load
    BY <1>3 DEF Shapes
  <2>3. Moves(c, x(l)) /\ x(l).pc = "waiting" /\ x(l).load = l
    BY <2>1, <2>2 DEF Moves, CallerFields
  <2> HIDE DEF x, key
  <2>4. Counted'
    BY <1>1, <1>3, <2>1, <2>2, <2>3, ComesCounted DEF Joins
  <2>5. LoadsFit(c) /\ Patient /\ flights' \subseteq Load
    BY <1>3, <2>1, StandingFits DEF Shapes
  <2> QED
    BY <1>2, <2>1, <2>3, <2>4, <2>5, CallerKeeps
<1>7. CASE /\ load' = [load EXCEPT ![c] = Begins(c, key)]
           /\ flights' = flights \cup {c}
           /\ caller' = [caller EXCEPT ![c] = x(c)] /\ Joins(c) /\ entries' = Dropped(key)
  <2>1. Moves(c, x(c)) /\ x(c).pc = "waiting" /\ x(c).load = c
    BY <1>7 DEF Moves, CallerFields
  <2> HIDE DEF x, key
  <2>2. Counted'
    BY <1>1, <1>3, <1>7, <2>1, ComesCounted DEF Joins
  <2>3. LoadsFit(c) /\ Patient
    BY <1>1, <1>3, <1>7, BeginsFit
  <2>4. flights' \subseteq Load
    BY <1>3, <1>7 DEF Shapes
  <2> QED
    BY <1>2, <1>7, <2>1, <2>2, <2>3, <2>4, CallerKeeps
<1> HIDE DEF x, key
<1> QED
  BY <1>4, <1>5, <1>6, <1>7

LEMMA StartKeeps ==
  ASSUME IInv, NEW c \in Load, Start(c)
  PROVE  Sustained
<1>1. caller[c].pc = "idle" /\ UNCHANGED <<cvars, supply, readings>>
  BY DEF Start, world, sources
<1>2. CASE Enter(c, snapshot)
  BY <1>1, <1>2, EnterKeeps
<1>3. CASE caller' = [caller EXCEPT ![c].pc = "weather"] /\ UNCHANGED <<load, flights, waiters, entries>>
  <2> DEFINE x == [caller[c] EXCEPT !.pc = "weather"]
  <2>1. DOMAIN caller[c] = CallerFields /\ load[c].pc = "none"
    BY <1>1 DEF IInv, Shapes, WaitInv, Caller, CallerFields
  <2>2. DOMAIN x = CallerFields /\ x.pc = "weather" /\ caller' = [caller EXCEPT ![c] = x]
    BY <1>3, <2>1 DEF CallerFields
  <2> HIDE DEF x
  <2>3. Moves(c, x)
    BY <1>3, <2>1, <2>2 DEF Moves
  <2>4. Shapes /\ Counted
    BY DEF IInv, WaitInv, Counted
  <2>5. Counted'
    BY <1>1, <1>3, <2>2, <2>3, <2>4, StaysCounted
  <2>6. LoadsFit(c) /\ Patient /\ flights' \subseteq Load /\ entries' \in Seq(Range(entries))
    BY <1>3, <2>4, StandingFits DEF IInv, Shapes, StoreInv
  <2> QED
    BY <1>1, <2>3, <2>5, <2>6, CallerKeeps
<1> QED
  BY <1>2, <1>3 DEF Start

LEMMA WaitedKeeps ==
  ASSUME IInv, NEW c \in Load, Waited(c)
  PROVE  Sustained
BY EnterKeeps DEF Waited, world, sources

\* Who has waited leaves with what the load came to.
LEMMA DeliverKeeps ==
  ASSUME IInv, NEW c \in Load, Deliver(c)
  PROVE  Sustained
<1> DEFINE l == caller[c].load
           x == [pc |-> "ended", load |-> l, end |-> load[l].out.end]
<1>1. /\ caller[c].pc = "waiting" /\ l \in Load
      /\ UNCHANGED <<cvars, supply, readings, load, entries>>
      /\ waiters' = [waiters EXCEPT ![l] = @ - 1]
      /\ flights' \subseteq flights
      /\ caller' = [caller EXCEPT ![c] = x]
  BY DEF Deliver, world, sources, IInv, WaitInv, Caller, Leave, Ends
<1>2. Moves(c, x) /\ x.pc = "ended"
  BY <1>1 DEF Moves, CallerFields
<1> HIDE DEF x
<1>3. Shapes /\ Counted
  BY DEF IInv, WaitInv, Counted
<1>4. Counted'
  BY <1>1, <1>2, <1>3, LeavesCounted
<1>5. LoadsFit(c) /\ Patient /\ flights' \subseteq Load /\ entries' \in Seq(Range(entries))
  BY <1>1, <1>3, StandingFits DEF IInv, Shapes, StoreInv
<1> QED
  BY <1>1, <1>2, <1>4, <1>5, CallerKeeps

LEMMA UnwoundKeeps ==
  ASSUME IInv, NEW c \in Load, Unwound(c)
  PROVE  Sustained
<1> DEFINE x == [pc |-> "ended", load |-> caller[c].load, end |-> "cancelled"]
<1>1. /\ caller[c].pc = "unwinding"
      /\ UNCHANGED <<cvars, supply, readings, load, waiters, entries>>
      /\ flights' \subseteq flights
      /\ caller' = [caller EXCEPT ![c] = x]
  BY DEF Unwound, world, sources, Ends
<1>2. Moves(c, x) /\ x.pc = "ended"
  BY <1>1 DEF Moves, CallerFields
<1> HIDE DEF x
<1>3. Shapes /\ Counted
  BY DEF IInv, WaitInv, Counted
<1>4. Counted'
  BY <1>1, <1>2, <1>3, StaysCounted
<1>5. LoadsFit(c) /\ Patient /\ flights' \subseteq Load /\ entries' \in Seq(Range(entries))
  BY <1>1, <1>3, StandingFits DEF IInv, Shapes, StoreInv
<1> QED
  BY <1>1, <1>2, <1>4, <1>5, CallerKeeps

\* The last one who waits takes the load along, nobody else does.
LEMMA AbandonKeeps ==
  ASSUME IInv, NEW c \in Load, Abandon(c)
  PROVE  Sustained
<1>1. PICK l \in Load :
      /\ caller[c].pc = "waiting" /\ caller[c].load = l /\ DOMAIN caller[c] = CallerFields
      /\ UNCHANGED <<cvars, supply, readings, flights, entries>>
      /\ waiters' = [waiters EXCEPT ![l] = @ - 1]
  <2>1. caller[c].load \in Load /\ caller[c].pc = "waiting" /\ DOMAIN caller[c] = CallerFields
    BY DEF Abandon, IInv, WaitInv, Shapes, Caller, CallerFields
  <2>2. /\ UNCHANGED <<cvars, supply, readings, flights, entries>>
        /\ waiters' = [waiters EXCEPT ![caller[c].load] = @ - 1]
    BY DEF Abandon, world, sources
  <2> QED
    BY <2>1, <2>2
<1>2. Shapes /\ Counted /\ flights' \subseteq Load /\ entries' \in Seq(Range(entries))
  BY <1>1 DEF IInv, Shapes, WaitInv, Counted, StoreInv
<1>3. CASE waiters[l] = 1
  <2> DEFINE x == [caller[c] EXCEPT !.pc = "unwinding"]
             y == [load[l] EXCEPT !.stage = "cancelled"]
  <2>1. caller' = [caller EXCEPT ![c] = x] /\ load' = [load EXCEPT ![l] = y]
    BY <1>1, <1>3 DEF Abandon
  <2>2. DOMAIN x = CallerFields /\ x.pc = "unwinding" /\ x.load = l
    BY <1>1 DEF CallerFields
  <2>3. LoadShape(load[l]) /\ Warned(load[l])
    BY <1>1, <1>2 DEF Shapes
  <2>4. DOMAIN y = LoadFields /\ y.r = load[l].r /\ y.ranks = load[l].ranks /\ y.pc = load[l].pc
    BY <2>3 DEF LoadShape, LoadFields
  <2> HIDE DEF x, y
  <2>5. Moves(c, x)
    BY <1>1, <2>1, <2>2 DEF Moves
  <2>6. Counted' /\ Waiting(l)' = {}
    BY <1>1, <1>2, <1>3, <2>2, <2>5, LeavesCounted
  <2>7. load' = [k \in Load |-> load'[k]] /\ load'[l] = y /\ \A k \in Load : k # l => load'[k] = load[k]
    BY <1>1, <1>2, <2>1 DEF Shapes
  <2>8. LoadsFit(c)
    BY <1>1, <1>2, <2>3, <2>4, <2>7 DEF LoadsFit, LoadShape, Warned, Shapes
  <2>9. ASSUME NEW k \in Load, load'[k].stage = "cancelled", load[k].stage # "cancelled"
        PROVE  ~\E d \in Caller : caller'[d].pc = "waiting" /\ caller'[d].load = k
    BY <2>6, <2>7, <2>9 DEF Waiting
  <2>10. Patient
    BY <2>9 DEF Patient
  <2> QED
    BY <1>1, <1>2, <2>5, <2>6, <2>8, <2>10, CallerKeeps
<1>4. CASE waiters[l] # 1
  <2> DEFINE x == [pc |-> "ended", load |-> l, end |-> "cancelled"]
  <2>1. caller' = [caller EXCEPT ![c] = x] /\ load' = load
    BY <1>1, <1>4 DEF Abandon, Ends
  <2>2. Moves(c, x) /\ x.pc = "ended"
    BY <2>1 DEF Moves, CallerFields
  <2> HIDE DEF x
  <2>3. Counted'
    BY <1>1, <1>2, <2>2, LeavesCounted
  <2>4. LoadsFit(c) /\ Patient
    BY <1>2, <2>1, StandingFits
  <2> QED
    BY <1>1, <1>2, <2>2, <2>3, <2>4, CallerKeeps
<1> QED
  BY <1>3, <1>4

-----------------------------------------------------------------------------
(* The other steps: time, weather, the circuit.                             *)

LEMMA StillKeeps ==
  ASSUME IInv, UNCHANGED <<caller, load, flights, waiters, supply, readings, ticket>>, [CNext]_cvars, StoreInv'
  PROVE  Sustained
<1>1. LoadsSteady
  BY LoadsStand DEF IInv
<1>2. LinkInv'
  BY DEF IInv, LinkInv
<1>3. ReadInv' /\ ReadsGoOn
  BY ReadsStand DEF IInv
<1>4. ticket' = [l \in Load |-> ticket'[l]] /\ supply' = [s \in Supplier |-> supply'[s]]
      /\ \A s \in Supplier : DOMAIN supply'[s] = SupplyFields
  BY DEF IInv, Shapes
<1> QED
  BY <1>1, <1>2, <1>3, <1>4, LoadKeeps

LEMMA SameStore ==
  ASSUME StoreInv, UNCHANGED <<load, entries>>
  PROVE  StoreInv'
BY DEF StoreInv

LEMMA AgesKeeps ==
  ASSUME IInv, Ages
  PROVE  Sustained
<1>1. UNCHANGED <<caller, load, flights, waiters, supply, readings, ticket>> /\ [CNext]_cvars
  BY DEF Ages, cvars
<1>2. CASE entries' = entries
  <2>1. StoreInv'
    BY <1>1, <1>2, SameStore DEF IInv
  <2> QED
    BY <1>1, <2>1, StillKeeps
<1>3. CASE \E i \in DOMAIN entries : entries' = [entries EXCEPT ![i].fresh = FALSE]
  <2>1. PICK i \in DOMAIN entries : entries' = [entries EXCEPT ![i].fresh = FALSE]
    BY <1>3
  <2> DEFINE e == [entries[i] EXCEPT !.fresh = FALSE]
             S == Range(entries) \cup {e}
  <2>2. entries \in Seq(Range(entries)) /\ entries[i] \in Range(entries)
    BY DEF IInv, StoreInv, Range
  <2>3. DOMAIN e = {"key", "load", "fresh"} /\ e.load = entries[i].load
    BY <2>2 DEF IInv, StoreInv
  <2>4. entries' = [entries EXCEPT ![i] = e]
    BY <2>1
  <2> HIDE DEF e
  <2>5. entries \in Seq(S) /\ e \in S
    BY <2>2
  <2>6. entries' \in Seq(S)
    BY <2>4, <2>5
  <2>7. \A f \in S : /\ DOMAIN f = {"key", "load", "fresh"} /\ f.load \in Load
                     /\ load'[f.load].pc = "ended" /\ "failed" \notin load'[f.load].ranks
    BY <1>1, <2>2, <2>3 DEF IInv, StoreInv
  <2> HIDE DEF S
  <2>8. StoreInv'
    BY <1>1, <2>6, <2>7, StoreKept DEF IInv
  <2> QED
    BY <1>1, <2>8, StillKeeps
<1> QED
  BY <1>2, <1>3 DEF Ages

LEMMA RestKeeps ==
  ASSUME IInv, Observed \/ HourPasses \/ Cooled
  PROVE  Sustained
<1>1. CASE Observed \/ HourPasses
  <2>1. UNCHANGED <<caller, load, flights, waiters, entries, supply, readings, ticket>> /\ [CNext]_cvars
    BY <1>1 DEF Observed, HourPasses, world, sources, cvars
  <2>2. StoreInv'
    BY <2>1, SameStore DEF IInv
  <2> QED
    BY <2>1, <2>2, StillKeeps
<1>2. CASE Cooled
  <2>1. UNCHANGED <<caller, load, flights, waiters, entries, supply, readings, ticket>> /\ [CNext]_cvars
    BY <1>2 DEF Cooled, CooledDown, CNext, serviceVars, supplyVars
  <2>2. StoreInv'
    BY <2>1, SameStore DEF IInv
  <2> QED
    BY <2>1, <2>2, StillKeeps
<1> QED
  BY <1>1, <1>2

-----------------------------------------------------------------------------
(* The theorems.                                                            *)

LEMMA InitHolds == Init => IInv
<1> SUFFICES ASSUME Init PROVE IInv
  OBVIOUS
<1>1. LoadShape(NewLoad) /\ Warned(NewLoad) /\ NewLoad.pc = "none"
  BY DEF NewLoad, Fresh, LoadShape, LoadFields, RankFields, Warned
<1>2. load = [l \in Load |-> NewLoad] /\ ticket = [l \in Load |-> None] /\ supply = [s \in Supplier |-> Idle]
      /\ readings = {} /\ entries = << >> /\ flights = {} /\ waiters = [l \in Load |-> 0]
  BY DEF Init, CInit, SupplyInit
<1>3. /\ caller = [c \in Caller |-> caller[c]]
      /\ \A c \in Caller : DOMAIN caller[c] = {"pc", "load", "end"} /\ caller[c].pc \in {"ended", "idle"}
  BY DEF Init
<1>4. Shapes
  BY <1>1, <1>2, <1>3, IdleShape DEF Shapes
<1>5. \A l : Waiting(l) = {}
  BY <1>3 DEF Waiting
<1>6. WaitInv
  BY <1>1, <1>2, <1>3, <1>5, FS_EmptySet DEF WaitInv, Caller
<1>7. LinkInv
  BY <1>2, LaterIs, IdleShape DEF LinkInv
<1>8. StoreInv
  BY <1>2 DEF StoreInv, Range
<1>9. ReadInv
  BY <1>2 DEF ReadInv
<1> QED
  BY <1>4, <1>6, <1>7, <1>8, <1>9 DEF IInv

LEMMA NextKeeps == IInv /\ Next => Sustained
<1> SUFFICES ASSUME IInv, Next PROVE Sustained
  OBVIOUS
<1>1. CASE Observed \/ HourPasses \/ Cooled
  BY <1>1, RestKeeps
<1>2. CASE Replenished \/ PageRead
  BY <1>2, ReplenishedKeeps, PageReadKeeps
<1>3. CASE \E s \in Supplier : Replenishes(s) \/ PageLeft(s) \/ Unsupplied(s)
  BY <1>3, ReplenishesKeeps, PageLeftKeeps, UnsuppliedKeeps
<1>4. CASE \E c \in Caller : Start(c) \/ Waited(c) \/ Deliver(c) \/ Unwound(c) \/ Abandon(c)
  BY <1>4, StartKeeps, WaitedKeeps, DeliverKeeps, UnwoundKeeps, AbandonKeeps DEF Caller
<1>5. CASE \E l \in Load : Unwind(l) \/ SupplyStopped(l) \/ Found(l) \/ Attached(l) \/ Supplied(l)
  BY <1>5, UnwindKeeps, SupplyStoppedKeeps, FoundKeeps, AttachedKeeps, SuppliedKeeps
<1>6. CASE \E l \in Load : Slot(l) \/ NoSlot(l) \/ Answered(l) \/ Failed(l)
  BY <1>6, SlotKeeps, NoSlotKeeps, AnsweredKeeps, FailedKeeps
<1>7. CASE Ages
  BY <1>7, AgesKeeps
<1> QED
  BY <1>1, <1>2, <1>3, <1>4, <1>5, <1>6, <1>7 DEF Next, System

LEMMA StutterKeeps == IInv /\ UNCHANGED vars => Sustained
<1> SUFFICES ASSUME IInv, UNCHANGED vars PROVE Sustained
  OBVIOUS
<1>1. UNCHANGED <<caller, load, flights, waiters, entries, supply, readings, ticket>> /\ [CNext]_cvars
  BY DEF vars, cvars, serviceVars, supplyVars
<1>2. StoreInv'
  BY <1>1, SameStore DEF IInv
<1> QED
  BY <1>1, <1>2, StillKeeps

\* The service keeps its records in order: waiters are counted, only a load that
\* calls the model has a ticket, what is stored is a finished load with every rank
\* answered, and a reading has its own id.
THEOREM ServiceInv == Spec => []IInv
<1>1. IInv /\ [Next]_vars => IInv'
  BY NextKeeps, StutterKeeps DEF Sustained
<1> QED
  BY InitHolds, <1>1, PTL DEF Spec

\* The service uses the circuit as its specification says: every step of the service
\* is a step of the circuit or leaves it alone, a load with a ticket asks for none.
THEOREM ServiceUsesCircuit == Spec => CSpec
<1>1. Init => CInit
  BY DEF Init
<1>2. IInv /\ [Next]_vars => [CNext]_cvars
  BY NextKeeps, StutterKeeps DEF Sustained
<1> QED
  BY <1>1, <1>2, ServiceInv, PTL DEF Spec, CSpec

\* However loads are cancelled, answered late or refused, the open circuit tries the
\* worker with one call at a time and never forgets that it does.
THEOREM ServiceProbesAlone == Spec => []ProbeIsAlone
BY ServiceUsesCircuit, CircuitProbesAlone, PTL

\* No result is kept for other requests whose ranking failed anywhere on the way.
THEOREM PinnedSpec == Spec => []PinnedIsJudged
<1>1. IInv => PinnedIsJudged
  BY DEF IInv, StoreInv, PinnedIsJudged, Range
<1> QED
  BY <1>1, ServiceInv, PTL

\* A load is cancelled only by the last caller that waits for it, the reading of a
\* page only by the last supply that does.
THEOREM WaitedSpec == Spec => WaitedLoadsGoOn
<1>1. IInv /\ [Next]_vars
        => [/\ \A l \in Load :
                 load'[l].stage = "cancelled" /\ load[l].stage # "cancelled"
                   => ~ \E c \in Caller : caller'[c].pc = "waiting" /\ caller'[c].load = l
            /\ \A v \in readings :
                 v.state = "running" /\ [v EXCEPT !.state = "cancelled"] \in readings'
                   => ~ \E s \in Supplier : Awaits(s, v)']_vars
  BY NextKeeps, StutterKeeps DEF Sustained, Patient, ReadsGoOn
<1> QED
  BY <1>1, ServiceInv, PTL DEF Spec, WaitedLoadsGoOn

-----------------------------------------------------------------------------
(* What a load rests on: the verdicts it has, J being what answers settled.  *)

RefutedBy(J, q, d, t) ==
    \/ <<d, q.tags>> \in J /\ t \notin Uncertain(q, d)
    \/ Profile[d] # Unknown /\ t \in DOMAIN Profile[d] /\ Profile[d][t] = "NOT_MATCHED"
    \/ Class[d] # Unknown /\ t \in ClassTags /\ Class[d][t] = "NOT_MATCHED"

\* A tag of a row that counts as evaluated, without evidence and not open: it is
\* refuted, or the profile overlooks it, or the stored attributes decide it alone.
Explained(J, q, d, t) == RefutedBy(J, q, d, t) \/ t \in Overlooked(q, d) \/ t \in ClassTags

\* What is known of a row: its tags have evidence, the others were judged, though
\* perhaps on a text that could not tell, or the stored profile decides them.
Undecided(J, q, k, d, t) ==
    \/ Explained(J, q, d, t)
    \/ <<d, q.tags>> \in J
    \/ d \in k.profiled /\ t \in DOMAIN Profile[d]

Proves(ev) == \A d \in Dish : \A t \in ev[d] : Supported(d, t)

\* A ranker between its rank and hydrate(), and after hydrate().
Soft(r, q, k, J) ==
    /\ Proves(r.ev)
    /\ \A d \in r.done \ r.vain : \A t \in q.tags : t \in r.ev[d] \/ t \in r.vague[d] \/ Undecided(J, q, k, d, t)
Firm(r, q, J) ==
    /\ Proves(r.ev)
    /\ \A d \in r.done \ r.vain : \A t \in q.tags : t \in r.ev[d] \/ t \in r.vague[d] \/ Explained(J, q, d, t)

\* The stored facts that were read are there.
Read(k) ==
    /\ \A d \in k.profiled : d \in Dish /\ Profile[d] # Unknown
    /\ \A d \in k.classed : d \in Dish /\ Class[d] # Unknown

\* The verdicts of the cache for the tags of a request.
Decides(known, q, J) ==
    \A d \in Dish : Decided(known, q, d) # Unknown =>
        /\ \A t \in Decided(known, q, d) : Supported(d, t)
        /\ <<d, q.tags>> \in J \/ q.tags \subseteq Decided(known, q, d)

\* A profile answers what it names, and names every taste a text can leave open.
LEMMA SaidIs ==
  ASSUME NEW q, NEW k, Read(k), NEW d \in k.profiled
  PROVE  /\ DOMAIN Said(q, k, d) = DOMAIN Profile[d] \cap q.tags
         /\ \A t \in DOMAIN Profile[d] \cap q.tags :
               /\ Said(q, k, d)[t] = Profile[d][t]
               /\ Profile[d][t] \in {"MATCHED", "NOT_MATCHED", "UNKNOWN"}
         /\ \A t \in Uncertain(q, d) : t \in DOMAIN Profile[d]
<1>1. d \in Dish /\ Profile[d] # Unknown
  BY DEF Read
<1>2. /\ UncertainTags \subseteq DOMAIN Profile[d]
      /\ \A t \in DOMAIN Profile[d] : Profile[d][t] \in {"MATCHED", "NOT_MATCHED", "UNKNOWN"}
  BY <1>1, TasteAssumption
<1>3. Said(q, k, d) = [t \in DOMAIN Profile[d] \cap q.tags |-> Profile[d][t]]
  BY DEF Said
<1>4. Uncertain(q, d) \subseteq UncertainTags
  BY DEF Uncertain
<1> QED
  BY <1>2, <1>3, <1>4

LEMMA UnsaidIs ==
  ASSUME NEW q, NEW k, NEW d, d \notin k.profiled
  PROVE  DOMAIN Said(q, k, d) = {}
BY DEF Said

\* hydrate() makes every verdict one that somebody gave: what the profile names it
\* decides, and what it does not name is open where the text could not tell.
LEMMA HydrateFirm ==
  ASSUME NEW r, DOMAIN r = RankFields, NEW q, NEW k, Read(k), NEW rows, rows \subseteq Dish,
         r.done \subseteq rows, NEW J, Soft(r, q, k, J), NEW known, Decides(known, q, J),
         NEW h, h = Hydrate(r, q, k, rows, known)
  PROVE  Firm(h, q, J) /\ h.done \subseteq rows
<1>1. CASE q.tags = {}
  BY <1>1 DEF Hydrate, Soft, Firm
<1>2. CASE q.tags # {}
  <2> DEFINE found == {d \in rows \ r.done : Decided(known, q, d) # Unknown}
             ev0 == [d \in Dish |-> IF d \in found THEN Decided(known, q, d) ELSE r.ev[d]]
             said(d) == IF d \in rows THEN Said(q, k, d) ELSE << >>
             done == r.done \cup found \cup {d \in rows : DOMAIN said(d) # {}}
             ev == [d \in Dish |-> (ev0[d] \ DOMAIN said(d)) \cup Claimed(said(d), "MATCHED")]
             vague == [d \in Dish |->
                   IF d \in rows \ k.profiled /\ d \in r.done \cup found
                   THEN r.vague[d] \cup (Uncertain(q, d) \ ev0[d])
                   ELSE (r.vague[d] \ DOMAIN said(d)) \cup Claimed(said(d), "UNKNOWN")]
             vain == r.vain \ {d \in rows \cap k.profiled : q.tags \subseteq DOMAIN said(d)}
  <2>1. h = [r EXCEPT !.done = done, !.ev = ev, !.vague = vague, !.vain = vain]
    BY <1>2 DEF Hydrate
  <2> HIDE DEF done, ev, vague, vain
  <2>2. h.done = done /\ h.ev = ev /\ h.vague = vague /\ h.vain = vain
    BY <2>1 DEF RankFields
  <2>3. done \subseteq rows
    BY DEF done
  <2>4. ASSUME NEW d \in Dish PROVE \A t \in ev0[d] : Supported(d, t)
    BY <2>4 DEF Soft, Proves, Decides
  <2>5. ASSUME NEW d \in Dish, NEW t \in ev[d] PROVE Supported(d, t)
    <3>1. t \in ev0[d] \/ t \in Claimed(said(d), "MATCHED")
      BY DEF ev
    <3>2. ASSUME t \in Claimed(said(d), "MATCHED") PROVE Supported(d, t)
      <4>1. d \in rows /\ t \in DOMAIN Said(q, k, d) /\ Said(q, k, d)[t] = "MATCHED"
        BY <3>2 DEF Claimed
      <4>2. d \in k.profiled
        BY <4>1, UnsaidIs
      <4>3. t \in DOMAIN Profile[d] /\ Profile[d][t] = "MATCHED"
        <5>1. /\ DOMAIN Said(q, k, d) = DOMAIN Profile[d] \cap q.tags
              /\ \A u \in DOMAIN Profile[d] \cap q.tags : Said(q, k, d)[u] = Profile[d][u]
          BY <4>2, SaidIs
        <5> QED
          BY <4>1, <5>1
      <4> QED
        BY <4>2, <4>3 DEF Supported, Read
    <3> QED
      BY <2>4, <3>1, <3>2
  <2>6. ASSUME NEW d \in done \ vain, NEW t \in q.tags, t \notin ev[d], t \notin vague[d]
        PROVE  Explained(J, q, d, t)
    <3>1. d \in rows /\ d \in Dish /\ said(d) = Said(q, k, d)
      BY <2>3
    <3>2. ev[d] = (ev0[d] \ DOMAIN Said(q, k, d)) \cup Claimed(Said(q, k, d), "MATCHED")
      BY <3>1 DEF ev
    <3>3. CASE t \in DOMAIN Said(q, k, d)
      <4>1. d \in k.profiled
        BY <3>3, UnsaidIs
      <4>2. vague[d] = (r.vague[d] \ DOMAIN Said(q, k, d)) \cup Claimed(Said(q, k, d), "UNKNOWN")
        BY <3>1, <4>1 DEF vague
      <4>3. t \in DOMAIN Profile[d] /\ Said(q, k, d)[t] = Profile[d][t]
            /\ Profile[d][t] \in {"MATCHED", "NOT_MATCHED", "UNKNOWN"}
        BY <3>3, <4>1, SaidIs
      <4>4. Profile[d][t] = "NOT_MATCHED"
        BY <2>6, <3>2, <3>3, <4>2, <4>3 DEF Claimed
      <4> QED
        BY <4>1, <4>3, <4>4 DEF Explained, RefutedBy, Read
    <3>4. CASE t \notin DOMAIN Said(q, k, d) /\ d \in k.profiled
      <4>1. t \notin ev0[d]
        BY <2>6, <3>2, <3>4
      <4>2. t \notin DOMAIN Profile[d] /\ DOMAIN Said(q, k, d) = DOMAIN Profile[d] \cap q.tags
            /\ t \notin Uncertain(q, d)
        <5>1. /\ DOMAIN Said(q, k, d) = DOMAIN Profile[d] \cap q.tags
              /\ \A u \in Uncertain(q, d) : u \in DOMAIN Profile[d]
          BY <3>4, SaidIs
        <5> QED
          BY <2>6, <3>4, <5>1
      <4>3. CASE DOMAIN Said(q, k, d) # {}
        BY <1>2, <3>4, <4>2, <4>3 DEF Explained, Overlooked, Read
      <4>4. CASE DOMAIN Said(q, k, d) = {}
        <5>1. d \in r.done \cup found
          BY <3>1, <4>4, <2>6 DEF done
        <5>2. CASE d \in found
          BY <3>1, <4>1, <4>2, <5>2 DEF Decides, Explained, RefutedBy
        <5>3. CASE d \in r.done /\ d \notin found
          <6>1. d \notin r.vain
            BY <1>2, <2>6, <3>1, <4>4 DEF vain
          <6>2. t \notin r.ev[d]
            BY <3>1, <4>1, <5>3
          <6>3. t \notin r.vague[d]
            BY <2>6, <3>1, <3>4, <4>4 DEF vague
          <6>4. Undecided(J, q, k, d, t)
            BY <5>3, <6>1, <6>2, <6>3 DEF Soft
          <6> QED
            BY <4>2, <6>4 DEF Undecided, Explained, RefutedBy
        <5> QED
          BY <5>1, <5>2, <5>3
      <4> QED
        BY <4>3, <4>4
    <3>5. CASE d \notin k.profiled
      <4>1. DOMAIN Said(q, k, d) = {}
        BY <3>5, UnsaidIs
      <4>2. d \in r.done \cup found
        BY <3>1, <4>1, <2>6 DEF done
      <4>3. t \notin ev0[d]
        BY <2>6, <3>2, <4>1
      <4>4. vague[d] = r.vague[d] \cup (Uncertain(q, d) \ ev0[d])
        BY <3>1, <3>5, <4>2 DEF vague
      <4>5. t \notin r.vague[d] /\ t \notin Uncertain(q, d)
        BY <2>6, <4>3, <4>4
      <4>6. CASE d \in found
        BY <3>1, <4>3, <4>5, <4>6 DEF Decides, Explained, RefutedBy
      <4>7. CASE d \in r.done /\ d \notin found
        <5>1. d \notin r.vain
          BY <2>6, <3>5 DEF vain
        <5>2. t \notin r.ev[d]
          BY <3>1, <4>3, <4>7
        <5>3. Undecided(J, q, k, d, t)
          BY <4>5, <4>7, <5>1, <5>2 DEF Soft
        <5> QED
          BY <3>5, <4>5, <5>3 DEF Undecided, Explained, RefutedBy
      <4> QED
        BY <4>2, <4>6, <4>7
    <3> QED
      BY <3>3, <3>4, <3>5
  <2> QED
    BY <2>2, <2>3, <2>5, <2>6 DEF Firm, Proves
<1> QED
  BY <1>1, <1>2

\* What is known of some rows: tags with evidence, the others as above.
Knowing(known, J, q, k, S) ==
    \A d \in Dish : known[d] # Unknown =>
        /\ d \in S
        /\ \A t \in known[d] : Supported(d, t)
        /\ \A t \in q.tags : t \in known[d] \/ <<d, q.tags>> \in J \/ (d \in k.profiled /\ t \in DOMAIN Profile[d])

\* recall() puts what is known in the place of what was heard.
LEMMA RecallSoft ==
  ASSUME NEW r, DOMAIN r = RankFields, NEW q, NEW k, NEW J, Soft(r, q, k, J), NEW rows, rows \subseteq Dish,
         r.done \subseteq rows, NEW known, Knowing(known, J, q, k, rows), NEW n, n = Recall(r, Dish, known)
  PROVE  Soft(n, q, k, J) /\ n.done \subseteq rows
<1> DEFINE sure == {d \in Dish : known[d] # Unknown}
           ev == [d \in Dish |-> IF d \in sure THEN known[d] ELSE r.ev[d]]
           vague == [d \in Dish |-> IF d \in sure THEN {} ELSE r.vague[d]]
<1>1. n.done = r.done \cup sure /\ n.vain = r.vain \ sure /\ n.ev = ev /\ n.vague = vague
  BY DEF Recall, RankFields
<1>2. n.done \subseteq rows
  BY <1>1 DEF Knowing
<1>3. Proves(ev)
  BY DEF Proves, Soft, Knowing
<1>4. ASSUME NEW d \in n.done \ n.vain, NEW t \in q.tags
      PROVE  t \in ev[d] \/ t \in vague[d] \/ Undecided(J, q, k, d, t)
  <2>1. d \in Dish
    BY <1>2
  <2>2. CASE d \in sure
    <3>1. ev[d] = known[d]
      BY <2>1, <2>2
    <3> QED
      BY <2>1, <2>2, <3>1 DEF Knowing, Undecided
  <2>3. CASE d \notin sure
    <3>1. ev[d] = r.ev[d] /\ vague[d] = r.vague[d] /\ d \in r.done \ r.vain
      BY <1>1, <2>1, <2>3
    <3> QED
      BY <3>1 DEF Soft
  <2> QED
    BY <2>2, <2>3
<1> HIDE DEF ev, vague
<1> QED
  BY <1>1, <1>2, <1>3, <1>4 DEF Soft

\* rank() knows the rows with a full profile and the ones decided before.
LEMMA KnowsIs ==
  ASSUME NEW x, Read(x.k), NEW J, Decides(decisions, x.q, J)
  PROVE  Knowing(Knows(x), J, x.q, x.k, Range(x.shortlist))
<1> DEFINE q == x.q
           k == x.k
<1> SUFFICES ASSUME NEW d \in Dish, Knows(x)[d] # Unknown
             PROVE  /\ d \in Range(x.shortlist)
                    /\ \A t \in Knows(x)[d] : Supported(d, t)
                    /\ \A t \in q.tags : \/ t \in Knows(x)[d] \/ <<d, q.tags>> \in J
                                         \/ (d \in k.profiled /\ t \in DOMAIN Profile[d])
  BY DEF Knowing
<1>1. d \in Range(x.shortlist) /\ Knows(x)[d] = Known(q, k, d, decisions)
  BY DEF Knows
<1>2. CASE q.tags # {} /\ d \in k.profiled /\ q.tags \subseteq DOMAIN Profile[d]
  <2>1. Knows(x)[d] = Claimed(Said(q, k, d), "MATCHED")
    BY <1>1, <1>2 DEF Known
  <2>2. /\ DOMAIN Said(q, k, d) = DOMAIN Profile[d] \cap q.tags
        /\ \A t \in DOMAIN Profile[d] \cap q.tags : Said(q, k, d)[t] = Profile[d][t]
    <3>1. Read(k) /\ d \in k.profiled
      BY <1>2
    <3> HIDE DEF q, k
    <3> QED
      BY <3>1, SaidIs
  <2>3. Profile[d] # Unknown
    BY <1>2 DEF Read
  <2>4. \A t \in Knows(x)[d] : t \in DOMAIN Profile[d] /\ Profile[d][t] = "MATCHED"
    BY <2>1, <2>2 DEF Claimed
  <2> QED
    BY <1>1, <1>2, <2>3, <2>4 DEF Supported
<1>3. CASE ~(q.tags # {} /\ d \in k.profiled /\ q.tags \subseteq DOMAIN Profile[d])
  <2>1. Knows(x)[d] = Decided(decisions, q, d)
    BY <1>1, <1>3 DEF Known
  <2> QED
    BY <1>1, <2>1 DEF Decides
<1> QED
  BY <1>2, <1>3

\* A valid answer leaves its quotes, and every row of the window judged.
LEMMA HeardSoft ==
  ASSUME NEW r, DOMAIN r = RankFields, NEW q, NEW k, NEW window, NEW answer, NEW fits, NEW J,
         NEW h, h = Heard(r, q, k, window, answer, fits),
         q.tags # {} => \A d \in window \ h.vain : <<d, q.tags>> \in J
  PROVE  Soft(h, q, k, J) /\ h.done = window
<1> DEFINE d0 == {d \in DOMAIN answer : Held(answer, d, {"APT", "LOOSE"}) # {}}
           ev == [d \in Dish |-> IF d \in d0 THEN Held(answer, d, {"APT"}) \cap Quotes[d] ELSE {}]
<1>1. h.done = window /\ h.ev = ev
  BY DEF Heard, RankFields
<1>2. Proves(ev)
  BY DEF Proves, Supported
<1> HIDE DEF ev
<1> QED
  BY <1>1, <1>2 DEF Soft, Undecided

-----------------------------------------------------------------------------
(* The verdicts that requests share.                                        *)

Decisive(known, J) ==
    /\ DOMAIN known = Dish \X TagSets
    /\ \A d \in Dish : \A T \in TagSets : known[<<d, T>>] # Unknown =>
         /\ \A t \in known[<<d, T>>] : Supported(d, t)
         /\ <<d, T>> \in J \/ T \subseteq known[<<d, T>>]

LEMMA DecidesIs ==
  ASSUME NEW known, NEW J, Decisive(known, J), NEW q, q.tags \in TagSets
  PROVE  Decides(known, q, J)
BY DEF Decisive, Decides, Decided

\* What is remembered of an answer is what it settled.
LEMMA RememberIs ==
  ASSUME NEW J, NEW K, J \subseteq K, Decisive(decisions, J), NEW q, NEW r, Proves(r.ev),
         NEW rows, NEW known, NEW kept, kept = Remember(decisions, r, q, rows, known),
         q.tags # {} => \A d \in r.done \ r.vain : <<d, q.tags>> \in K
  PROVE  Decisive(kept, K)
<1>1. DOMAIN kept = Dish \X TagSets
  BY DEF Remember, Decisive
<1>2. ASSUME NEW d \in Dish, NEW T \in TagSets, kept[<<d, T>>] # Unknown
      PROVE  /\ \A t \in kept[<<d, T>>] : Supported(d, t)
             /\ <<d, T>> \in K \/ T \subseteq kept[<<d, T>>]
  <2>1. <<d, T>> \in DOMAIN decisions
    BY DEF Decisive
  <2>2. \/ kept[<<d, T>>] = decisions[<<d, T>>]
        \/ kept[<<d, T>>] = r.ev[d] /\ q.tags # {} /\ T = q.tags /\ d \in Settled(r, rows, known)
    BY <2>1 DEF Remember
  <2>3. CASE kept[<<d, T>>] = decisions[<<d, T>>]
    BY <1>2, <2>3 DEF Decisive
  <2>4. CASE kept[<<d, T>>] = r.ev[d] /\ q.tags # {} /\ T = q.tags /\ d \in Settled(r, rows, known)
    BY <2>4 DEF Settled, Proves
  <2> QED
    BY <2>2, <2>3, <2>4
<1> QED
  BY <1>1, <1>2 DEF Decisive

\* After an answer the rows it settled are known as they were remembered.
LEMMA AnswerKnows ==
  ASSUME NEW x, x.q.tags \in TagSets, Read(x.k), NEW J, NEW K, J \subseteq K, Decides(decisions, x.q, J),
         NEW kept, Decisive(kept, K), NEW settled, settled \subseteq Range(x.shortlist),
         NEW known, known = [d \in Dish |-> IF x.q.tags # {} /\ d \in settled THEN kept[<<d, x.q.tags>>]
                                            ELSE Knows(x)[d]]
  PROVE  Knowing(known, K, x.q, x.k, Range(x.shortlist))
<1>1. Knowing(Knows(x), J, x.q, x.k, Range(x.shortlist))
  BY KnowsIs
<1> SUFFICES ASSUME NEW d \in Dish, known[d] # Unknown
             PROVE  /\ d \in Range(x.shortlist)
                    /\ \A t \in known[d] : Supported(d, t)
                    /\ \A t \in x.q.tags : \/ t \in known[d] \/ <<d, x.q.tags>> \in K
                                           \/ (d \in x.k.profiled /\ t \in DOMAIN Profile[d])
  BY DEF Knowing
<1>2. CASE x.q.tags # {} /\ d \in settled
  <2>1. known[d] = kept[<<d, x.q.tags>>]
    BY <1>2
  <2> QED
    BY <1>2, <2>1 DEF Decisive
<1>3. CASE ~(x.q.tags # {} /\ d \in settled)
  <2>1. known[d] = Knows(x)[d]
    BY <1>3
  <2> QED
    BY <1>1, <2>1 DEF Knowing
<1> QED
  BY <1>2, <1>3

-----------------------------------------------------------------------------
(* The verdicts and the final choice.                                       *)

LEMMA VerdictIs ==
  ASSUME NEW r, NEW q, NEW k, Read(k), NEW J, Firm(r, q, J), NEW d \in Dish, NEW t \in q.tags
  PROVE  /\ Verdict(r, q, k, d, t) = "MATCHED" => Supported(d, t)
         /\ Verdict(r, q, k, d, t) = "NOT_MATCHED" /\ t \notin Overlooked(q, d) => RefutedBy(J, q, d, t)
<1>1. CASE t \in ClassTags
  BY <1>1 DEF Verdict, Supported, RefutedBy, Read
<1>2. CASE t \notin ClassTags /\ t \in DOMAIN Said(q, k, d)
  <2>1. d \in k.profiled
    BY <1>2, UnsaidIs
  <2>2. DOMAIN Said(q, k, d) = DOMAIN Profile[d] \cap q.tags
    BY <2>1, SaidIs
  <2>3. Profile[d] # Unknown /\ t \in DOMAIN Profile[d] /\ Verdict(r, q, k, d, t) = Profile[d][t]
    BY <1>2, <2>1, <2>2 DEF Read, Verdict
  <2> QED
    BY <2>3 DEF Supported, RefutedBy
<1>3. CASE t \notin ClassTags /\ t \notin DOMAIN Said(q, k, d)
  <2>1. Verdict(r, q, k, d, t) = IF t \in r.ev[d] THEN "MATCHED"
                                 ELSE IF d \in r.done \ r.vain /\ t \notin r.vague[d] THEN "NOT_MATCHED"
                                 ELSE "UNKNOWN"
    BY <1>3 DEF Verdict
  <2>2. CASE t \in r.ev[d]
    BY <2>1, <2>2 DEF Firm, Proves
  <2>3. CASE t \notin r.ev[d]
    BY <1>3, <2>1, <2>3 DEF Firm, Explained
  <2> QED
    BY <2>2, <2>3
<1> QED
  BY <1>1, <1>2, <1>3

\* Where a quote can prove a tag, every such tag must match.
LEMMA CombineIs ==
  ASSUME NEW v, DOMAIN v \ ClassTags # {}
  PROVE  Combine(v) = "MATCHED" <=> \A t \in DOMAIN v \ ClassTags : v[t] = "MATCHED"
<1> DEFINE required == {v[t] : t \in DOMAIN v \ ClassTags}
<1>1. required # {}
  OBVIOUS
<1>2. Combine(v) = IF "NOT_MATCHED" \in required THEN "NOT_MATCHED"
                   ELSE IF required = {"MATCHED"} THEN "MATCHED" ELSE "UNKNOWN"
  BY <1>1 DEF Combine
<1>3. required = {"MATCHED"} <=> \A t \in DOMAIN v \ ClassTags : v[t] = "MATCHED"
  BY <1>1
<1> HIDE DEF required
<1>4. required = {"MATCHED"} => "NOT_MATCHED" \notin required
  OBVIOUS
<1> QED
  BY <1>2, <1>3, <1>4

\* A valid request, recipes it may use, and among them the ones to rank.
Holds(x) ==
    /\ IsRequest(x.q) /\ Read(x.k)
    /\ \A d \in x.rows : d \in Dish /\ Usable(x.q, d)
    /\ IsList(x.shortlist, Range(x.shortlist)) /\ Range(x.shortlist) \subseteq Rows(x)
    /\ x.window \subseteq Range(x.shortlist)
    /\ x.r.done \subseteq Rows(x)

\* What the properties say of a result.
Shared(x) == \A d \in Range(x.out.rows) : d \in Dish /\ x.out.usage[d] = Allocation(x.q, d)

ProvesAll(x, d) == \A t \in x.q.tags \ ClassTags : Supported(d, t) /\ x.out.verdict[d][t] = "MATCHED"

Honoured(x, J) ==
    /\ \A d \in Range(x.out.rows) :
          Usable(x.q, d) /\ (x.q.tags # {} /\ ~x.out.fallback => ProvesAll(x, d))
    /\ \A d \in DOMAIN x.out.verdict : \A t \in x.q.tags :
          /\ x.out.verdict[d][t] = "MATCHED" => Supported(d, t)
          /\ x.out.verdict[d][t] = "NOT_MATCHED" /\ t \notin Overlooked(x.q, d) => RefutedBy(J, x.q, d, t)
    /\ x.out.fallback /\ x.q.tags \ ClassTags # {} => ~ \E d \in Rows(x) : ProvesAll(x, d)

\* From x to y the request, its rows and what was read of them stay.
Same(x, y) ==
    /\ y.q = x.q /\ y.rows = x.rows /\ y.k = x.k
    /\ y.shortlist = x.shortlist /\ y.window = x.window

LEMMA RowsIs ==
  ASSUME NEW x, Holds(x)
  PROVE  Rows(x) \subseteq x.rows /\ Rows(x) \subseteq Dish /\ Range(x.shortlist) \subseteq Dish
BY DEF Holds, Rows, Baseline

\* The rows that are offered are among the eligible ones.
LEMMA OfferedIn ==
  ASSUME NEW q, IsRequest(q), NEW rows, rows \subseteq Dish, NEW S, S \subseteq rows,
         NEW verdict, \A d \in rows : DOMAIN verdict[d] = q.tags, NEW match, NEW fallback \in BOOLEAN,
         NEW fits, NEW s,
         s = Selected(q, S, [d \in rows |-> Preference(q, verdict[d], match[d], fallback)], fits)
  PROVE  Range(s) \subseteq S
<1> DEFINE pref == [d \in rows |-> Preference(q, verdict[d], match[d], fallback)]
<1>1. ASSUME NEW d \in S PROVE pref[d][1] \in Int /\ pref[d][2] \in Int /\ pref[d][3] \in Int
  <2>1. IsFiniteSet(DOMAIN verdict[d])
    BY DEF IsRequest
  <2>2. pref[d] = Preference(q, verdict[d], match[d], fallback)
    OBVIOUS
  <2> HIDE DEF pref
  <2> QED
    BY <2>1, <2>2, PreferenceIs
<1>2. s = Selected(q, S, pref, fits)
  OBVIOUS
<1> HIDE DEF pref
<1>3. s \in Seq(S)
  BY <1>1, <1>2, SelectedIn
<1> QED
  BY <1>3 DEF Range

\* The final choice of a load: fair in what it uses, honest in what it says.
LEMMA FinishedIs ==
  ASSUME NEW x, LoadShape(x), Holds(x), NEW J, Firm(x.r, x.q, J), NEW y, y = Finished(x)
  PROVE  /\ Same(x, y) /\ y.stage = x.stage /\ y.r = x.r /\ y.pc = "ended"
         /\ Shared(y) /\ Honoured(y, J)
<1> DEFINE q == x.q
           fallback == q.tags # {} /\ ~Good(x)
           verdict == [d \in x.rows |-> Verdicts(x.r, q, x.k, d)]
           match == [d \in x.rows |-> Combine(verdict[d])]
           free == fallback \/ q.tags = {}
           S == {d \in Rows(x) : free \/ match[d] = "MATCHED"}
           pref == [d \in Rows(x) |-> Preference(q, verdict[d], match[d], fallback)]
           rows == Selected(q, S, pref, IF free THEN x.r.fits ELSE {})
           o == Finished(x).out
<1>1. \E e, c : o = [end |-> "result", fallback |-> fallback, verdict |-> verdict, engine |-> e,
                     rows |-> rows, usage |-> [d \in Range(rows) |-> Allocation(q, d)], confirm |-> c]
  BY DEF Finished, Judged, Choice, Answer, LoadShape, LoadFields
<1>2. y = [x EXCEPT !.pc = "ended", !.out = o]
  BY DEF Finished, Judged, Choice, Answer, LoadShape, LoadFields
<1>3. /\ o.fallback = fallback /\ o.verdict = verdict /\ o.rows = rows
      /\ o.usage = [d \in Range(rows) |-> Allocation(q, d)]
  BY <1>1
<1> HIDE DEF o
<1>4. /\ Same(x, y) /\ y.stage = x.stage /\ y.r = x.r /\ y.pc = "ended" /\ y.out = o /\ y.q = q
  BY <1>2 DEF LoadShape, LoadFields, Same
<1>5. Rows(x) \subseteq x.rows /\ x.rows \subseteq Dish /\ IsRequest(q) /\ Read(x.k) /\ Rows(y) = Rows(x)
  BY <1>4, RowsIs DEF Holds, Same, Rows
<1>6. \A d \in Rows(x) : DOMAIN verdict[d] = q.tags
  BY <1>5 DEF Verdicts
<1>7. Range(rows) \subseteq S
  <2>1. fallback \in BOOLEAN /\ S \subseteq Rows(x) /\ Rows(x) \subseteq Dish
    BY <1>5
  <2> DEFINE fits == IF free THEN x.r.fits ELSE {}
  <2>2. rows = Selected(q, S, pref, fits)
    OBVIOUS
  <2> HIDE DEF q, fallback, verdict, match, S, fits, rows
  <2> QED
    BY <1>5, <1>6, <2>1, <2>2, OfferedIn
<1> HIDE DEF rows
<1>8. ASSUME NEW d \in x.rows, NEW t \in q.tags
      PROVE  /\ verdict[d][t] = "MATCHED" => Supported(d, t)
             /\ verdict[d][t] = "NOT_MATCHED" /\ t \notin Overlooked(q, d) => RefutedBy(J, q, d, t)
  <2>1. verdict[d][t] = Verdict(x.r, q, x.k, d, t) /\ d \in Dish
    BY <1>5 DEF Verdicts
  <2> HIDE DEF verdict
  <2> QED
    BY <1>5, <2>1, VerdictIs
<1>9. ASSUME NEW d \in x.rows, q.tags \ ClassTags # {}
      PROVE  /\ match[d] = "MATCHED" <=> \A t \in q.tags \ ClassTags : verdict[d][t] = "MATCHED"
             /\ match[d] = Combine(Verdicts(x.r, q, x.k, d))
  <2>1. DOMAIN verdict[d] = q.tags /\ match[d] = Combine(verdict[d]) /\ verdict[d] = Verdicts(x.r, q, x.k, d)
    BY DEF Verdicts
  <2> HIDE DEF verdict, match
  <2> QED
    BY <1>9, <2>1, CombineIs
<1> HIDE DEF match
<1>10. ASSUME NEW d \in Range(rows)
       PROVE  Usable(q, d) /\ (q.tags # {} /\ ~fallback => ProvesAll(y, d))
  <2>1. d \in Rows(x) /\ d \in x.rows /\ (free \/ match[d] = "MATCHED")
    BY <1>5, <1>7
  <2>2. Usable(q, d)
    BY <2>1 DEF Holds
  <2>3. ASSUME q.tags # {}, ~fallback, NEW t \in q.tags \ ClassTags
        PROVE  Supported(d, t) /\ verdict[d][t] = "MATCHED"
    BY <1>8, <1>9, <2>1, <2>3
  <2> QED
    BY <1>3, <1>4, <2>2, <2>3 DEF ProvesAll
<1>11. ASSUME fallback, q.tags \ ClassTags # {}, NEW d \in Rows(x), ProvesAll(y, d) PROVE FALSE
  <2>1. \A t \in q.tags \ ClassTags : verdict[d][t] = "MATCHED"
    BY <1>3, <1>4, <1>11 DEF ProvesAll
  <2>2. Combine(Verdicts(x.r, q, x.k, d)) = "MATCHED"
    BY <1>5, <1>9, <1>11, <2>1
  <2> QED
    BY <1>11, <2>2 DEF Good, Matched
<1>12. DOMAIN verdict = x.rows
  OBVIOUS
<1> HIDE DEF verdict, fallback
<1>13. Honoured(y, J)
  BY <1>3, <1>4, <1>5, <1>8, <1>10, <1>11, <1>12 DEF Honoured
<1>14. Shared(y)
  BY <1>3, <1>4, <1>5, <1>7 DEF Shared
<1> QED
  BY <1>4, <1>13, <1>14

-----------------------------------------------------------------------------
(* What a load is at every point of its way.                                *)

Presents(x) == Represented(x.q, Rows(x), x.shortlist, MaxCandidates)

\* Nothing to show while it waits for recipes; before a search for preferences the
\* rows to rank represent all of them.
Timely(x) ==
    /\ x.pc = "find" => x.rows = {}
    /\ x.pc = "supply" /\ x.stage \in {"start", "first"} => Rows(x) = {}
    /\ x.stage \in {"start", "first"} /\ x.pc \in {"slot", "calling", "ended"} => Presents(x)

Right(x, J) ==
    /\ Holds(x) /\ Firm(x.r, x.q, J) /\ Timely(x)
    /\ x.pc = "ended" /\ x.out.end = "result" => Shared(x) /\ Honoured(x, J)

LEMMA SameHolds ==
  ASSUME NEW x, NEW y, Holds(x), Same(x, y), y.r.done \subseteq Rows(x)
  PROVE  Holds(y) /\ Rows(y) = Rows(x) /\ (Presents(x) => Presents(y))
<1>1. Rows(y) = Rows(x)
  BY DEF Same, Rows
<1> QED
  BY <1>1 DEF Holds, Same, Presents

LEMMA FirmIsSoft ==
  ASSUME NEW r, NEW q, NEW k, NEW J, Firm(r, q, J)
  PROVE  Soft(r, q, k, J)
BY DEF Firm, Soft, Undecided

LEMMA AssessedRight ==
  ASSUME NEW x, LoadShape(x), Holds(x), NEW J, Soft(x.r, x.q, x.k, J),
         x.stage \in {"start", "first"} => Presents(x),
         NEW known, Decides(known, x.q, J), NEW late, NEW y, y = Assessed(x, known, late)
  PROVE  Right(y, J)
<1> DEFINE h == Hydrate(x.r, x.q, x.k, Rows(x), known)
           z == [x EXCEPT !.r = h]
           w == [z EXCEPT !.pc = "supply", !.stage = "again", !.supplied = TRUE, !.before = z.rows]
<1>1. DOMAIN x.r = RankFields /\ Read(x.k) /\ x.r.done \subseteq Rows(x)
  BY DEF LoadShape, Holds
<1>2. Firm(h, x.q, J) /\ h.done \subseteq Rows(x) /\ DOMAIN h = RankFields
  <2>1. Rows(x) \subseteq Dish
    BY RowsIs
  <2>2. Firm(h, x.q, J) /\ h.done \subseteq Rows(x)
    <3> DEFINE r == x.r
               q == x.q
               k == x.k
               R == Rows(x)
    <3>1. /\ DOMAIN r = RankFields /\ Read(k) /\ r.done \subseteq R /\ R \subseteq Dish
          /\ Soft(r, q, k, J) /\ Decides(known, q, J) /\ h = Hydrate(r, q, k, R, known)
      BY <1>1, <2>1
    <3> HIDE DEF r, q, k, R, h
    <3>2. Firm(h, q, J) /\ h.done \subseteq R
      BY <3>1, HydrateFirm
    <3> QED
      BY <3>2 DEF q, R
  <2>3. DOMAIN h = RankFields
    BY <1>1, HydrateWarns
  <2> QED
    BY <2>2, <2>3
<1>3. y \in {Finished(z), w}
  BY DEF Assessed, Concludes
<1> HIDE DEF h
<1>4. DOMAIN z = LoadFields /\ z.r = h /\ z.stage = x.stage /\ Same(x, z)
  BY DEF LoadShape, LoadFields, Same
<1> HIDE DEF z
<1>5. LoadShape(z) /\ Holds(z) /\ Firm(z.r, z.q, J) /\ (z.stage \in {"start", "first"} => Presents(z))
  BY <1>2, <1>4, SameHolds DEF LoadShape, Same
<1>6. CASE y = Finished(z)
  <2>1. /\ Same(z, y) /\ y.stage = z.stage /\ y.r = z.r /\ y.pc = "ended"
        /\ Shared(y) /\ Honoured(y, J)
    BY <1>5, <1>6, FinishedIs
  <2>2. Holds(y) /\ Rows(y) = Rows(z) /\ (Presents(z) => Presents(y))
    BY <1>5, <2>1, SameHolds DEF Holds
  <2> QED
    BY <1>5, <2>1, <2>2 DEF Right, Timely, Same
<1>7. CASE y = w
  <2>1. w.r = z.r /\ w.stage = "again" /\ w.pc = "supply" /\ Same(z, w)
    BY <1>5 DEF LoadShape, LoadFields, Same
  <2> HIDE DEF w
  <2>2. Holds(y)
    BY <1>5, <1>7, <2>1, SameHolds DEF Holds
  <2> QED
    BY <1>5, <1>7, <2>1, <2>2 DEF Right, Timely, Same
<1> QED
  BY <1>3, <1>6, <1>7

\* A load between its rank and hydrate(), as it came from x.
Between(x, y, J) ==
    /\ LoadShape(y) /\ Holds(y) /\ Same(x, y) /\ y.stage = x.stage
    /\ Soft(y.r, y.q, y.k, J) /\ (Presents(x) => Presents(y))

LEMMA RankedSoft ==
  ASSUME NEW x, LoadShape(x), Holds(x), NEW r, DOMAIN r = RankFields, NEW J, Soft(r, x.q, x.k, J),
         r.done \subseteq Rows(x), NEW known, Knowing(known, J, x.q, x.k, Range(x.shortlist)),
         NEW how, NEW y, y = Ranked(x, r, known, how)
  PROVE  Between(x, y, J)
<1> DEFINE n == Recall(r, Dish, known)
           m == [n EXCEPT !.fits = n.fits \cup x.r.fits]
<1>1. Rows(x) \subseteq Dish /\ Range(x.shortlist) \subseteq Rows(x)
  BY RowsIs DEF Holds
<1>2. Knowing(known, J, x.q, x.k, Rows(x))
  BY <1>1 DEF Knowing
<1>3. Soft(n, x.q, x.k, J) /\ n.done \subseteq Rows(x) /\ DOMAIN n = RankFields
  BY <1>1, <1>2, RecallSoft, RecallWarns
<1>4. y = [x EXCEPT !.r = m, !.ranked = y.ranked, !.ranks = y.ranks]
  BY DEF Ranked, LoadShape, LoadFields
<1> HIDE DEF n
<1>5. DOMAIN m = RankFields /\ m.done = n.done /\ m.ev = n.ev /\ m.vague = n.vague /\ m.vain = n.vain
  BY <1>3 DEF RankFields
<1> HIDE DEF m
<1>6. Soft(m, x.q, x.k, J) /\ m.done \subseteq Rows(x)
  BY <1>3, <1>5 DEF Soft
<1>7. DOMAIN y = LoadFields /\ y.r = m /\ y.stage = x.stage /\ Same(x, y)
  BY <1>4 DEF LoadShape, LoadFields, Same
<1>8. Holds(y) /\ (Presents(x) => Presents(y))
  BY <1>6, <1>7, SameHolds
<1> QED
  BY <1>5, <1>6, <1>7, <1>8 DEF Between, LoadShape, Same

\* A ranker that forgets what it heard.
LEMMA ForgottenSoft ==
  ASSUME NEW r, r.done = {}, r.ev = Nothing, NEW q, NEW k, NEW J
  PROVE  Soft(r, q, k, J)
BY DEF Soft, Proves, Nothing

LEMMA UnansweredSoft ==
  ASSUME NEW x, LoadShape(x), Holds(x), NEW J, Decides(decisions, x.q, J), NEW why, NEW y, y = Unanswered(x, why)
  PROVE  Between(x, y, J)
<1> DEFINE r == [Forget(x.r) EXCEPT !.warned = @ \cup {why}]
<1>1. DOMAIN r = RankFields /\ r.done = {} /\ r.ev = Nothing
  BY DEF Forget, Fresh, RankFields
<1>2. y = Ranked(x, r, Knows(x), "failed")
  BY DEF Unanswered
<1> HIDE DEF r
<1>3. DOMAIN r = RankFields /\ Soft(r, x.q, x.k, J) /\ r.done = {}
  BY <1>1, ForgottenSoft
<1>4. Knowing(Knows(x), J, x.q, x.k, Range(x.shortlist))
  BY KnowsIs DEF Holds
<1> QED
  BY <1>2, <1>3, <1>4, RankedSoft

LEMMA BetweenRight ==
  ASSUME NEW x, NEW z, NEW J, Between(x, z, J), x.stage \in {"start", "first"} => Presents(x),
         NEW known, Decides(known, x.q, J), NEW late, NEW y, y = Assessed(z, known, late)
  PROVE  Right(y, J)
<1>1. z.q = x.q /\ z.stage = x.stage /\ LoadShape(z) /\ Holds(z) /\ Soft(z.r, z.q, z.k, J)
  BY DEF Between, Same
<1>2. z.stage \in {"start", "first"} => Presents(z)
  BY <1>1 DEF Between
<1> QED
  BY <1>1, <1>2, AssessedRight

\* The rows to rank are a list, and represent all rows on the first way.
LEMMA ListingIs ==
  ASSUME NEW x, LoadShape(x), Holds(x), NEW y, y = Listing(x)
  PROVE  /\ LoadShape(y) /\ Holds(y) /\ y.q = x.q /\ y.k = x.k /\ y.rows = x.rows
         /\ y.r = x.r /\ y.stage = x.stage /\ (y.stage # "again" => Presents(y))
<1> DEFINE q == x.q
           order == Ordered(q, Rows(x))
           new == Without(order, x.before)
           n == Least(MaxCandidates, Len(new))
           list == IF x.stage = "again" THEN SubSeq(new, 1, n)
                   ELSE Shortlist(q, order, Range(scene.web), MaxCandidates)
           window == Window(q, list, Fit)
<1>1. MaxCandidates \in Nat /\ Fit \in Nat /\ IsRequest(q) /\ Rows(x) \subseteq Dish
  BY SceneAssumption, RowsIs DEF Holds
<1>2. IsList(order, Rows(x))
  BY <1>1, OrderedIs
<1>3. y = [x EXCEPT !.shortlist = list, !.window = window]
  BY DEF Listing, ListedFrom, Lists
<1> HIDE DEF q, order
<1>4. x.stage = "again" => IsList(list, Range(list)) /\ Range(list) \subseteq Rows(x)
  <2>1. IsList(new, Rows(x) \ x.before)
    BY <1>2, WithoutIs
  <2>2. Len(new) = Cardinality(Rows(x) \ x.before) /\ Len(new) \in Nat
    BY <2>1, ListLen
  <2> HIDE DEF new
  <2>3. n \in Nat /\ n <= Cardinality(Rows(x) \ x.before)
    BY <1>1, <2>2 DEF Least
  <2> DEFINE p == SubSeq(new, 1, n)
  <2> HIDE DEF n
  <2>4. p = SubSeq(new, 1, n)
    OBVIOUS
  <2>5. x.stage = "again" => list = p
    BY DEF new, n
  <2> HIDE DEF p
  <2>6. IsList(p, Range(p)) /\ Range(p) \subseteq Rows(x) \ x.before
    BY <2>1, <2>3, <2>4, ListPrefix
  <2> HIDE DEF list
  <2> QED
    BY <2>5, <2>6
<1>5. x.stage # "again" => /\ IsList(list, Range(list)) /\ Range(list) \subseteq Rows(x)
                           /\ Represented(q, Rows(x), list, MaxCandidates)
  <2> DEFINE s == Shortlist(q, order, Range(scene.web), MaxCandidates)
  <2>1. /\ Represented(q, Rows(x), s, MaxCandidates)
        /\ IsList(s, Range(s)) /\ Range(s) \subseteq Rows(x)
    BY <1>1, <1>2, ShortlistIs
  <2>2. x.stage # "again" => list = s
    OBVIOUS
  <2> HIDE DEF list, s
  <2> QED
    BY <2>1, <2>2
<1> HIDE DEF list
<1>6. window \subseteq Range(list)
  <2> DEFINE s == Representative(q, list, Len(list))
             m == Least(Fit, Len(list))
  <2>1. IsList(list, Range(list)) /\ Range(list) \subseteq Dish
    BY <1>1, <1>4, <1>5
  <2>2. Len(list) \in Nat /\ Len(list) = Cardinality(Range(list))
    BY <2>1, ListLen
  <2>3. IsList(s, Range(s)) /\ Range(s) \subseteq Range(list) /\ Represented(q, Range(list), s, Len(list))
    BY <2>1, <2>2, RepresentativeIs
  <2>4. window = Range(SubSeq(s, 1, m))
    BY DEF Window
  <2> HIDE DEF s
  <2>5. Len(s) = Cardinality(Range(s)) /\ Len(s) = Len(list)
    BY <2>2, <2>3, ListLen DEF Represented, Least
  <2>6. m \in Nat /\ m <= Cardinality(Range(s))
    BY <1>1, <2>2, <2>5 DEF Least
  <2> HIDE DEF m
  <2> DEFINE p == SubSeq(s, 1, m)
  <2>7. p = SubSeq(s, 1, m)
    OBVIOUS
  <2> HIDE DEF p
  <2>8. Range(p) \subseteq Range(s)
    BY <2>3, <2>6, <2>7, ListPrefix
  <2> HIDE DEF window
  <2> QED
    BY <2>3, <2>4, <2>7, <2>8
<1> HIDE DEF window
<1>7. /\ DOMAIN y = LoadFields /\ y.q = x.q /\ y.k = x.k /\ y.rows = x.rows /\ y.r = x.r /\ y.stage = x.stage
      /\ y.shortlist = list /\ y.window = window
  BY <1>3 DEF LoadShape, LoadFields
<1>8. Rows(y) = Rows(x)
  BY <1>7 DEF Rows
<1>9. LoadShape(y) /\ Holds(y)
  BY <1>4, <1>5, <1>6, <1>7, <1>8 DEF LoadShape, Holds
<1>10. y.stage # "again" => Presents(y)
  BY <1>5, <1>7, <1>8 DEF Presents, q
<1> QED
  BY <1>7, <1>9, <1>10

\* What follows the stores: the rank is over at once or waits for a slot.
LEMMA RankingRight ==
  ASSUME NEW x, LoadShape(x), Holds(x), NEW J, Firm(x.r, x.q, J), Decides(decisions, x.q, J),
         x.stage \in {"start", "first"} => Presents(x), NEW late, NEW y, y = Ranking(x, late)
  PROVE  Right(y, J)
<1> DEFINE fitting == {d \in x.window : Fitting(x, d) = TRUE}
           r == [Forget(x.r) EXCEPT !.fits = fitting]
           known == Ranked(x, r, Knows(x), "known")
           slot == [x EXCEPT !.pc = "slot"]
<1>1. DOMAIN r = RankFields /\ r.done = {} /\ r.ev = Nothing
  BY DEF Forget, Fresh, RankFields
<1>2. Knowing(Knows(x), J, x.q, x.k, Range(x.shortlist))
  BY KnowsIs DEF Holds
<1>3. Between(x, known, J)
  <2> HIDE DEF r
  <2>1. Soft(r, x.q, x.k, J)
    BY <1>1, ForgottenSoft
  <2> QED
    BY <1>1, <1>2, <2>1, RankedSoft
<1>4. Between(x, Unanswered(x, "UNAVAILABLE"), J)
  BY UnansweredSoft
<1>5. Between(x, x, J)
  BY FirmIsSoft DEF Between, Same
<1>6. Right(slot, J)
  <2>1. slot.pc = "slot" /\ slot.r = x.r /\ slot.stage = x.stage /\ Same(x, slot)
    BY DEF LoadShape, LoadFields, Same
  <2> HIDE DEF slot
  <2>2. Holds(slot) /\ (Presents(x) => Presents(slot))
    BY <2>1, SameHolds DEF Holds
  <2> QED
    BY <2>1, <2>2 DEF Right, Timely, Same
<1>7. y \in {slot, Assessed(x, decisions, late), Assessed(known, decisions, late),
             Assessed(Unanswered(x, "UNAVAILABLE"), decisions, late)}
  BY DEF Ranking
<1> HIDE DEF known, slot, fitting
<1>8. ASSUME NEW z, Between(x, z, J), y = Assessed(z, decisions, late) PROVE Right(y, J)
  BY <1>8, BetweenRight
<1> QED
  BY <1>3, <1>4, <1>5, <1>6, <1>7, <1>8

-----------------------------------------------------------------------------
(* How a load stays right.                                                  *)

\* What answers settle stays settled.
LEMMA RightGrows ==
  ASSUME NEW x, NEW J, NEW K, J \subseteq K, Right(x, J)
  PROVE  Right(x, K)
<1>1. \A d, t : RefutedBy(J, x.q, d, t) => RefutedBy(K, x.q, d, t)
  BY DEF RefutedBy
<1>2. Firm(x.r, x.q, K)
  BY <1>1 DEF Right, Firm, Explained
<1>3. Honoured(x, J) => Honoured(x, K)
  BY <1>1 DEF Honoured
<1> QED
  BY <1>2, <1>3 DEF Right

\* Without rows there is nothing to show, and nothing is shown.
LEMMA EmptyPresents ==
  ASSUME NEW x, Holds(x), Rows(x) = {}
  PROVE  Presents(x)
<1>1. Range(x.shortlist) = {} /\ IsList(x.shortlist, {})
  BY DEF Holds
<1>2. x.shortlist = << >>
  <2>1. x.shortlist \in Seq({}) /\ Len(x.shortlist) = 0
    BY <1>1, ListLen, FS_EmptySet
  <2> QED
    BY <2>1
<1>3. Cardinality({}) = 0 /\ MaxCandidates \in Nat
  BY FS_EmptySet, SceneAssumption
<1>4. Least(MaxCandidates, 0) = 0 /\ Len(<< >>) = 0
  BY <1>3 DEF Least
<1>5. IsInjective(<< >>)
  BY DEF IsInjective
<1>6. Foods(x.q, << >>) = {} /\ UNION {UrgentMain(x.q, d) : d \in {}} = {}
  BY EmptyList DEF Foods
<1> QED
  BY <1>2, <1>3, <1>4, <1>5, <1>6 DEF Presents, Represented

\* The same load at another point of its way.
LEMMA MovesRight ==
  ASSUME NEW x, NEW J, Right(x, J), NEW y, Same(x, y), y.r = x.r, y.pc = "find" => x.pc = "find",
         y.pc = "supply" /\ y.stage \in {"start", "first"} => Rows(x) = {},
         y.stage \in {"start", "first"} /\ y.pc \in {"slot", "calling", "ended"} => Presents(x),
         y.pc = "ended" /\ y.out.end = "result" => y.out = x.out /\ x.pc = "ended"
  PROVE  Right(y, J)
<1>1. Holds(x) /\ y.r.done \subseteq Rows(x)
  BY DEF Right, Holds
<1>2. Holds(y) /\ Rows(y) = Rows(x) /\ (Presents(x) => Presents(y))
  BY <1>1, SameHolds
<1>3. Firm(y.r, y.q, J) /\ Timely(y)
  BY <1>2 DEF Right, Timely, Same
<1>4. ASSUME y.pc = "ended" /\ y.out.end = "result" PROVE Shared(y) /\ Honoured(y, J)
  <2>1. y.out = x.out /\ x.pc = "ended" /\ x.out.end = "result" /\ y.q = x.q
    BY <1>4 DEF Same
  <2> QED
    BY <1>2, <2>1 DEF Right, Shared, Honoured, ProvesAll
<1> QED
  BY <1>2, <1>3, <1>4 DEF Right

\* A load that begins holds nothing yet.
LEMMA BeginsRight ==
  ASSUME NEW q, IsRequest(q), NEW key, NEW J, NEW y, y = [NewLoad EXCEPT !.pc = "find", !.key = key, !.q = q]
  PROVE  Right(y, J)
<1>1. /\ y.pc = "find" /\ y.q = q /\ y.rows = {} /\ y.shortlist = << >> /\ y.window = {} /\ y.r = Fresh
      /\ y.k = [profiled |-> {}, classed |-> {}]
  BY DEF NewLoad
<1>2. Rows(y) = {}
  BY <1>1 DEF Rows, Baseline
<1>3. y.r.done = {} /\ y.r.ev = Nothing
  BY <1>1 DEF Fresh
<1>4. Firm(y.r, y.q, J)
  BY <1>3 DEF Firm, Proves, Nothing
<1>5. Read(y.k)
  <2>1. y.k.profiled = {} /\ y.k.classed = {}
    BY <1>1
  <2> QED
    BY <2>1 DEF Read
<1>6. IsList(y.shortlist, {}) /\ Range(y.shortlist) = {}
  BY <1>1, EmptyList
<1>7. Holds(y)
  BY <1>1, <1>2, <1>3, <1>5, <1>6 DEF Holds
<1> QED
  BY <1>1, <1>4, <1>7 DEF Right, Timely

\* Rows come, and what was read of them may go.
LEMMA GrowsHolds ==
  ASSUME NEW x, Holds(x), NEW y, y.q = x.q, y.shortlist = x.shortlist, y.window = x.window,
         y.r.done = x.r.done, x.rows \subseteq y.rows,
         \A d \in y.rows : d \in Dish /\ Usable(y.q, d), Read(y.k)
  PROVE  Holds(y)
<1>1. Rows(x) \subseteq Rows(y)
  BY DEF Rows, Baseline
<1> QED
  BY <1>1 DEF Holds

\* The stores tell what they know.
LEMMA AttachesHolds ==
  ASSUME NEW x, LoadShape(x), Holds(x), NEW profiles, NEW attributes, NEW y, y = Attaches(x, profiles, attributes)
  PROVE  /\ LoadShape(y) /\ Holds(y) /\ y.q = x.q /\ y.r = x.r /\ y.stage = x.stage /\ y.pc = x.pc
<1> DEFINE p == x.k.profiled \cup {d \in x.rows : (profiles /\ x.q.tags # {}) /\ Profile[d] # Unknown}
           c == x.k.classed \cup {d \in x.rows : attributes /\ Class[d] # Unknown}
           k == [profiled |-> p, classed |-> c]
<1>1. y = [x EXCEPT !.k = k]
  BY DEF Attaches, LoadShape, LoadFields
<1>2. k.profiled = p /\ k.classed = c
  OBVIOUS
<1>3. Read(k)
  BY <1>2 DEF Holds, Read
<1> HIDE DEF k
<1>4. DOMAIN y = LoadFields /\ y.k = k /\ y.q = x.q /\ y.r = x.r /\ y.stage = x.stage /\ y.rows = x.rows
      /\ y.pc = x.pc /\ y.shortlist = x.shortlist /\ y.window = x.window
  BY <1>1 DEF LoadShape, LoadFields
<1>5. Holds(y)
  BY <1>3, <1>4, GrowsHolds DEF Holds
<1> QED
  BY <1>4, <1>5 DEF LoadShape

-----------------------------------------------------------------------------
(* The recipes that supplies handle.                                        *)

Supplies(x) ==
    /\ x.hits \in Seq(Dish) /\ x.found \in Seq(Dish) /\ x.official \in Seq(Dish)
    /\ x.pc \in {"page", "reading"} => x.hits # << >>

SceneInv ==
    /\ {"request", "web", "official"} \subseteq DOMAIN scene
    /\ \A c \in Load : Request(c) # None => IsRequest(Request(c))
    /\ scene.web \in Seq(Dish) /\ scene.official \in Seq(Dish)

SourceInv ==
    /\ stored \subseteq Dish
    /\ \A v \in readings : v.page \in Dish
    /\ \A s \in Supplier : Supplies(supply[s])

LEMMA IdleSupplies == Supplies(Idle)
BY EmptySeq DEF Supplies, Idle

LEMMA BegunSupplies ==
  ASSUME NEW q, NEW focus, NEW official
  PROVE  Supplies(Begun(q, focus, official))
<1> DEFINE x == Begun(q, focus, official)
<1>1. x.hits = << >> /\ x.found = << >> /\ x.official = << >> /\ x.pc \in {"official", "search"}
  BY DEF Begun, Idle
<1> HIDE DEF x
<1>2. << >> \in Seq(Dish)
  BY EmptySeq
<1>3. Supplies(x)
  BY <1>1, <1>2 DEF Supplies
<1> QED
  BY <1>3 DEF x

\* A page that is done with leaves the hits after it.
LEMMA SeenSupplies ==
  ASSUME NEW x, DOMAIN x = SupplyFields, Supplies(x), x.hits # << >>, NEW d \in Dish, NEW end, NEW own
  PROVE  Supplies(Seen(x, d, end, own))
<1> DEFINE y == Seen(x, d, end, own)
<1>1. /\ y.found \in {x.found, Appended(x.found, d)} /\ y.official = x.official
      /\ \/ y.hits = << >> /\ y.pc = "search"
         \/ y.hits = Tail(x.hits) /\ y.pc = IF Len(x.hits) = 1 THEN "search" ELSE "page"
  BY DEF Seen, SupplyFields
<1> HIDE DEF y
<1>2. Appended(x.found, d) \in Seq(Dish)
  BY DEF Appended, Supplies
<1>3. << >> \in Seq(Dish)
  BY EmptySeq
<1>4. Tail(x.hits) \in Seq(Dish) /\ (Len(x.hits) # 1 => Tail(x.hits) # << >>)
  <2> DEFINE h == x.hits
  <2>1. h \in Seq(Dish) /\ h # << >>
    BY DEF Supplies
  <2> HIDE DEF h
  <2>2. Tail(h) \in Seq(Dish) /\ Len(Tail(h)) = Len(h) - 1 /\ Len(h) \in Nat
    BY <2>1
  <2>3. Len(h) # 1 => Tail(h) # << >>
    BY <2>2
  <2> QED
    BY <2>2, <2>3 DEF h
<1>5. Supplies(y)
  BY <1>1, <1>2, <1>3, <1>4 DEF Supplies
<1> QED
  BY <1>5 DEF y

LEMMA OutOfTimeSupplies ==
  ASSUME NEW x, DOMAIN x = SupplyFields, Supplies(x), NEW lost
  PROVE  Supplies(OutOfTime(x, lost))
<1> DEFINE y == OutOfTime(x, lost)
<1>1. y.found \in {x.found, << >>} /\ y.official = x.official /\ y.hits = x.hits /\ y.pc = "save"
  BY DEF OutOfTime, SupplyFields
<1> HIDE DEF y
<1>2. << >> \in Seq(Dish)
  BY EmptySeq
<1>3. Supplies(y)
  BY <1>1, <1>2 DEF Supplies
<1> QED
  BY <1>3 DEF y

\* A supply that holds recipes goes on as one that does.
LEMMA BecomesSource ==
  ASSUME Shapes, SourceInv, NEW s \in Supplier, NEW x, Supplies(x), Becomes(s, x),
         stored' \subseteq Dish, \A v \in readings' : v.page \in Dish
  PROVE  SourceInv'
<1>1. \A o \in Supplier : supply'[o] = x \/ supply'[o] = supply[o]
  BY DEF Becomes, Shapes
<1>2. \A o \in Supplier : Supplies(supply'[o])
  BY <1>1 DEF SourceInv
<1> QED
  BY <1>2 DEF SourceInv, Supplies

LEMMA OfficialSource ==
  ASSUME Shapes, SceneInv, SourceInv, NEW s \in Supplier, Official(s)
  PROVE  SourceInv'
<1>1. PICK n \in 0 .. Len(scene.official), pc \in {"save", "search"}, ok \in BOOLEAN :
        /\ Becomes(s, [[supply[s] EXCEPT !.official = SubSeq(scene.official, 1, n), !.ok = ok] EXCEPT !.pc = pc])
        /\ stored' = stored \cup Range(SubSeq(scene.official, 1, n))
  BY DEF Official
<1> DEFINE got == SubSeq(scene.official, 1, n)
           x == [[supply[s] EXCEPT !.official = got, !.ok = ok] EXCEPT !.pc = pc]
<1>2. got \in Seq(Dish)
  <2> DEFINE w == scene.official
  <2>1. w \in Seq(Dish) /\ n \in 0 .. Len(w)
    BY DEF SceneInv
  <2> HIDE DEF w
  <2>2. \A i \in 1 .. n : w[i] \in Dish
    BY <2>1
  <2>3. SubSeq(w, 1, n) \in Seq(Dish)
    BY <2>1, <2>2, SubSeqProperties
  <2> QED
    BY <2>3 DEF w
<1>3. Range(got) \subseteq Dish
  BY <1>2 DEF Range
<1>4. DOMAIN supply[s] = SupplyFields /\ Supplies(supply[s])
  BY DEF Shapes, SourceInv
<1> HIDE DEF got
<1>5. x.hits = supply[s].hits /\ x.found = supply[s].found /\ x.official = got /\ x.pc = pc
  BY <1>4 DEF SupplyFields
<1> HIDE DEF x
<1>6. Supplies(x)
  BY <1>2, <1>4, <1>5 DEF Supplies
<1>7. Becomes(s, x) /\ stored' \subseteq Dish /\ readings' = readings
  BY <1>1, <1>3 DEF x, got, Official, SourceInv
<1> QED
  BY <1>6, <1>7, BecomesSource DEF SourceInv

LEMMA SearchesSource ==
  ASSUME Shapes, SceneInv, SourceInv, NEW s \in Supplier, Searches(s)
  PROVE  SourceInv'
<1> DEFINE x == [supply[s] EXCEPT !.pc = "save"]
           y == [supply[s] EXCEPT !.pc = IF scene.web = << >> THEN "search" ELSE "page", !.hits = scene.web,
                                  !.focus = <<Head(supply[s].names)>>, !.names = Tail(supply[s].names)]
<1>1. DOMAIN supply[s] = SupplyFields /\ Supplies(supply[s])
  BY DEF Shapes, SourceInv
<1>2. (Becomes(s, x) \/ Becomes(s, y)) /\ stored' = stored /\ readings' = readings
  BY DEF Searches
<1>3. x.hits = supply[s].hits /\ x.found = supply[s].found /\ x.official = supply[s].official /\ x.pc = "save"
  BY <1>1 DEF SupplyFields
<1>4. y.hits = scene.web /\ y.found = supply[s].found /\ y.official = supply[s].official
      /\ (y.pc \in {"page", "reading"} => scene.web # << >>)
  BY <1>1 DEF SupplyFields
<1> HIDE DEF x, y
<1>5. Supplies(x) /\ Supplies(y)
  BY <1>1, <1>3, <1>4 DEF Supplies, SceneInv
<1> QED
  BY <1>2, <1>5, BecomesSource DEF SourceInv

LEMMA LooksSource ==
  ASSUME Shapes, SourceInv, NEW s \in Supplier, Looks(s)
  PROVE  SourceInv'
<1> DEFINE d == Head(supply[s].hits)
           waits(n) == [supply[s] EXCEPT !.pc = "reading", !.at = n]
           new(n) == [id |-> n, by |-> s, page |-> d, listed |-> TRUE, state |-> "running"]
<1>1. DOMAIN supply[s] = SupplyFields /\ Supplies(supply[s]) /\ supply[s].hits # << >>
  BY DEF Shapes, SourceInv, Looks, Supplies
<1>2. d \in Dish
  BY <1>1 DEF Supplies
<1>3. \A n : Supplies(waits(n))
  <2> SUFFICES ASSUME NEW n PROVE Supplies(waits(n))
    OBVIOUS
  <2> DEFINE x == waits(n)
  <2>1. x.hits = supply[s].hits /\ x.found = supply[s].found /\ x.official = supply[s].official
    BY <1>1 DEF SupplyFields
  <2> HIDE DEF x
  <2>2. Supplies(x)
    BY <1>1, <2>1 DEF Supplies
  <2> QED
    BY <2>2 DEF x
<1>4. /\ stored' = stored
      /\ \/ readings' = readings /\ \E end : Becomes(s, Seen(supply[s], d, end, FALSE))
         \/ readings' = readings /\ \E v \in readings : Becomes(s, waits(v.id))
         \/ \E n : readings' = readings \cup {new(n)} /\ Becomes(s, waits(n))
  BY DEF Looks, Listed
<1>5. \A n : new(n).page = d
  OBVIOUS
<1> HIDE DEF d, waits, new
<1>6. \A end : Supplies(Seen(supply[s], d, end, FALSE))
  BY <1>1, <1>2, SeenSupplies
<1>7. \A v \in readings' : v.page \in Dish
  BY <1>2, <1>4, <1>5 DEF SourceInv
<1>8. stored' \subseteq Dish
  BY <1>4 DEF SourceInv
<1> QED
  BY <1>3, <1>4, <1>6, <1>7, <1>8, BecomesSource

\* Leaving a reading changes no page.
LEMMA LeavesSource ==
  ASSUME Shapes, ReadInv, SourceInv, NEW s \in Supplier, NEW v \in readings, NEW x, Supplies(x),
         NEW gone, Supplies(gone), Leaves(s, v, x, gone), stored' = stored
  PROVE  SourceInv'
<1> DEFINE u == [v EXCEPT !.state = "cancelled"]
<1>1. u.page = v.page
  BY DEF ReadInv
<1>2. \/ Becomes(s, gone) /\ readings' = readings
      \/ Becomes(s, x) /\ readings' = (readings \ {v}) \cup {u}
  BY DEF Leaves
<1> HIDE DEF u
<1>3. (\A w \in readings' : w.page \in Dish) /\ stored' \subseteq Dish
  BY <1>1, <1>2 DEF SourceInv
<1> QED
  BY <1>2, <1>3, BecomesSource

LEMMA LateSource ==
  ASSUME Shapes, ReadInv, SourceInv, NEW s \in Supplier, Late(s)
  PROVE  SourceInv'
<1>1. PICK lost \in BOOLEAN :
         \/ Becomes(s, OutOfTime(supply[s], lost)) /\ readings' = readings
         \/ \E v \in readings : Leaves(s, v, [supply[s] EXCEPT !.pc = "leaving", !.found = IF lost THEN << >> ELSE @],
                                       OutOfTime(supply[s], lost))
  BY DEF Late
<1> DEFINE x == [supply[s] EXCEPT !.pc = "leaving", !.found = IF lost THEN << >> ELSE supply[s].found]
<1>2. DOMAIN supply[s] = SupplyFields /\ Supplies(supply[s]) /\ stored' = stored
  BY DEF Shapes, SourceInv, Late
<1>3. x.hits = supply[s].hits /\ x.found \in {<< >>, supply[s].found} /\ x.official = supply[s].official
      /\ x.pc = "leaving"
  BY <1>2 DEF SupplyFields
<1>4. \/ Becomes(s, OutOfTime(supply[s], lost)) /\ readings' = readings
      \/ \E v \in readings : Leaves(s, v, x, OutOfTime(supply[s], lost))
  BY <1>1
<1> HIDE DEF x
<1>5. << >> \in Seq(Dish)
  BY EmptySeq
<1>6. Supplies(x) /\ Supplies(OutOfTime(supply[s], lost))
  BY <1>2, <1>3, <1>5, OutOfTimeSupplies DEF Supplies
<1>7. stored' \subseteq Dish /\ \A v \in readings : v.page \in Dish
  BY <1>2 DEF SourceInv
<1> QED
  BY <1>2, <1>4, <1>6, <1>7, BecomesSource, LeavesSource

LEMMA StoppedSource ==
  ASSUME Shapes, ReadInv, SourceInv, NEW s \in Supplier, Stopped(s)
  PROVE  SourceInv'
<1> DEFINE x == [supply[s] EXCEPT !.pc = "unwinding"]
<1>1. DOMAIN supply[s] = SupplyFields /\ Supplies(supply[s]) /\ stored' = stored
  BY DEF Shapes, SourceInv, Stopped
<1>2. \/ \E v \in readings : Leaves(s, v, x, Idle)
      \/ Becomes(s, Idle) /\ readings' = readings
  BY DEF Stopped
<1>3. x.hits = supply[s].hits /\ x.found = supply[s].found /\ x.official = supply[s].official
      /\ x.pc = "unwinding"
  BY <1>1 DEF SupplyFields
<1> HIDE DEF x
<1>4. Supplies(x)
  BY <1>1, <1>3 DEF Supplies
<1>5. stored' \subseteq Dish /\ \A v \in readings : v.page \in Dish
  BY <1>1 DEF SourceInv
<1> QED
  BY <1>1, <1>2, <1>4, <1>5, IdleSupplies, BecomesSource, LeavesSource

LEMMA LeftSource ==
  ASSUME Shapes, ReadInv, SourceInv, NEW s \in Supplier, Left(s)
  PROVE  SourceInv'
<1> DEFINE off(v) == IF v.page = Head(supply[s].hits) THEN [v EXCEPT !.listed = FALSE] ELSE v
<1>1. DOMAIN supply[s] = SupplyFields /\ Supplies(supply[s]) /\ stored' = stored
  BY DEF Shapes, SourceInv, Left
<1>2. readings' = {off(v) : v \in readings}
      /\ (Becomes(s, OutOfTime(supply[s], FALSE)) \/ Becomes(s, Idle))
  BY DEF Left
<1>3. \A v \in readings : off(v).page = v.page
  BY DEF ReadInv
<1> HIDE DEF off
<1>4. stored' \subseteq Dish /\ \A v \in readings' : v.page \in Dish
  BY <1>1, <1>2, <1>3 DEF SourceInv
<1>5. Supplies(OutOfTime(supply[s], FALSE))
  BY <1>1, OutOfTimeSupplies
<1> QED
  BY <1>2, <1>4, <1>5, IdleSupplies, BecomesSource

LEMMA PageReadSource ==
  ASSUME Shapes, SourceInv, NEW v \in readings, Ended(v) \/ Died(v)
  PROVE  SourceInv'
<1>1. readings' \subseteq readings /\ stored' = stored /\ v.page \in Dish
  BY DEF Ended, Died, SourceInv
<1>2. ASSUME NEW s \in Supplier PROVE Supplies(supply'[s])
  <2>1. DOMAIN supply[s] = SupplyFields /\ Supplies(supply[s])
    BY DEF Shapes, SourceInv
  <2>2. CASE Ended(v)
    <3>1. \/ supply'[s] = supply[s]
          \/ Awaits(s, v) /\ \E end, own : supply'[s] = Seen(supply[s], v.page, end, own)
      BY <2>2 DEF Ended
    <3>2. Awaits(s, v) => supply[s].hits # << >>
      BY <2>1 DEF Awaits, Supplies
    <3> QED
      BY <1>1, <2>1, <3>1, <3>2, SeenSupplies
  <2>3. CASE Died(v)
    <3> DEFINE x == [supply[s] EXCEPT !.pc = "dead"]
    <3>1. supply'[s] = supply[s] \/ supply'[s] = x
      BY <2>3 DEF Died
    <3>2. x.hits = supply[s].hits /\ x.found = supply[s].found /\ x.official = supply[s].official
          /\ x.pc = "dead"
      BY <2>1 DEF SupplyFields
    <3> HIDE DEF x
    <3>3. Supplies(x)
      BY <2>1, <3>2 DEF Supplies
    <3> QED
      BY <2>1, <3>1, <3>3
  <2> QED
    BY <2>2, <2>3
<1> QED
  BY <1>1, <1>2 DEF SourceInv, Supplies

\* What a supply brings are recipes.
LEMMA BroughtIs ==
  ASSUME SourceInv, NEW s \in Supplier, NEW n \in 0 .. Len(supply[s].found)
  PROVE  /\ Brought(s, n).recipes \subseteq Dish
         /\ Saves(s, n) => stored' \subseteq Dish
<1> DEFINE f == supply[s].found
           p == SubSeq(f, 1, n)
<1>1. f \in Seq(Dish) /\ supply[s].official \in Seq(Dish) /\ n \in 0 .. Len(f)
  BY DEF SourceInv, Supplies
<1>2. p \in Seq(Dish)
  <2> HIDE DEF f
  <2>1. \A i \in 1 .. n : f[i] \in Dish
    BY <1>1
  <2> QED
    BY <1>1, <2>1, SubSeqProperties
<1>3. Brought(s, n).recipes = Range(supply[s].official) \cup Range(p)
  BY DEF Brought
<1>4. Saves(s, n) => stored' = stored \cup (Range(p) \cap scene.approved)
  BY DEF Saves
<1> HIDE DEF p
<1>5. Range(p) \subseteq Dish /\ Range(supply[s].official) \subseteq Dish
  BY <1>1, <1>2 DEF Range
<1> QED
  BY <1>3, <1>4, <1>5 DEF SourceInv

LEMMA SourceStands ==
  ASSUME SourceInv, UNCHANGED <<stored, supply, readings>>
  PROVE  SourceInv'
BY DEF SourceInv, Supplies

-----------------------------------------------------------------------------
(* The invariant about the data, and what keeps it.                         *)

\* Only somebody who asks for something is there to ask.
AskInv == \A c \in Caller : caller[c].pc \in {"idle", "weather"} => Request(c) # None

Sound(x, J) == x.pc # "none" => Right(x, J) /\ x.q.tags \in TagSets

DataInv ==
    /\ SceneInv /\ SourceInv /\ memory \subseteq Dish /\ AskInv
    /\ Decisive(decisions, judged)
    /\ \A l \in Load : Sound(load[l], judged)

\* What a scene asks and holds stays.
SameScene ==
    /\ DOMAIN scene' = DOMAIN scene /\ scene'.request = scene.request
    /\ scene'.web = scene.web /\ scene'.official = scene.official

\* Nobody asks who did not.
AsksLess == \A c \in Caller : caller'[c].pc \in {"idle", "weather"} => caller[c].pc \in {"idle", "weather"}

LEMMA SceneKept ==
  ASSUME SameScene, SceneInv
  PROVE  SceneInv' /\ TagSets' = TagSets /\ \A c : Request(c)' = Request(c)
<1>1. \A c : Request(c)' = Request(c)
  BY DEF SameScene, Request
<1> QED
  BY <1>1 DEF SameScene, SceneInv, TagSets, Caller

LEMMA DataKept ==
  ASSUME DataInv, SameScene, AsksLess, SourceInv', memory' \subseteq Dish, judged \subseteq judged',
         Decisive(decisions', judged'),
         \A l \in Load : load'[l] = load[l] \/ Sound(load'[l], judged')
  PROVE  DataInv'
<1>1. SceneInv' /\ TagSets' = TagSets /\ \A c : Request(c)' = Request(c)
  BY SceneKept DEF DataInv
<1>2. AskInv'
  BY <1>1 DEF DataInv, AskInv, AsksLess, Caller
<1>3. Decisive(decisions, judged)'
  BY <1>1 DEF Decisive
<1>4. ASSUME NEW l \in Load PROVE Sound(load'[l], judged')
  <2>1. CASE load'[l] = load[l]
    <3>1. Sound(load[l], judged)
      BY DEF DataInv
    <3> QED
      BY <2>1, <3>1, RightGrows DEF Sound
  <2> QED
    BY <2>1
<1>5. \A l \in Load : Sound(load[l], judged)'
  BY <1>1, <1>4 DEF Sound
<1> QED
  BY <1>1, <1>2, <1>3, <1>5 DEF DataInv

\* One load goes on as y, nothing else of the data changes.
LEMMA LoadData ==
  ASSUME Shapes, DataInv, UNCHANGED <<memory, decisions, judged>>, SameScene, AsksLess, SourceInv',
         NEW l \in Load, NEW y, load' = [load EXCEPT ![l] = y], Sound(y, judged)
  PROVE  DataInv'
<1>1. \A k \in Load : load'[k] = load[k] \/ Sound(load'[k], judged')
  BY DEF Shapes
<1> QED
  BY <1>1, DataKept DEF DataInv

LEMMA StillData ==
  ASSUME DataInv, UNCHANGED <<load, decisions, judged>>, SameScene, AsksLess, SourceInv', memory' \subseteq Dish
  PROVE  DataInv'
BY DataKept DEF DataInv

LEMMA Standing ==
  ASSUME SceneInv, UNCHANGED <<scene, caller>>
  PROVE  SameScene /\ AsksLess
BY DEF SameScene, AsksLess

\* A load that goes on, and the supplies that this starts.
LEMMA GoesData ==
  ASSUME IInv, DataInv, NEW l \in Load, NEW y, NEW running, GoesWith(l, y, running),
         \A s \in Supplier : Supplies(running[s]), running = [s \in Supplier |-> running[s]],
         Right(y, judged'), y.q.tags \in TagSets,
         UNCHANGED <<scene, caller, stored, readings, memory>>, judged \subseteq judged',
         Decisive(decisions', judged')
  PROVE  DataInv'
<1> DEFINE b == Begun(y.q, Focus(y), y.stage = "first")
<1>1. Supplies(b)
  BY BegunSupplies
<1>2. l \in Supplier
  BY LaterIs
<1>3. supply' = (IF y.pc = "supply" THEN [running EXCEPT ![l] = b] ELSE running) /\ load' = [load EXCEPT ![l] = y]
  BY DEF GoesWith
<1> HIDE DEF b
<1>4. \A s \in Supplier : Supplies(supply'[s])
  BY <1>1, <1>2, <1>3
<1>5. SourceInv'
  BY <1>4 DEF DataInv, SourceInv, Supplies
<1>6. \A k \in Load : load'[k] = load[k] \/ Sound(load'[k], judged')
  BY <1>3 DEF IInv, Shapes, Sound
<1>7. SameScene /\ AsksLess /\ memory' \subseteq Dish
  BY Standing DEF DataInv
<1> QED
  BY <1>5, <1>6, <1>7, DataKept

\* A load that ended without a result shows nothing.
LEMMA EndsWithout ==
  ASSUME NEW x, LoadShape(x), NEW J, Sound(x, J), x.pc # "none",
         x.stage \in {"start", "first"} => x.pc \in {"find", "supply"},
         NEW how \in {"failed", "cancelled"}, NEW y, y = [x EXCEPT !.pc = "ended", !.out = [end |-> how]]
  PROVE  Sound(y, J)
<1>1. Right(x, J) /\ x.q.tags \in TagSets
  BY DEF Sound
<1> DEFINE o == [end |-> how]
<1>2. y.pc = "ended" /\ y.out = o /\ y.stage = x.stage /\ y.r = x.r /\ Same(x, y)
  BY DEF LoadShape, LoadFields, Same
<1>3. o.end # "result"
  OBVIOUS
<1> HIDE DEF o
<1>4. x.stage \in {"start", "first"} => Presents(x)
  <2>1. Holds(x) /\ (x.stage \in {"start", "first"} => Rows(x) = {})
    BY <1>1 DEF Right, Timely, Rows, Baseline
  <2> QED
    BY <2>1, EmptyPresents
<1>5. Right(y, J)
  BY <1>1, <1>2, <1>3, <1>4, MovesRight
<1> QED
  BY <1>1, <1>2, <1>5 DEF Sound, Same

-----------------------------------------------------------------------------
(* The steps of callers.                                                    *)

LEMMA EnterData ==
  ASSUME IInv, DataInv, NEW c \in Load, caller[c].pc \in {"idle", "weather"}, NEW w, Enter(c, w),
         UNCHANGED <<scene, world, decisions, judged>>
  PROVE  DataInv'
<1>1. SourceInv' /\ memory' = memory
  BY SourceStands DEF DataInv, world, sources
<1>2. SameScene
  BY DEF SameScene
<1>3. AsksLess
  <2>1. \E x : caller' = [caller EXCEPT ![c] = x]
    BY DEF Enter, Ends
  <2> QED
    BY <2>1 DEF AsksLess, IInv, Shapes
<1>4. load' = load \/ load' = [load EXCEPT ![c] = Begins(c, Key(c, w))]
  BY DEF Enter, Begins
<1>5. Sound(Begins(c, Key(c, w)), judged)
  <2> DEFINE y == Begins(c, Key(c, w))
  <2>1. Request(c) # None /\ IsRequest(Request(c))
    BY DEF DataInv, AskInv, SceneInv, Caller
  <2>2. Right(y, judged)
    BY <2>1, BeginsRight DEF Begins
  <2>3. y.q = Request(c)
    BY DEF Begins, NewLoad
  <2>4. Request(c).tags \in TagSets
    BY <2>1 DEF TagSets, Caller
  <2> HIDE DEF y
  <2>5. Sound(y, judged)
    BY <2>2, <2>3, <2>4 DEF Sound
  <2> QED
    BY <2>5 DEF y
<1>6. CASE load' = load
  BY <1>1, <1>2, <1>3, <1>6, StillData DEF DataInv
<1>7. CASE load' = [load EXCEPT ![c] = Begins(c, Key(c, w))]
  BY <1>1, <1>2, <1>3, <1>5, <1>7, LoadData DEF IInv
<1> QED
  BY <1>4, <1>6, <1>7

LEMMA StartData ==
  ASSUME IInv, DataInv, NEW c \in Load, Start(c)
  PROVE  DataInv'
<1>1. caller[c].pc = "idle" /\ UNCHANGED <<scene, world, decisions, judged>>
  BY DEF Start
<1>2. CASE Enter(c, snapshot)
  BY <1>1, <1>2, EnterData
<1>3. CASE caller' = [caller EXCEPT ![c].pc = "weather"] /\ load' = load
  <2>1. SourceInv' /\ memory' \subseteq Dish /\ SameScene
    BY <1>1, SourceStands DEF DataInv, world, sources, SameScene
  <2>2. AsksLess
    BY <1>1, <1>3 DEF AsksLess, IInv, Shapes
  <2> QED
    BY <1>1, <1>3, <2>1, <2>2, StillData
<1> QED
  BY <1>2, <1>3 DEF Start

LEMMA WaitedData ==
  ASSUME IInv, DataInv, NEW c \in Load, Waited(c)
  PROVE  DataInv'
BY EnterData DEF Waited

LEMMA LeavingData ==
  ASSUME IInv, DataInv, NEW c \in Load, Deliver(c) \/ Unwound(c)
  PROVE  DataInv'
<1>1. UNCHANGED <<scene, load, world, decisions, judged>> /\ \E x : caller' = [caller EXCEPT ![c] = x] /\ x.pc = "ended"
  BY DEF Deliver, Unwound, Ends
<1>2. AsksLess /\ SameScene
  BY <1>1 DEF AsksLess, IInv, Shapes, SameScene
<1>3. SourceInv' /\ memory' \subseteq Dish
  BY <1>1, SourceStands DEF DataInv, world, sources
<1> QED
  BY <1>1, <1>2, <1>3, StillData

LEMMA AbandonData ==
  ASSUME IInv, DataInv, NEW c \in Load, Abandon(c)
  PROVE  DataInv'
<1> DEFINE l == caller[c].load
           y == [load[l] EXCEPT !.stage = "cancelled"]
<1>1. l \in Load /\ load[l].pc # "ended" /\ caller[c].pc = "waiting"
  BY DEF Abandon, IInv, WaitInv, Caller
<1>2. /\ scene' = [scene EXCEPT !.impatient = @ \ {c}]
      /\ UNCHANGED <<world, decisions, judged>>
      /\ load' = [load EXCEPT ![l] = y] \/ load' = load
  BY DEF Abandon
<1>3. SameScene
  BY <1>2 DEF DataInv, SceneInv, SameScene
<1>4. AsksLess
  <2>1. caller' = [caller EXCEPT ![c].pc = "unwinding"] \/ \E x : caller' = [caller EXCEPT ![c] = x] /\ x.pc = "ended"
    BY DEF Abandon, Ends
  <2>2. caller'[c].pc \in {"unwinding", "ended"} /\ \A d \in Caller : d # c => caller'[d] = caller[d]
    BY <2>1 DEF IInv, Shapes, Caller
  <2> QED
    BY <2>2 DEF AsksLess
<1>5. SourceInv' /\ memory' = memory /\ memory' \subseteq Dish
  BY <1>2, SourceStands DEF DataInv, world, sources
<1>6. LoadShape(load[l]) /\ Sound(load[l], judged)
  BY <1>1 DEF IInv, Shapes, DataInv
<1>7. y.pc = load[l].pc /\ y.r = load[l].r /\ y.stage = "cancelled" /\ Same(load[l], y)
  BY <1>6 DEF LoadShape, LoadFields, Same
<1> HIDE DEF y, l
<1>8. Sound(y, judged)
  <2>1. load[l].pc # "none" => Right(y, judged)
    BY <1>1, <1>6, <1>7, MovesRight DEF Sound
  <2> QED
    BY <1>6, <1>7, <2>1 DEF Sound, Same
<1>9. CASE load' = load
  BY <1>2, <1>3, <1>4, <1>5, <1>9, StillData
<1>10. CASE load' = [load EXCEPT ![l] = y]
  BY <1>1, <1>2, <1>3, <1>4, <1>5, <1>8, <1>10, LoadData DEF IInv
<1> QED
  BY <1>2, <1>9, <1>10

LEMMA UnwindData ==
  ASSUME IInv, DataInv, NEW l \in Load, Unwind(l)
  PROVE  DataInv'
<1> DEFINE y == [load[l] EXCEPT !.pc = "ended", !.out = [end |-> "cancelled"]]
<1>1. /\ load[l].pc # "none" /\ load[l].stage = "cancelled" /\ load' = [load EXCEPT ![l] = y]
      /\ UNCHANGED <<scene, caller, world, decisions, judged>>
  BY DEF Unwind
<1>2. LoadShape(load[l]) /\ Sound(load[l], judged)
  BY DEF IInv, Shapes, DataInv
<1>3. Sound(y, judged)
  BY <1>1, <1>2, EndsWithout
<1> HIDE DEF y
<1>4. SourceInv' /\ memory' = memory /\ SameScene /\ AsksLess
  BY <1>1, SourceStands, Standing DEF DataInv, world, sources
<1> QED
  BY <1>1, <1>3, <1>4, LoadData DEF IInv

-----------------------------------------------------------------------------
(* A load keeps its request.                                                *)

LEMMA AssessedAsks ==
  ASSUME NEW x, LoadShape(x), NEW known, NEW late
  PROVE  Assessed(x, known, late).q = x.q
<1> DEFINE h == Hydrate(x.r, x.q, x.k, Rows(x), known)
           z == [x EXCEPT !.r = h]
           w == [z EXCEPT !.pc = "supply", !.stage = "again", !.supplied = TRUE, !.before = z.rows]
<1>1. DOMAIN z = LoadFields /\ z.q = x.q
  BY DEF LoadShape, LoadFields
<1>2. Assessed(x, known, late) \in {Finished(z), w}
  BY DEF Assessed, Concludes
<1> HIDE DEF z
<1>3. \E o : Finished(z) = [z EXCEPT !.pc = "ended", !.out = o]
  BY DEF Finished, Judged, Choice, Answer
<1>4. Finished(z).q = z.q /\ w.q = z.q
  BY <1>1, <1>3 DEF LoadFields
<1> HIDE DEF w
<1> QED
  BY <1>1, <1>2, <1>4

LEMMA RankedAsks ==
  ASSUME NEW x, LoadShape(x), NEW r, DOMAIN r = RankFields, NEW known, NEW how
  PROVE  LoadShape(Ranked(x, r, known, how)) /\ Ranked(x, r, known, how).q = x.q
<1> DEFINE n == Recall(r, Dish, known)
           m == [n EXCEPT !.fits = n.fits \cup x.r.fits]
           y == Ranked(x, r, known, how)
<1>1. y = [x EXCEPT !.r = m, !.ranked = y.ranked, !.ranks = y.ranks]
  BY DEF Ranked, LoadShape, LoadFields
<1>2. DOMAIN n = RankFields
  BY RecallWarns
<1> HIDE DEF n, y
<1>3. DOMAIN m = RankFields
  BY <1>2
<1> HIDE DEF m
<1>4. DOMAIN y = LoadFields /\ y.r = m /\ y.q = x.q
  BY <1>1 DEF LoadShape, LoadFields
<1>5. LoadShape(y) /\ y.q = x.q
  BY <1>3, <1>4 DEF LoadShape
<1> QED
  BY <1>5 DEF y

LEMMA RankingAsks ==
  ASSUME NEW x, LoadShape(x), NEW late
  PROVE  Ranking(x, late).q = x.q
<1> DEFINE fitting == {d \in x.window : Fitting(x, d) = TRUE}
           r == [Forget(x.r) EXCEPT !.fits = fitting]
           why == [Forget(x.r) EXCEPT !.warned = @ \cup {"UNAVAILABLE"}]
           known == Ranked(x, r, Knows(x), "known")
           none == Unanswered(x, "UNAVAILABLE")
           slot == [x EXCEPT !.pc = "slot"]
<1>1. DOMAIN r = RankFields /\ DOMAIN why = RankFields
  BY DEF Forget, Fresh, RankFields
<1>2. none = Ranked(x, why, Knows(x), "failed")
  BY DEF Unanswered
<1>3. Ranking(x, late) \in {slot, Assessed(x, decisions, late), Assessed(known, decisions, late),
                            Assessed(none, decisions, late)}
  BY DEF Ranking
<1>4. slot.q = x.q
  BY DEF LoadShape, LoadFields
<1> HIDE DEF r, why, none, slot
<1>5. LoadShape(known) /\ known.q = x.q /\ LoadShape(none) /\ none.q = x.q
  BY <1>1, <1>2, RankedAsks
<1> HIDE DEF known
<1> QED
  BY <1>3, <1>4, <1>5, AssessedAsks

-----------------------------------------------------------------------------
(* The steps of a load.                                                     *)

LEMMA FoundData ==
  ASSUME IInv, DataInv, NEW l \in Load, Found(l)
  PROVE  DataInv'
<1> DEFINE x == load[l]
           rows == {d \in memory \cup stored : Usable(x.q, d)}
           y == [x EXCEPT !.pc = "attach", !.rows = rows]
           z == [x EXCEPT !.pc = "ended", !.out = [end |-> "failed"]]
<1>1. /\ x.pc = "find" /\ (load' = [load EXCEPT ![l] = y] \/ load' = [load EXCEPT ![l] = z])
      /\ UNCHANGED <<scene, caller, world, decisions, judged>>
  BY DEF Found, At
<1>2. LoadShape(x) /\ Sound(x, judged)
  BY DEF IInv, Shapes, DataInv
<1>3. Sound(z, judged)
  BY <1>1, <1>2, EndsWithout
<1>4. Sound(y, judged)
  <2>1. Right(x, judged) /\ x.q.tags \in TagSets
    BY <1>1, <1>2 DEF Sound
  <2>2. rows \subseteq Dish /\ \A d \in rows : Usable(x.q, d)
    BY DEF DataInv, SourceInv
  <2> HIDE DEF rows
  <2>3. /\ y.pc = "attach" /\ y.rows = rows /\ y.q = x.q /\ y.k = x.k /\ y.r = x.r
        /\ y.shortlist = x.shortlist /\ y.window = x.window
    BY <1>2 DEF LoadShape, LoadFields
  <2>4. x.rows = {} /\ Holds(x)
    BY <1>1, <2>1 DEF Right, Timely
  <2> HIDE DEF y
  <2>5. Holds(y)
    BY <2>2, <2>3, <2>4, GrowsHolds DEF Holds
  <2>6. Right(y, judged)
    BY <2>1, <2>3, <2>5 DEF Right, Timely
  <2> QED
    BY <2>1, <2>3, <2>6 DEF Sound
<1> HIDE DEF y, z
<1>5. SourceInv' /\ memory' = memory /\ SameScene /\ AsksLess
  BY <1>1, SourceStands, Standing DEF DataInv, world, sources
<1> QED
  BY <1>1, <1>3, <1>4, <1>5, LoadData DEF IInv

\* Every supply holds recipes, one that begins among them.
LEMMA RunningSupplies ==
  ASSUME IInv, DataInv, NEW running,
         running = supply \/ \E q, focus : running = [supply EXCEPT ![Later] = Begun(q, focus, TRUE)]
  PROVE  running = [s \in Supplier |-> running[s]] /\ \A s \in Supplier : Supplies(running[s])
<1>1. supply = [s \in Supplier |-> supply[s]] /\ \A s \in Supplier : Supplies(supply[s])
  BY DEF IInv, Shapes, DataInv, SourceInv
<1>2. running = supply \/ \E b : Supplies(b) /\ running = [supply EXCEPT ![Later] = b]
  BY BegunSupplies
<1> QED
  BY <1>1, <1>2

LEMMA AttachedData ==
  ASSUME IInv, DataInv, NEW l \in Load, Attached(l)
  PROVE  DataInv'
<1> DEFINE x == load[l]
           first(z) == [z EXCEPT !.pc = "supply", !.stage = "first", !.supplied = TRUE]
<1>1. /\ x.pc = "attach" /\ LoadShape(x) /\ Sound(x, judged)
      /\ UNCHANGED <<scene, caller, sources, decisions, judged>>
  BY DEF Attached, At, IInv, Shapes, DataInv
<1>2. PICK profiles, attributes, late \in BOOLEAN : Proceeds(l, Attaches(load[l], profiles, attributes), late)
  BY DEF Attached
<1> DEFINE ld == Attaches(x, profiles, attributes)
<1>3. PICK running :
        /\ running = supply \/ \E q, focus : running = [supply EXCEPT ![Later] = Begun(q, focus, TRUE)]
        /\ \/ Rows(ld) = {} /\ GoesWith(l, first(ld), running)
           \/ GoesWith(l, Ranking(Listing(ld), late), running)
  BY <1>2 DEF Proceeds, Goes
<1>4. Right(x, judged) /\ x.q.tags \in TagSets /\ Holds(x) /\ Firm(x.r, x.q, judged)
  BY <1>1 DEF Sound, Right
<1>5. LoadShape(ld) /\ Holds(ld) /\ ld.q = x.q /\ ld.r = x.r /\ ld.stage = x.stage /\ ld.pc = "attach"
  BY <1>1, <1>4, AttachesHolds
<1> HIDE DEF ld
<1>6. Right(ld, judged)
  BY <1>4, <1>5 DEF Right, Timely
<1>7. Rows(ld) = {} => Right(first(ld), judged) /\ first(ld).q = x.q
  <2> DEFINE y == first(ld)
  <2>1. y.pc = "supply" /\ y.stage = "first" /\ y.r = ld.r /\ Same(ld, y)
    BY <1>5 DEF LoadShape, LoadFields, Same
  <2> HIDE DEF y
  <2>2. Rows(ld) = {} => Right(y, judged)
    BY <1>6, <2>1, MovesRight
  <2> QED
    BY <1>5, <2>1, <2>2 DEF y, Same
<1> HIDE DEF first
<1>8. Decides(decisions, x.q, judged)
  BY <1>4, DecidesIs DEF DataInv
<1>9. Right(Ranking(Listing(ld), late), judged) /\ Ranking(Listing(ld), late).q = x.q
  <2> DEFINE z == Listing(ld)
             y == Ranking(z, late)
  <2>1. LoadShape(z) /\ Holds(z) /\ z.q = x.q /\ z.r = x.r /\ (z.stage # "again" => Presents(z))
    BY <1>5, ListingIs
  <2> HIDE DEF z
  <2>2. Right(y, judged)
    BY <1>4, <1>8, <2>1, RankingRight
  <2>3. y.q = z.q
    BY <2>1, RankingAsks
  <2> QED
    BY <2>1, <2>2, <2>3 DEF z
<1>10. SceneInv /\ UNCHANGED <<scene, caller, stored, readings, memory>> /\ Decisive(decisions', judged')
  BY <1>1 DEF DataInv, sources
<1>11. running = [s \in Supplier |-> running[s]] /\ \A s \in Supplier : Supplies(running[s])
  BY <1>3, RunningSupplies
<1> HIDE DEF x
<1>12. ASSUME NEW y, GoesWith(l, y, running), Right(y, judged), y.q.tags \in TagSets PROVE DataInv'
  BY <1>1, <1>10, <1>11, <1>12, GoesData
<1> QED
  BY <1>3, <1>4, <1>7, <1>9, <1>12

\* A rank that has no answer.
LEMMA UnansweredData ==
  ASSUME IInv, DataInv, NEW l \in Load, load[l].pc \in {"slot", "calling"}, NEW why,
         NEW y, y = Assessed(Unanswered(load[l], why), decisions, FALSE), Goes(l, y),
         UNCHANGED <<scene, caller, sources, decisions, judged>>
  PROVE  DataInv'
<1> DEFINE x == load[l]
           z == Unanswered(x, why)
<1>1. LoadShape(x) /\ Right(x, judged) /\ Holds(x) /\ x.q.tags \in TagSets
      /\ (x.stage \in {"start", "first"} => Presents(x))
  BY DEF IInv, Shapes, DataInv, Sound, Right, Timely
<1>2. Decides(decisions, x.q, judged)
  BY <1>1, DecidesIs DEF DataInv
<1> HIDE DEF x
<1>3. Between(x, z, judged)
  BY <1>1, <1>2, UnansweredSoft
<1>4. y = Assessed(z, decisions, FALSE)
  BY DEF x
<1> HIDE DEF z
<1>5. Right(y, judged)
  BY <1>1, <1>2, <1>3, <1>4, BetweenRight
<1>6. y.q = x.q
  <2>1. LoadShape(z) /\ z.q = x.q
    BY <1>3 DEF Between, Same
  <2>2. Assessed(z, decisions, FALSE).q = z.q
    BY <2>1, AssessedAsks
  <2> QED
    BY <1>4, <2>1, <2>2
<1>7. GoesWith(l, y, supply)
  BY DEF Goes
<1>8. UNCHANGED <<scene, caller, stored, readings, memory>> /\ Decisive(decisions', judged')
  BY DEF DataInv, sources
<1>9. supply = [s \in Supplier |-> supply[s]] /\ \A s \in Supplier : Supplies(supply[s])
  BY RunningSupplies
<1> QED
  BY <1>1, <1>5, <1>6, <1>7, <1>8, <1>9, GoesData

LEMMA SlotData ==
  ASSUME IInv, DataInv, NEW l \in Load, Slot(l)
  PROVE  DataInv'
<1>1. load[l].pc = "slot" /\ UNCHANGED <<scene, caller, sources, decisions, judged>>
  BY DEF Slot, At
<1>2. CASE load' = [load EXCEPT ![l].pc = "calling"] /\ UNCHANGED supply
  <2> DEFINE y == [load[l] EXCEPT !.pc = "calling"]
  <2>1. LoadShape(load[l]) /\ Right(load[l], judged) /\ load[l].q.tags \in TagSets
    BY <1>1 DEF IInv, Shapes, DataInv, Sound
  <2>2. load' = [load EXCEPT ![l] = y]
    BY <1>2
  <2>3. y.pc = "calling" /\ y.stage = load[l].stage /\ y.r = load[l].r /\ Same(load[l], y)
    BY <2>1 DEF LoadShape, LoadFields, Same
  <2> HIDE DEF y
  <2>4. load[l].stage \in {"start", "first"} => Presents(load[l])
    BY <1>1, <2>1 DEF Right, Timely
  <2>5. Right(y, judged)
    BY <2>1, <2>3, <2>4, MovesRight
  <2>6. Sound(y, judged)
    BY <2>1, <2>3, <2>5 DEF Sound, Same
  <2>7. SourceInv' /\ memory' = memory /\ SameScene /\ AsksLess
    BY <1>1, <1>2, SourceStands, Standing DEF DataInv, sources
  <2> QED
    BY <1>1, <2>2, <2>6, <2>7, LoadData DEF IInv
<1>3. CASE Goes(l, Assessed(Unanswered(load[l], "OPEN"), decisions, FALSE))
  BY <1>1, <1>3, UnansweredData
<1> QED
  BY <1>2, <1>3 DEF Slot

LEMMA NoSlotData ==
  ASSUME IInv, DataInv, NEW l \in Load, NoSlot(l)
  PROVE  DataInv'
BY UnansweredData DEF NoSlot, At

LEMMA FailedData ==
  ASSUME IInv, DataInv, NEW l \in Load, Failed(l)
  PROVE  DataInv'
BY UnansweredData DEF Failed, At

\* What an answer settles is judged, and remembered as it was proved.
LEMMA AnsweredData ==
  ASSUME IInv, DataInv, NEW l \in Load, Answered(l)
  PROVE  DataInv'
<1> DEFINE x == load[l]
<1>1. x.pc = "calling" /\ UNCHANGED <<scene, caller, sources>>
  BY DEF Answered, At
<1>2. PICK answer, fits :
         LET r == Heard(Forget(x.r), x.q, x.k, x.window, answer, fits)
             kept == Remember(decisions, r, x.q, Range(x.shortlist), Knows(x))
             settled == Settled(r, Range(x.shortlist), Knows(x))
             known == [d \in Dish |-> IF x.q.tags # {} /\ d \in settled THEN kept[<<d, x.q.tags>>]
                                      ELSE Knows(x)[d]]
         IN /\ decisions' = kept
            /\ judged' = IF x.q.tags = {} THEN judged
                          ELSE judged \cup {<<d, x.q.tags>> : d \in x.window \ r.vain}
            /\ Goes(l, Assessed(Ranked(x, r, known, "answered"), kept, FALSE))
  BY DEF Answered
<1> DEFINE r == Heard(Forget(x.r), x.q, x.k, x.window, answer, fits)
           kept == Remember(decisions, r, x.q, Range(x.shortlist), Knows(x))
           settled == Settled(r, Range(x.shortlist), Knows(x))
           known == [d \in Dish |-> IF x.q.tags # {} /\ d \in settled THEN kept[<<d, x.q.tags>>]
                                    ELSE Knows(x)[d]]
           z == Ranked(x, r, known, "answered")
           y == Assessed(z, kept, FALSE)
           K == judged'
<1>3. LoadShape(x) /\ DOMAIN x.r = RankFields /\ Right(x, judged) /\ Holds(x) /\ x.q.tags \in TagSets /\ Read(x.k)
      /\ (x.stage \in {"start", "first"} => Presents(x))
  BY <1>1 DEF IInv, Shapes, LoadShape, DataInv, Sound, Right, Timely, Holds
<1>4. judged \subseteq K /\ (x.q.tags # {} => \A d \in x.window \ r.vain : <<d, x.q.tags>> \in K)
  BY <1>2
<1>5. /\ decisions' = kept /\ GoesWith(l, y, supply)
  BY <1>2 DEF Goes
<1>6. DOMAIN Forget(x.r) = RankFields
  BY DEF Forget, Fresh, RankFields
<1> HIDE DEF x, K
<1>7. DOMAIN r = RankFields
  BY <1>6, HeardWarns
<1>8. Soft(r, x.q, x.k, K) /\ r.done = x.window
  BY <1>4, <1>6, HeardSoft
<1> HIDE DEF r
<1>9. Decides(decisions, x.q, judged) /\ Decisive(decisions, judged)
  BY <1>3, DecidesIs DEF DataInv
<1>10. Decisive(kept, K)
  <2>1. Proves(r.ev)
    BY <1>8 DEF Soft
  <2> QED
    BY <1>4, <1>8, <1>9, <2>1, RememberIs
<1> HIDE DEF kept
<1>11. settled \subseteq Range(x.shortlist)
  BY DEF Settled
<1> HIDE DEF settled
<1>12. Knowing(known, K, x.q, x.k, Range(x.shortlist))
  BY <1>3, <1>4, <1>9, <1>10, <1>11, AnswerKnows
<1> HIDE DEF known
<1>13. r.done \subseteq Rows(x)
  BY <1>3, <1>8 DEF Holds
<1>14. Between(x, z, K)
  BY <1>3, <1>7, <1>8, <1>12, <1>13, RankedSoft
<1> HIDE DEF z
<1>15. Decides(kept, x.q, K)
  BY <1>3, <1>10, DecidesIs
<1>16. Right(y, K)
  BY <1>3, <1>14, <1>15, BetweenRight
<1>17. y.q = x.q
  BY <1>14, AssessedAsks DEF Between, Same
<1> HIDE DEF y
<1>18. UNCHANGED <<scene, caller, stored, readings, memory>>
  BY <1>1 DEF sources
<1>19. supply = [s \in Supplier |-> supply[s]] /\ \A s \in Supplier : Supplies(supply[s])
  BY RunningSupplies
<1>20. Right(y, judged') /\ y.q.tags \in TagSets /\ judged \subseteq judged' /\ Decisive(decisions', judged')
  BY <1>3, <1>4, <1>5, <1>10, <1>16, <1>17 DEF K
<1> QED
  BY <1>5, <1>18, <1>19, <1>20, GoesData

-----------------------------------------------------------------------------
(* The steps of supplies.                                                   *)

LEMMA ReplenishesData ==
  ASSUME IInv, DataInv, NEW s \in Supplier, Replenishes(s)
  PROVE  DataInv'
<1>1. UNCHANGED <<scene, caller, load, memory, decisions, judged>>
  BY DEF Replenishes, rest, Official, Searches, Looks, Late
<1>2. SourceInv'
  BY OfficialSource, SearchesSource, LooksSource, LateSource DEF Replenishes, IInv, DataInv
<1> QED
  BY <1>1, <1>2, Standing, StillData DEF DataInv

LEMMA PageReadData ==
  ASSUME IInv, DataInv, PageRead
  PROVE  DataInv'
<1>1. UNCHANGED <<scene, caller, load, memory, decisions, judged>>
  BY DEF PageRead, rest, Ended, Died
<1>2. SourceInv'
  BY PageReadSource DEF PageRead, IInv, DataInv
<1> QED
  BY <1>1, <1>2, Standing, StillData DEF DataInv

LEMMA SupplyStoppedData ==
  ASSUME IInv, DataInv, NEW l \in Load, SupplyStopped(l)
  PROVE  DataInv'
<1>1. UNCHANGED <<scene, caller, load, memory, decisions, judged>> /\ l \in Supplier
  BY LaterIs DEF SupplyStopped, rest, Stopped
<1>2. SourceInv'
  BY <1>1, StoppedSource DEF SupplyStopped, IInv, DataInv
<1> QED
  BY <1>1, <1>2, Standing, StillData DEF DataInv

LEMMA ReplenishedData ==
  ASSUME IInv, DataInv, Replenished
  PROVE  DataInv'
<1>1. PICK n \in 0 .. Len(supply[Later].found) : Saves(Later, n) /\ memory' = memory \cup Brought(Later, n).recipes
  BY DEF Replenished
<1>2. UNCHANGED <<scene, caller, load, readings, decisions, judged>> /\ Becomes(Later, Idle) /\ Later \in Supplier
  BY <1>1, LaterIs DEF Replenished, rest, Saves
<1>3. stored' \subseteq Dish /\ memory' \subseteq Dish
  BY <1>1, <1>2, BroughtIs DEF DataInv
<1>4. SourceInv'
  BY <1>2, <1>3, IdleSupplies, BecomesSource DEF IInv, DataInv, SourceInv
<1> QED
  BY <1>2, <1>3, <1>4, Standing, StillData DEF DataInv

LEMMA PageLeftData ==
  ASSUME IInv, DataInv, NEW s \in Supplier, PageLeft(s)
  PROVE  DataInv'
<1>1. UNCHANGED <<scene, caller, memory, decisions, judged>> /\ supply[s].pc # "none"
  BY DEF PageLeft, rest, Left
<1>2. SourceInv'
  BY LeftSource DEF PageLeft, IInv, DataInv
<1>3. SameScene /\ AsksLess
  BY <1>1, Standing DEF DataInv
<1>4. CASE load' = load
  BY <1>1, <1>2, <1>3, <1>4, StillData DEF DataInv
<1>5. CASE s # Later /\ load' = [load EXCEPT ![s].stage = IF Rows(load[s]) = {} THEN "first" ELSE "again"]
  <2> DEFINE how == IF Rows(load[s]) = {} THEN "first" ELSE "again"
             y == [load[s] EXCEPT !.stage = how]
  <2>1. s \in Load
    BY <1>5, LaterIs
  <2>2. load[s].pc = "supply" /\ LoadShape(load[s]) /\ Sound(load[s], judged)
    BY <1>1, <2>1 DEF IInv, LinkInv, Shapes, DataInv
  <2>3. load' = [load EXCEPT ![s] = y]
    BY <1>5
  <2>4. how \in {"first", "again"} /\ (how = "first" => Rows(load[s]) = {})
    OBVIOUS
  <2> HIDE DEF how
  <2>5. y.pc = "supply" /\ y.stage = how /\ y.r = load[s].r /\ Same(load[s], y)
    BY <2>2 DEF LoadShape, LoadFields, Same
  <2> HIDE DEF y
  <2>6. Right(load[s], judged) /\ load[s].q.tags \in TagSets
    BY <2>2 DEF Sound
  <2>7. Right(y, judged)
    BY <2>4, <2>5, <2>6, MovesRight
  <2>8. Sound(y, judged)
    BY <2>5, <2>6, <2>7 DEF Sound, Same
  <2> QED
    BY <1>1, <1>2, <1>3, <2>1, <2>3, <2>8, LoadData DEF IInv
<1> QED
  BY <1>4, <1>5 DEF PageLeft

LEMMA UnsuppliedData ==
  ASSUME IInv, DataInv, NEW s \in Supplier, Unsupplied(s)
  PROVE  DataInv'
<1>1. UNCHANGED <<scene, caller, sources, decisions, judged>> /\ supply[s].pc # "none" /\ Becomes(s, Idle)
  BY DEF Unsupplied, rest
<1>2. SourceInv' /\ memory' = memory
  BY <1>1, IdleSupplies, BecomesSource DEF IInv, DataInv, SourceInv, sources
<1>3. SameScene /\ AsksLess
  BY <1>1, Standing DEF DataInv
<1>4. CASE s = Later
  BY <1>1, <1>2, <1>3, <1>4, StillData DEF DataInv, Unsupplied
<1>5. CASE s # Later
  <2> DEFINE y == [load[s] EXCEPT !.pc = "ended", !.out = [end |-> "cancelled"]]
  <2>1. s \in Load
    BY <1>5, LaterIs
  <2>2. load[s].pc = "supply" /\ LoadShape(load[s]) /\ Sound(load[s], judged)
    BY <1>1, <2>1 DEF IInv, LinkInv, Shapes, DataInv
  <2>3. load' = [load EXCEPT ![s] = y]
    BY <1>5 DEF Unsupplied
  <2>4. Sound(y, judged)
    BY <2>2, EndsWithout
  <2> HIDE DEF y
  <2> QED
    BY <1>1, <1>2, <1>3, <2>1, <2>3, <2>4, LoadData DEF IInv
<1> QED
  BY <1>4, <1>5

LEMMA SuppliedData ==
  ASSUME IInv, DataInv, NEW l \in Load, Supplied(l)
  PROVE  DataInv'
<1> DEFINE x == load[l]
<1>1. l \in Supplier /\ x.pc = "supply" /\ LoadShape(x) /\ Right(x, judged) /\ x.q.tags \in TagSets
      /\ DOMAIN x.r = RankFields
  BY LaterIs DEF Supplied, At, IInv, Shapes, LoadShape, DataInv, Sound
<1>2. PICK n \in 0 .. Len(supply[l].found) :
         LET ld == load[l]
             got == Brought(l, n).recipes
         IN /\ Saves(l, n)
            /\ load' = [load EXCEPT ![l].pc = "attach",
                                    ![l].rows = @ \cup {d \in got : Usable(ld.q, d)},
                                    ![l].k = [profiled |-> @.profiled \ got, classed |-> @.classed \ got],
                                    ![l].r.warned = @ \cup IF Brought(l, n).ok THEN {} ELSE {"SUPPLY"}]
  BY DEF Supplied
<1> DEFINE got == Brought(l, n).recipes
           more == IF Brought(l, n).ok THEN {} ELSE {"SUPPLY"}
           r == [x.r EXCEPT !.warned = x.r.warned \cup more]
           rows == x.rows \cup {d \in got : Usable(x.q, d)}
           k == [profiled |-> x.k.profiled \ got, classed |-> x.k.classed \ got]
           y == [x EXCEPT !.pc = "attach", !.rows = rows, !.k = k, !.r = r]
<1>3. load' = [load EXCEPT ![l] = y] /\ Becomes(l, Idle) /\ UNCHANGED <<scene, caller, readings, memory, decisions, judged>>
  <2>1. load' = [load EXCEPT ![l] = y]
    BY <1>1, <1>2 DEF LoadShape, LoadFields
  <2>2. Becomes(l, Idle) /\ UNCHANGED <<caller, memory, decisions, judged>>
    BY DEF Supplied, rest
  <2>3. UNCHANGED <<scene, readings>>
    BY <1>2 DEF Saves
  <2> QED
    BY <2>1, <2>2, <2>3
<1>4. got \subseteq Dish /\ stored' \subseteq Dish
  BY <1>1, <1>2, BroughtIs DEF DataInv
<1>5. SourceInv'
  BY <1>1, <1>3, <1>4, IdleSupplies, BecomesSource DEF IInv, DataInv, SourceInv
<1> HIDE DEF got, more
<1>6. r.done = x.r.done /\ r.ev = x.r.ev /\ r.vain = x.r.vain /\ r.vague = x.r.vague
  BY <1>1 DEF RankFields
<1>7. Holds(x) /\ Firm(x.r, x.q, judged) /\ Read(x.k)
  BY <1>1 DEF Right, Holds
<1>8. Read(k)
  <2>1. k.profiled \subseteq x.k.profiled /\ k.classed \subseteq x.k.classed
    OBVIOUS
  <2> HIDE DEF k
  <2> QED
    BY <1>7, <2>1 DEF Read
<1>9. x.rows \subseteq rows /\ \A d \in rows : d \in Dish /\ Usable(x.q, d)
  BY <1>4, <1>7 DEF Holds
<1> HIDE DEF r, k, rows
<1>10. /\ y.pc = "attach" /\ y.rows = rows /\ y.k = k /\ y.r = r /\ y.q = x.q
       /\ y.shortlist = x.shortlist /\ y.window = x.window
  BY <1>1 DEF LoadShape, LoadFields
<1> HIDE DEF y
<1>11. Holds(y)
  BY <1>6, <1>7, <1>8, <1>9, <1>10, GrowsHolds
<1>12. Firm(y.r, y.q, judged)
  BY <1>6, <1>7, <1>10 DEF Firm
<1>13. Sound(y, judged)
  BY <1>1, <1>10, <1>11, <1>12 DEF Sound, Right, Timely
<1>14. SameScene /\ AsksLess
  BY <1>3, Standing DEF DataInv
<1> QED
  BY <1>3, <1>5, <1>13, <1>14, LoadData DEF IInv

-----------------------------------------------------------------------------
(* The other steps.                                                         *)

LEMMA QuietData ==
  ASSUME IInv, DataInv, Observed \/ HourPasses \/ Cooled
  PROVE  DataInv'
<1>1. UNCHANGED <<caller, load, world, decisions, judged>>
  BY DEF Observed, HourPasses, Cooled, serviceVars, supplyVars, world, sources
<1>2. SameScene
  <2>1. CASE HourPasses
    <3>1. scene' = [scene EXCEPT !.hour = @ - 1]
      BY <2>1 DEF HourPasses
    <3> QED
      BY <3>1 DEF SameScene, DataInv, SceneInv
  <2>2. CASE Observed \/ Cooled
    BY <2>2 DEF Observed, Cooled, serviceVars, supplyVars, SameScene
  <2> QED
    BY <2>1, <2>2
<1>3. SourceInv' /\ memory' \subseteq Dish /\ AsksLess
  BY <1>1, SourceStands DEF DataInv, world, sources, AsksLess
<1> QED
  BY <1>1, <1>2, <1>3, StillData

LEMMA AgesData ==
  ASSUME IInv, DataInv, Ages
  PROVE  DataInv'
<1>1. UNCHANGED <<scene, caller, load, stored, supply, readings, judged>> /\ memory' \subseteq Dish
      /\ (decisions' = decisions \/ decisions' = [p \in DOMAIN decisions |-> Unknown])
  BY DEF Ages, DataInv
<1>2. SourceInv' /\ SameScene /\ AsksLess
  BY <1>1, SourceStands, Standing DEF DataInv
<1>3. Decisive(decisions', judged')
  BY <1>1 DEF DataInv, Decisive
<1> QED
  BY <1>1, <1>2, <1>3, DataKept DEF DataInv

LEMMA InitData == Init => DataInv
<1> SUFFICES ASSUME Init PROVE DataInv
  OBVIOUS
<1>1. SceneInv
  BY SceneAssumption DEF Init, SceneInv, Request
<1>2. stored \subseteq Dish /\ memory = {} /\ readings = {}
  BY SceneAssumption DEF Init, SupplyInit
<1>3. \A s \in Supplier : supply[s] = Idle
  BY DEF Init, SupplyInit
<1>4. SourceInv
  BY <1>2, <1>3, IdleSupplies DEF SourceInv
<1>5. AskInv
  BY DEF Init, AskInv
<1>6. Decisive(decisions, judged)
  BY DEF Init, Decisive
<1>7. \A l \in Load : load[l].pc = "none"
  BY DEF Init, NewLoad
<1> QED
  BY <1>1, <1>2, <1>4, <1>5, <1>6, <1>7 DEF DataInv, Sound

LEMMA NextData == IInv /\ DataInv /\ Next => DataInv'
<1> SUFFICES ASSUME IInv, DataInv, Next PROVE DataInv'
  OBVIOUS
<1>1. CASE Observed \/ HourPasses \/ Cooled
  BY <1>1, QuietData
<1>2. CASE Replenished \/ PageRead
  BY <1>2, ReplenishedData, PageReadData
<1>3. CASE \E s \in Supplier : Replenishes(s) \/ PageLeft(s) \/ Unsupplied(s)
  BY <1>3, ReplenishesData, PageLeftData, UnsuppliedData
<1>4. CASE \E c \in Caller : Start(c) \/ Waited(c) \/ Deliver(c) \/ Unwound(c) \/ Abandon(c)
  BY <1>4, StartData, WaitedData, LeavingData, AbandonData DEF Caller
<1>5. CASE \E l \in Load : Unwind(l) \/ SupplyStopped(l) \/ Found(l) \/ Attached(l) \/ Supplied(l)
  BY <1>5, UnwindData, SupplyStoppedData, FoundData, AttachedData, SuppliedData
<1>6. CASE \E l \in Load : Slot(l) \/ NoSlot(l) \/ Answered(l) \/ Failed(l)
  BY <1>6, SlotData, NoSlotData, AnsweredData, FailedData
<1>7. CASE Ages
  BY <1>7, AgesData
<1> QED
  BY <1>1, <1>2, <1>3, <1>4, <1>5, <1>6, <1>7 DEF Next, System

LEMMA StutterData == IInv /\ DataInv /\ UNCHANGED vars => DataInv'
<1> SUFFICES ASSUME IInv, DataInv, UNCHANGED vars PROVE DataInv'
  OBVIOUS
<1>1. UNCHANGED <<scene, caller, load, stored, supply, readings, memory, decisions, judged>>
  BY DEF vars, serviceVars, supplyVars
<1>2. SourceInv' /\ SameScene /\ AsksLess /\ memory' \subseteq Dish
  BY <1>1, SourceStands, Standing DEF DataInv
<1> QED
  BY <1>1, <1>2, StillData

-----------------------------------------------------------------------------
(* The theorems about what is recommended.                                  *)

\* Every load rests on valid requests and on recipes that exist; every verdict in a
\* load and in the shared cache is one that a quote, a stored fact or an answer of
\* the model gave.
THEOREM ServiceData == Spec => []DataInv
<1>1. IInv /\ DataInv /\ [Next]_vars => DataInv'
  BY NextData, StutterData
<1> QED
  BY InitData, <1>1, ServiceInv, PTL DEF Spec

\* Whatever a recommendation shows as used of the stock is a fair share of it.
THEOREM SharedSpec == Spec => []StockIsSharedFairly
<1>1. DataInv => StockIsSharedFairly
  <2> SUFFICES ASSUME DataInv, NEW l \in Results, NEW d \in Range(load[l].out.rows)
               PROVE  Fair(load[l].q, load[l].out.usage[d])
    BY DEF StockIsSharedFairly
  <2>1. l \in Load /\ load[l].pc = "ended" /\ load[l].out.end = "result"
    BY DEF Results
  <2>2. Right(load[l], judged)
    BY <2>1 DEF DataInv, Sound
  <2>3. Shared(load[l]) /\ IsRequest(load[l].q)
    BY <2>1, <2>2 DEF Right, Holds
  <2>4. d \in Dish /\ load[l].out.usage[d] = Allocation(load[l].q, d)
    BY <2>3 DEF Shared
  <2> QED
    BY <2>3, <2>4, AllocationFair
<1> QED
  BY <1>1, ServiceData, PTL

\* The model sees every urgent food there is room for.
THEOREM UrgentSpec == Spec => []UrgentFoodIsShown
<1>1. DataInv => UrgentFoodIsShown
  BY DEF DataInv, Sound, Right, Timely, Presents, UrgentFoodIsShown
<1> QED
  BY <1>1, ServiceData, PTL

\* A recommendation for a preference is honest: what it says matches is supported,
\* what it says does not was judged, a tag that the recipe's profile overlooks left
\* out, and others come only when none matches.
THEOREM HonouredSpec == Spec => []PreferenceHonoured
<1>1. DataInv => PreferenceHonoured
  <2> SUFFICES ASSUME DataInv, NEW l \in Results
               PROVE  LET out == load[l].out
                          q == load[l].q
                          proves(d) == \A t \in q.tags \ ClassTags : Supported(d, t) /\ out.verdict[d][t] = "MATCHED"
                      IN /\ \A d \in Range(out.rows) : Usable(q, d) /\ (q.tags # {} /\ ~out.fallback => proves(d))
                         /\ \A d \in DOMAIN out.verdict : \A t \in q.tags :
                              /\ out.verdict[d][t] = "MATCHED" => Supported(d, t)
                              /\ out.verdict[d][t] = "NOT_MATCHED" /\ t \notin Overlooked(q, d) => Refuted(q, d, t)
                         /\ out.fallback /\ q.tags \ ClassTags # {} => ~ \E d \in Rows(load[l]) : proves(d)
    BY DEF PreferenceHonoured
  <2>1. l \in Load /\ load[l].pc = "ended" /\ load[l].out.end = "result"
    BY DEF Results
  <2>2. Honoured(load[l], judged)
    BY <2>1 DEF DataInv, Sound, Right
  <2>3. \A q, d, t : RefutedBy(judged, q, d, t) <=> Refuted(q, d, t)
    BY DEF RefutedBy, Refuted
  <2> QED
    BY <2>2, <2>3 DEF Honoured, ProvesAll
<1> QED
  BY <1>1, ServiceData, PTL
=============================================================================
