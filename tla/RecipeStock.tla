----------------------------- MODULE RecipeStock -----------------------------
(***************************************************************************)
(* What the recipe service computes from a stock and a recipe without       *)
(* asking anybody: which ingredients are used, urgent and missing, how the  *)
(* stock covers the amounts, which recipes are candidates, and the final    *)
(* choice among them.  Names are canonical; a recipe's text is what the     *)
(* rules tell apart in it.                                                  *)
(***************************************************************************)
EXTENDS Naturals, Integers, FiniteSets, SequencesExt

CONSTANTS
    Dish,                               \* recipes, database and web
    Tag,                                \* preferences a request can name
    Recipe,                             \* Dish -> what its source says
    Rank,                               \* Dish -> place in the order of identities
    Water, Seasoning, Side, MainFood,   \* the reviewed names of suitability.py
    Family,                             \* name -> family of related foods, or Unknown
    ClassTags,                          \* tags that only attributes decide
    UncertainTags,                      \* tastes that need complete amounts
    SpicyTags,                          \* tags that the rules look for themselves
    Signs,                              \* Dish -> the sets of tags an ingredient of it proves
    Unknown                             \* what nobody knows or has asked yet

\* Names and identities are compared as strings, no two of which are the same.
ASSUME RankAssumption ==
    /\ Dish \cup MainFood \cup UNION {Recipe[d].title : d \in Dish} \subseteq DOMAIN Rank
    /\ \A x, y \in DOMAIN Rank : Rank[x] \in Int /\ (Rank[x] = Rank[y] => x = y)

\* What a snapshot of a recipe and its ingredients must be to be stored.
ASSUME RecipeAssumption ==
    /\ IsFiniteSet(Dish)
    /\ \A d \in Dish :
         /\ Recipe[d].servings = Unknown \/ Recipe[d].servings \in Nat \ {0}
         /\ Recipe[d].lines \in Seq(Range(Recipe[d].lines))
         /\ \A l \in Range(Recipe[d].lines) : l.amount = Unknown \/ l.amount \in Nat \ {0}

\* What a request must be to be accepted.
IsRequest(q) ==
    /\ IsFiniteSet(q.tags) /\ IsFiniteSet(q.stock)
    /\ \A i \in q.stock : i.id \in Nat \ {0} /\ i.days \in Int /\ i.amount \in Nat \ {0}
    /\ \A i, j \in q.stock : i.id = j.id => i = j
    /\ q.limit \in Nat \ {0} /\ q.servings \in Nat \ {0}
    /\ "USE_EXPIRING" \in q.strategies

Urgent == 0 .. 3

-----------------------------------------------------------------------------
(* Sorting: keys are tuples, smaller is better, position by position.       *)

Before(a, b) == \E i \in DOMAIN a : a[i] < b[i] /\ \A j \in 1 .. i - 1 : a[j] = b[j]

Best(S, key) == CHOOSE d \in S : \A e \in S \ {d} : Before(key[d], key[e])

\* The elements of a set by their keys, no two of which are equal.
Sorted(S, key) ==
    FoldLeft(LAMBDA done, n : Append(done, Best(S \ Range(done), key)), << >>, [n \in 1 .. Cardinality(S) |-> n])

\* The place of an element in a list that holds it once, and what is left of such a list.
Place(rows, d) == CHOOSE i \in DOMAIN rows : rows[i] = d
Kept(rows, S) == Sorted(Range(rows) \cap S, [d \in Range(rows) |-> <<Place(rows, d)>>])

Least(a, b) == IF a < b THEN a ELSE b

-----------------------------------------------------------------------------
(* What is there to cook with.                                               *)

\* ingredient_role(): the title goes before the reviewed names.
Role(d, n) ==
    CASE n \in Water -> "WATER"
      [] n \notin Water /\ n \in Recipe[d].title -> "MAIN"
      [] n \in Seasoning \ Recipe[d].title -> "SEASONING"
      [] n \in Side \ Recipe[d].title -> "SIDE"
      [] n \in MainFood \ Recipe[d].title -> "MAIN"
      [] OTHER -> "UNKNOWN"

LineNames(d) == {l.name : l \in Range(Recipe[d].lines)}

\* What may be used: not excluded, no water, and not past its date unless asked.
Stock(q) ==
    {i \in q.stock : i.name \notin q.excluded \cup Water /\ (q.expired \/ i.days >= 0)}
Names(q) == {i.name : i \in Stock(q)}
Expiring(q) == {i.name : i \in {j \in Stock(q) : j.days \in Urgent}}
Pantry(q) == Seasoning \ q.excluded

\* allowed(): an ingredient in stock, none of them excluded.
Usable(q, d) ==
    LineNames(d) \cap Names(q) # {} /\ LineNames(d) \cap q.excluded = {}

-----------------------------------------------------------------------------
(* assess_quantities(): a virtual allocation, soonest to expire first.      *)

Dated(S) == Sorted(S, [i \in S |-> <<i.days, i.id>>])
Lots(q, n) == Dated({i \in Stock(q) : i.name = n})

\* Mutant form: a lot that an earlier line has used is counted in full again.
DrawAgain(need, acc, i) ==
    LET amount == Least(need - acc.got, i.amount) IN
    [acc EXCEPT !.got = @ + amount, !.left[i.id] = i.amount - amount, !.linked = @ \cup {i.id}]

\* One line takes what it still needs from the next lot.
Draw(need, acc, i) ==
    LET amount == Least(need - acc.got, acc.left[i.id]) IN
    [acc EXCEPT !.got = @ + amount, !.left[i.id] = @ - amount,
                !.linked = @ \cup IF amount > 0 \/ acc.got + amount < need THEN {i.id} ELSE {}]

\* The amount a line asks for, scaled from the source's servings (one if unknown).
Needed(q, d, l) ==
    (l.amount * q.servings) \div (IF Recipe[d].servings = Unknown THEN 1 ELSE Recipe[d].servings)

Line(q, d, acc, l) ==
    LET lots == Lots(q, l.name)
        fitting == Kept(lots, {i \in Range(lots) : i.unit = l.unit})
        known == l.amount # Unknown /\ l.unit # Unknown
        need == Needed(q, d, l)
        took == FoldLeft(LAMBDA a, i : Draw(need, a, i), [acc EXCEPT !.got = 0], fitting)
        drawn == IF known THEN took ELSE [acc EXCEPT !.got = 0]
        status == IF l.name \in Pantry(q) \cup Water /\ lots = << >> THEN "PANTRY_UNVERIFIED"
                  ELSE IF ~known THEN "UNKNOWN_AMOUNT"
                  ELSE IF fitting = << >> /\ lots # << >> THEN "UNIT_MISMATCH"
                  ELSE IF drawn.got >= need THEN "SUFFICIENT" ELSE "SHORTAGE"
        doubt == IF status \in {"UNKNOWN_AMOUNT", "UNIT_MISMATCH"} THEN Range(lots) ELSE {}
    IN [drawn EXCEPT !.rows = Append(@, [name |-> l.name, status |-> status, got |-> drawn.got,
                                            need |-> IF known THEN need ELSE 0]),
                     !.unresolved = @ \cup {i.id : i \in doubt},
                     !.linked = @ \cup {i.id : i \in doubt}]

Allocation(q, d) ==
    FoldLeft(LAMBDA acc, l : Line(q, d, acc, l),
             [left |-> [n \in {i.id : i \in Stock(q)} |-> (CHOOSE i \in Stock(q) : i.id = n).amount],
              got |-> 0, rows |-> << >>, unresolved |-> {}, linked |-> {}],
             Recipe[d].lines)

Quantity(alloc) ==
    LET food == {r.status : r \in Range(alloc.rows)} \ {"PANTRY_UNVERIFIED"} IN
    CASE "SHORTAGE" \in food -> "SHORTAGE"
      [] food = {"SUFFICIENT"} -> "SUFFICIENT"
      [] OTHER -> "NEEDS_CHECK"

-----------------------------------------------------------------------------
(* score_candidate() and assess_suitability(): the facts of one recipe.     *)

Used(q, d) == LineNames(d) \cap Names(q)
Missing(q, d) == LineNames(d) \ (Used(q, d) \cup Pantry(q) \cup Water)
Related(q, n) == \E m \in Names(q) : Family[n] # Unknown /\ Family[m] = Family[n] /\ m # n
RelatedMain(q, d) == {n \in Missing(q, d) : Role(d, n) = "MAIN" /\ Related(q, n)}
UrgentUse(q, d) == Used(q, d) \cap Expiring(q)
UrgentMain(q, d) == {n \in UrgentUse(q, d) : Role(d, n) = "MAIN"}

\* Complete recipes first; one that lacks a main ingredient or enough of it last.
Tier(q, d, alloc) ==
    LET rows == Range(alloc.rows) IN
    CASE \/ \E n \in Missing(q, d) : Role(d, n) \in {"MAIN", "UNKNOWN"}
         \/ \E r \in rows : r.status = "SHORTAGE" /\ Role(d, r.name) = "MAIN" -> 3
      [] OTHER -> IF Missing(q, d) # {} THEN 2
                  ELSE IF Quantity(alloc) = "SUFFICIENT" THEN 0 ELSE 1

HasFood(q, d) == \E n \in Used(q, d) : Role(d, n) \notin {"WATER", "SEASONING"}

\* build_baseline(): the candidates, and the ones that need a confirmation only.
Baseline(q, S) == {d \in S : HasFood(q, d)}
Confirmable(q, S) == {d \in S : ~HasFood(q, d) /\ RelatedMain(q, d) # {}}

\* uncovered(): expiring foods that none of the rows uses as a main ingredient.
Uncovered(q, S) == Expiring(q) \ UNION {UrgentMain(q, d) : d \in S}

-----------------------------------------------------------------------------
(* selection.py: one order for everything, and a greedy choice along it.    *)

\* The share of the urgent stock a recipe certainly uses, in percent, or Unknown.
Consumption(q, d, a) ==
    LET urgent == {i \in Stock(q) : i.name \in UrgentUse(q, d) /\ i.days \in Urgent}
        real == {i \in urgent : i.amount > 0}
        groups == {<<i.name, i.unit>> : i \in real}
        In(g) == {i \in real : <<i.name, i.unit>> = g}
        spent(g) == SumFunction([i \in In(g) |-> i.amount - a.left[i.id]])
        all(g) == SumFunction([i \in In(g) |-> i.amount])
    IN IF groups = {} \/ \E i \in urgent : i.id \in a.unresolved THEN Unknown
       ELSE SumFunction([g \in groups |-> (100 * spent(g)) \div all(g)]) \div Cardinality(groups)

UrgentRole(q, d) ==
    CASE UrgentUse(q, d) \cap Recipe[d].title # {} -> 0
      [] UrgentMain(q, d) \ Recipe[d].title # {} /\ UrgentUse(q, d) \cap Recipe[d].title = {} -> 1
      [] OTHER -> IF UrgentUse(q, d) # {} THEN 2 ELSE 3

\* preference_priority(): v holds the verdict on each tag, m the verdict on all.
TagCount(v, s) == Cardinality({t \in DOMAIN v : v[t] = s})
Preference(q, v, m, fallback) ==
    CASE fallback -> <<0 - TagCount(v, "MATCHED"), TagCount(v, "NOT_MATCHED"), 0>>
      [] ~fallback /\ q.tags = {} -> <<0, 0, 0>>
      [] OTHER -> <<CASE m = "MATCHED" -> 0 [] m = "UNKNOWN" -> 1 [] OTHER -> 2,
                    0 - TagCount(v, "MATCHED"), TagCount(v, "NOT_MATCHED")>>

\* candidate_priority(): smaller is better, position by position.  covered holds
\* the urgent foods of the rows chosen so far, or is Unknown before the choice.
PriorityWith(q, d, pref, fits, covered, alloc, spent) ==
    LET use == "USE_EXPIRING" \in q.strategies
        gain(S) == IF covered = Unknown THEN 0 ELSE 0 - Cardinality(S \ covered)
        focus == IF UrgentMain(q, d) # {} THEN UrgentMain(q, d) ELSE UrgentUse(q, d)
        days == {i.days : i \in {j \in Stock(q) : j.name \in focus /\ j.days \in Urgent}}
    IN <<pref[1], IF use /\ UrgentUse(q, d) = {} THEN 1 ELSE 0, pref[2], pref[3], UrgentRole(q, d),
         gain(UrgentMain(q, d)), gain(UrgentUse(q, d)), IF fits THEN 0 ELSE 1,
         0 - Cardinality(UrgentMain(q, d)), 0 - Cardinality(UrgentUse(q, d)),
         IF spent = Unknown THEN 1 ELSE 0, IF spent = Unknown THEN 0 ELSE 0 - spent,
         IF Cardinality(Missing(q, d)) <= 5 THEN 0 ELSE 1, Cardinality(Missing(q, d)),
         IF Quantity(alloc) = "SUFFICIENT" THEN 0
         ELSE IF Recipe[d].servings # Unknown THEN 1 ELSE 2,
         Tier(q, d, alloc),
         IF use /\ days # {} THEN CHOOSE n \in days : \A k \in days : n <= k ELSE 0,
         IF use /\ days # {} THEN 0 - Cardinality(UrgentMain(q, d)) ELSE 0>>
PriorityAfter(q, d, pref, fits, covered, alloc) ==
    PriorityWith(q, d, pref, fits, covered, alloc, Consumption(q, d, alloc))
Priority(q, d, pref, fits, covered) == PriorityAfter(q, d, pref, fits, covered, Allocation(q, d))

NoPreference == <<0, 0, 0>>

\* build_baseline() and vary_baseline(): the candidates in order.
Ordered(q, S) == Sorted(S, [d \in S |-> Priority(q, d, NoPreference, FALSE, Unknown) \o <<Rank[d]>>])

Signature(d) == {n \in LineNames(d) : Role(d, n) = "MAIN"}

\* Recent dishes, main ingredients already chosen, then identity break a tie.
Tie(q, d, chosen) ==
    <<IF d \in q.recent THEN 1 ELSE 0,
      IF Signature(d) # {} /\ \E c \in chosen : Signature(c) = Signature(d) THEN 1 ELSE 0,
      Rank[d]>>

\* select_recommendations() over the eligible rows S; pref[d] is the verdict on a
\* row and fits says which rows suit the situation.
Selected(q, S, pref, fits) ==
    LET covered(done) == IF "USE_EXPIRING" \in q.strategies
                         THEN UNION {UrgentUse(q, d) : d \in Range(done)} ELSE Unknown
        key(done) == [d \in S \ Range(done) |->
                        Priority(q, d, pref[d], d \in fits, covered(done)) \o Tie(q, d, Range(done))]
    IN FoldLeft(LAMBDA done, n : IF S \subseteq Range(done) THEN done
                                 ELSE Append(done, Best(S \ Range(done), key(done))),
                << >>, [n \in 1 .. q.limit |-> n])

-----------------------------------------------------------------------------
(* representative_candidates(): the rows the model gets to see.  Each urgent *)
(* food gets a row before any food gets a second one.                        *)

With(q, rows, n) == Kept(rows, {d \in Range(rows) : n \in UrgentMain(q, d)})
Without(rows, S) == Kept(rows, Range(rows) \ S)
Count(q, rows, n) == Len(With(q, rows, n))
Foods(q, rows) == UNION {UrgentMain(q, d) : d \in Range(rows)}

\* Foods from the rarest to the most common one among rows.
Rarest(q, rows) ==
    Sorted(Foods(q, rows), [n \in Foods(q, rows) |-> <<Count(q, rows, n), Rank[n]>>])

\* A row that covers the rarest uncovered food, and most of the rare ones; 60 is
\* a common denominator of the counts.
Shows(q, acc, d) ==
    [out |-> Append(acc.out, d), left |-> Without(acc.left, {d}), covered |-> acc.covered \cup UrgentMain(q, d)]
Rarity(q, rows, acc, S) ==
    [d \in S |-> <<0 - SumFunction([n \in UrgentMain(q, d) \ acc.covered |-> 60 \div Count(q, rows, n)]),
                   Place(rows, d)>>]
Cover(q, rows, limit, acc) ==
    LET open == Foods(q, acc.left) \ acc.covered
        rare == Kept(Rarest(q, rows), open)[1]
        best(S) == Best(S, Rarity(q, rows, acc, S))
    IN IF open = {} \/ Len(acc.out) >= limit THEN acc
       ELSE Shows(q, acc, best(Range(With(q, acc.left, rare))))

\* What room is left goes to foods all of whose rows fit, then to the others.
Finish(q, rows, limit, acc) ==
    LET all(a, n) ==
          LET more == With(q, a.left, n) IN
          IF Len(more) <= limit - Len(a.out)
          THEN [a EXCEPT !.out = @ \o more, !.left = Without(@, Range(more))] ELSE a
        filled == FoldLeft(LAMBDA a, n : all(a, n), acc, Rarest(q, rows))
    IN SubSeq(filled.out \o filled.left, 1, Least(limit, Len(filled.out \o filled.left)))

\* Mutant form: the window is the head of the list.
FirstRows(q, rows, limit) == SubSeq(rows, 1, Least(limit, Len(rows)))

Representative(q, rows, limit) ==
    LET chosen == FoldLeft(LAMBDA acc, n : Cover(q, rows, limit, acc),
                           [out |-> << >>, left |-> rows, covered |-> {}], Rarest(q, rows))
    IN Finish(q, rows, limit, chosen)

\* explicit_preference_signal(): what the rules can tell of a preference.
Signal(q, d) == q.tags \cap SpicyTags # {} /\ q.tags \in Signs[d]

\* preference_shortlist(), or vary_baseline() and its window without preferences.
Shortlist(q, rows, web, limit) ==
    LET key == [d \in Range(rows) |->
                  <<IF "USE_EXPIRING" \in q.strategies /\ UrgentUse(q, d) = {} THEN 1 ELSE 0,
                    IF d \in web THEN 0 ELSE 1, IF Signal(q, d) THEN 0 ELSE 1, Place(rows, d)>>]
    IN Representative(q, IF q.tags # {} THEN Sorted(Range(rows), key) ELSE rows, limit)

-----------------------------------------------------------------------------
(* Properties of the two computations *)

\* No stock is used twice or over what there is, no line takes more than it needs,
\* and a lot is touched only when every lot of that food that expires sooner is used up.
Fair(q, a) ==
    LET used(i) == i.amount - a.left[i.id]
        taken(n) == SumFunction([k \in DOMAIN a.rows |-> IF a.rows[k].name = n THEN a.rows[k].got ELSE 0])
    IN /\ \A i \in Stock(q) : used(i) \in 0 .. i.amount
       /\ \A k \in DOMAIN a.rows : a.rows[k].got \in 0 .. a.rows[k].need
       /\ \A n \in Names(q) : taken(n) = SumFunction([i \in {j \in Stock(q) : j.name = n} |-> used(i)])
       /\ \A i, j \in Stock(q) :
             i.name = j.name /\ i.unit = j.unit /\ i.days < j.days /\ used(j) > 0 => a.left[i.id] = 0

\* A window with room for as many rows as there are urgent foods shows one for each,
\* and no window shows a row twice or has room to spare.
Represented(q, rows, shown, limit) ==
    LET foods == UNION {UrgentMain(q, d) : d \in rows} IN
    /\ IsInjective(shown) /\ Len(shown) = Least(limit, Cardinality(rows))
    /\ Cardinality(foods) <= limit => Foods(q, shown) = foods
=============================================================================
