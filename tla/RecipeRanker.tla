----------------------------- MODULE RecipeRanker -----------------------------
(***************************************************************************)
(* What a recommendation knows about the preferences of a request           *)
(* (planning.py MealRanker, service.py assess_preferences, preferences.py):  *)
(* the verdicts of the model, of the decision cache, of the stored profiles  *)
(* and attributes, and how they become one verdict per recipe.  Everything   *)
(* here runs between two awaits; RecipeService says when.                    *)
(***************************************************************************)
EXTENDS RecipeStock

CONSTANTS
    Quotes,       \* Dish -> the tags for which its text holds a valid quote
    Profile,      \* Dish -> stored verdict on each taste, or Unknown
    Class         \* Dish -> stored verdict on each attribute tag, or Unknown

\* A stored profile holds a verdict on every taste.
ASSUME TasteAssumption ==
    \A d \in Dish : Profile[d] # Unknown =>
        /\ UncertainTags \subseteq DOMAIN Profile[d]
        /\ \A t \in DOMAIN Profile[d] : Profile[d][t] \in {"MATCHED", "NOT_MATCHED", "UNKNOWN"}

\* A request q, the stored facts k read for its rows, and a ranker r:
\*   done   evaluated_identities         ev    preference_tag_evidence
\*   vague  rejected_preference_tags     vain  rejected_preference_identities
\*   fits   rows whose context factors are verified
\*   warned the warnings that _load() looks at
Nothing == [d \in Dish |-> {}]
Fresh == [done |-> {}, ev |-> Nothing, vague |-> Nothing, vain |-> {}, fits |-> {}, warned |-> {}]
Forget(r) == [Fresh EXCEPT !.warned = r.warned]

\* What the stored profile says about the tags of a request.
Said(q, k, d) ==
    IF d \in k.profiled THEN [t \in DOMAIN Profile[d] \cap q.tags |-> Profile[d][t]] ELSE << >>
Claimed(said, s) == {t \in DOMAIN said : said[t] = s}

\* uncertain_unmatched_tags(): tastes that depend on amounts the source lacks.
Uncertain(q, d) == IF Recipe[d].complete THEN {} ELSE q.tags \cap UncertainTags

\* PreferenceDecisionCache.get()
Decided(decisions, q, d) == decisions[<<d, q.tags>>]

\* pack_rank_input(): as many representative rows as the input holds.
Window(q, shortlist, fit) == Range(SubSeq(Representative(q, shortlist, Len(shortlist)), 1, Least(fit, Len(shortlist))))

\* rank(): what is known of a row before asking, or Unknown.
Known(q, k, d, decisions) ==
    IF q.tags # {} /\ d \in k.profiled /\ q.tags \subseteq DOMAIN Profile[d]
    THEN Claimed(Said(q, k, d), "MATCHED")
    ELSE IF q.tags # {} THEN Decided(decisions, q, d) ELSE Unknown

\* rank(), after any outcome: what was known replaces what was heard.
Recall(r, rows, known) ==
    LET sure == {d \in rows : known[d] # Unknown} IN
    [r EXCEPT !.done = @ \cup sure, !.vain = @ \ sure,
              !.vague = [d \in Dish |-> IF d \in sure THEN {} ELSE @[d]],
              !.ev = [d \in Dish |-> IF d \in sure THEN known[d] ELSE @[d]]]

\* recipe_reasoner.py, RANK: a valid answer orders all candidates and holds quotes
\* for some of them, each for tags that were asked for.  The worker keeps the first
\* quote for each row and tag; a quote may be apt for the tag or not.
Answers(asked, tags) == [asked -> [tags -> {"APT", "LOOSE", "OPEN"}]]
Held(answer, d, ends) == {t \in DOMAIN answer[d] : answer[d][t] \in ends}

\* What becomes of a call that fails: an unreachable or busy worker counts against
\* it, an answer that breaks these rules, or comes too short, does not.
CallEnds == {"UNREACHABLE", "BUSY", "INVALID"}
Transient(end) == end # "INVALID"

\* _rank(), a valid answer: the rows with the tags it proves, and the rows it finds
\* fit for the situation.  A quote that does not prove its tag leaves the tag open;
\* without any the whole row stays open.
Heard(r, q, k, window, answer, fits) ==
    LET d0 == {d \in DOMAIN answer : Held(answer, d, {"APT", "LOOSE"}) # {}}
        proof(d) == Held(answer, d, {"APT"}) \cap Quotes[d]
        vain == {d \in d0 : proof(d) = {}}
        ev == [d \in Dish |-> IF d \in d0 THEN proof(d) ELSE {}]
        bad == [d \in Dish |-> IF d \in d0 THEN Held(answer, d, {"APT", "LOOSE"}) \ proof(d) ELSE {}]
        open(d) == IF d \in window \ k.profiled THEN Uncertain(q, d) \ ev[d] ELSE {}
    IN [r EXCEPT !.done = window, !.ev = ev, !.vain = vain, !.fits = fits,
                 !.vague = [d \in Dish |-> bad[d] \cup open(d)],
                 !.warned = @ \cup IF vain # {} \/ bad # Nothing THEN {"REJECTED"} ELSE {}]

\* Mutant form: a verdict that is open is remembered as well.
SettledAlways(r, rows, known) == {d \in rows \cap r.done : known[d] = Unknown}

\* The rows whose verdict is worth remembering for this set of tags.
Settled(r, rows, known) ==
    {d \in rows \cap r.done : known[d] = Unknown /\ d \notin r.vain /\ r.vague[d] = {}}

\* PreferenceDecisionCache.remember(): the first verdict on a row stands.
Remember(decisions, r, q, rows, known) ==
    [p \in DOMAIN decisions |->
        IF q.tags # {} /\ p[2] = q.tags /\ p[1] \in Settled(r, rows, known) /\ decisions[p] = Unknown
        THEN r.ev[p[1]] ELSE decisions[p]]

\* hydrate(): verdicts of the cache for rows not evaluated, then the profiles.
Hydrate(r, q, k, rows, decisions) ==
    LET found == {d \in rows \ r.done : Decided(decisions, q, d) # Unknown}
        ev0 == [d \in Dish |-> IF d \in found THEN Decided(decisions, q, d) ELSE r.ev[d]]
        said(d) == IF d \in rows THEN Said(q, k, d) ELSE << >>
    IN IF q.tags = {} THEN r
       ELSE [r EXCEPT
               !.done = @ \cup found \cup {d \in rows : DOMAIN said(d) # {}},
               !.ev = [d \in Dish |-> (ev0[d] \ DOMAIN said(d)) \cup Claimed(said(d), "MATCHED")],
               !.vague = [d \in Dish |->
                   IF d \in rows \ k.profiled /\ d \in r.done \cup found
                   THEN @[d] \cup (Uncertain(q, d) \ ev0[d])
                   ELSE (@[d] \ DOMAIN said(d)) \cup Claimed(said(d), "UNKNOWN")],
               !.vain = @ \ {d \in rows \cap k.profiled : q.tags \subseteq DOMAIN said(d)}]

\* assess_preferences(): the verdict on one tag of one row.
Verdict(r, q, k, d, t) ==
    IF t \in ClassTags THEN IF d \in k.classed THEN Class[d][t] ELSE "UNKNOWN"
    ELSE IF t \in DOMAIN Said(q, k, d) THEN Profile[d][t]
    ELSE IF t \in r.ev[d] THEN "MATCHED"
    ELSE IF d \in r.done \ r.vain /\ t \notin r.vague[d] THEN "NOT_MATCHED" ELSE "UNKNOWN"

Verdicts(r, q, k, d) == [t \in q.tags |-> Verdict(r, q, k, d, t)]

\* Mutant form: one matching tag is enough.
CombineAny(v) == IF \E t \in DOMAIN v : v[t] = "MATCHED" THEN "MATCHED" ELSE "UNKNOWN"

\* combine_preference_status(): every tag that a quote can prove must match; tags
\* of attributes alone need a match and no mismatch.
Combine(v) ==
    LET required == {v[t] : t \in DOMAIN v \ ClassTags}
        optional == {v[t] : t \in DOMAIN v \cap ClassTags}
    IN IF required # {}
       THEN IF "NOT_MATCHED" \in required THEN "NOT_MATCHED"
            ELSE IF required = {"MATCHED"} THEN "MATCHED" ELSE "UNKNOWN"
       ELSE IF "MATCHED" \in optional /\ "NOT_MATCHED" \notin optional THEN "MATCHED"
            ELSE IF optional = {"NOT_MATCHED"} THEN "NOT_MATCHED" ELSE "UNKNOWN"

\* preference_found()'s rows
Matched(r, q, k, rows) == {d \in rows : Combine(Verdicts(r, q, k, d)) = "MATCHED"}
=============================================================================
