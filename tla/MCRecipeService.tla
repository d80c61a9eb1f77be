---------------------------- MODULE MCRecipeService ----------------------------
(***************************************************************************)
(* RecipeService on a small kitchen.  Each scene gives the requests, what    *)
(* the stores hold and how much may go wrong; together they let every        *)
(* outcome of the service happen without multiplying them all.               *)
(***************************************************************************)
EXTENDS RecipeService

MCLoad == {"a", "b", "c"}
MCDish == {"stew", "roast", "salad", "soup", "curry"}
MCTag == {"spicy", "sweet", "korean", "crisp"}
MCClassTags == {"korean"}
MCUncertainTags == {"sweet"}
MCWater == {"water"}
MCSeasoning == {"salt"}
MCSide == {"onion"}
MCMainFood == {"tofu", "pork", "ham"}
MCFamily == [n \in {"tofu", "pork", "ham", "onion", "salt", "water"} |->
                IF n \in {"pork", "ham"} THEN "pig" ELSE Unknown]
MCRank == [n \in MCDish \cup MCMainFood \cup MCSide |->
             CASE n = "stew" -> 1 [] n = "roast" -> 2 [] n = "salad" -> 3 [] n = "curry" -> 4
               [] n = "soup" -> 5 [] n = "tofu" -> 6 [] n = "pork" -> 7 [] n = "ham" -> 8 [] OTHER -> 9]

Part(n, amount) == [name |-> n, amount |-> amount, unit |-> IF amount = Unknown THEN Unknown ELSE "EA"]
Text(title, parts, complete) ==
    [title |-> title, lines |-> parts, servings |-> IF complete THEN 1 ELSE Unknown, complete |-> complete]

MCRecipe ==
    [d \in MCDish |->
       CASE d = "stew" -> Text({"tofu"}, <<Part("tofu", 2), Part("salt", Unknown)>>, FALSE)
         [] d = "roast" -> Text({}, <<Part("pork", 2), Part("onion", 1)>>, TRUE)
         [] d = "salad" -> Text({"tofu"}, <<Part("onion", 1), Part("tofu", 1), Part("tofu", 2)>>, TRUE)
         [] d = "curry" -> Text({"tofu"}, <<Part("tofu", 1)>>, TRUE)
         [] OTHER -> Text({"ham"}, <<Part("ham", 1), Part("salt", Unknown)>>, TRUE)]

MCQuotes ==
    [d \in MCDish |-> CASE d = "stew" -> {"spicy"} [] d = "salad" -> {"sweet", "spicy"} [] OTHER -> {}]
MCProfile ==
    [d \in MCDish |-> IF d = "roast" THEN [t \in {"spicy", "sweet"} |->
                                             IF t = "spicy" THEN "NOT_MATCHED" ELSE "UNKNOWN"]
                      ELSE Unknown]
MCClass ==
    [d \in MCDish |-> CASE d = "stew" -> [t \in {"korean"} |-> "MATCHED"]
                        [] d = "salad" -> [t \in {"korean"} |-> "NOT_MATCHED"] [] OTHER -> Unknown]

MCSpicyTags == {"spicy"}
MCSigns == [d \in MCDish |-> IF d = "stew" THEN {{"spicy"}, {"korean", "spicy"}} ELSE {}]
MCSupplier == MCLoad \cup {"background"}
MCPageText ==
    [d \in MCDish |-> CASE d = "soup" -> "MIXED" [] d \in {"curry", "roast"} -> "PROSE" [] OTHER -> "SECTIONS"]

Lot(id, n, days, amount) == [id |-> id, name |-> n, unit |-> "EA", amount |-> amount, days |-> days]
Kitchen == {Lot(1, "tofu", 1, 2), Lot(2, "pork", 9, 2), Lot(3, "onion", 2, 1)}
Calm == {Lot(1, "tofu", 9, 2), Lot(2, "pork", 9, 2), Lot(3, "onion", 9, 1)}

Ask(body, tags, stock) ==
    [body |-> body, tags |-> tags, stock |-> stock, strategies |-> {"USE_EXPIRING"}, limit |-> 2,
     servings |-> 1, excluded |-> {}, expired |-> FALSE, recent |-> {}]

Quiet == [request |-> [c \in MCLoad |-> None], stored |-> {"stew", "roast"}, web |-> << >>, official |-> << >>,
          approved |-> {}, ai |-> TRUE, weather |-> FALSE, hour |-> 0, faults |-> 0,
          flaky |-> {}, impatient |-> {}]
Asking(f) == [c \in MCLoad |-> IF c \in DOMAIN f THEN f[c] ELSE None]

\* Three tagless requests, two slots, a worker that keeps failing, and a caller that may give up.
Outage ==
    [Quiet EXCEPT !.request = [c \in MCLoad |-> Ask(c, {}, Calm)],
                  !.faults = 2, !.flaky = {"call"}, !.impatient = {"b"}]

\* Three callers with one key and a preference; two of them give up.
Sharing ==
    [Quiet EXCEPT !.request = [c \in MCLoad |-> Ask("x", {"spicy"}, Calm)],
                  !.impatient = {"a", "b"},
                  !.stored = {"stew"}, !.faults = 1, !.flaky = {"find", "age"}]

\* A preference that the stores cannot settle, two requests that share the
\* verdicts, and the web.
Searching ==
    [Quiet EXCEPT !.request = Asking([c \in {"a", "b"} |-> Ask(c, {"sweet"}, Calm)]),
                  !.stored = {"stew"}, !.web = <<"salad">>, !.approved = {"salad"}, !.faults = 1, !.flaky = {"call", "supply"}]

\* Attribute tags, alone and with a taste, and two tastes.
Classes ==
    {[Quiet EXCEPT !.request = Asking([c \in {"a"} |-> Ask(c, tags, Kitchen)]), !.web = <<"soup", "salad">>,
                   !.faults = 1, !.flaky = {"stores", "supply", "call"}] : tags \in {{"korean"}, {"korean", "spicy"}, {"sweet", "spicy"}}}

\* A taste together with a tag that no profile knows of.
Crisp ==
    [Quiet EXCEPT !.request = Asking([c \in {"a"} |-> Ask(c, {"spicy", "crisp"}, Kitchen)]),
                  !.faults = 1, !.flaky = {"stores", "call"}]

\* Weather, over the turn of an hour.
Rain ==
    [Quiet EXCEPT !.request = Asking([c \in {"a", "b"} |-> Ask("x", {"spicy"}, Calm)]),
                  !.weather = TRUE, !.hour = 1, !.stored = {"stew"}, !.faults = 1, !.flaky = {"weather"}]

\* An empty database: what there is comes from the web and from official sources.
Empty ==
    [Quiet EXCEPT !.request = Asking([c \in {"a", "b"} |->
                     Ask(c, {}, IF c = "a" THEN Kitchen ELSE Calm)]),
                  !.stored = {}, !.web = <<"soup", "salad">>, !.official = <<"roast">>, !.approved = {"salad"}, !.faults = 1, !.flaky = {"supply", "age"}]

\* Two loads that look at the same pages; some only the model can read, and it may
\* read one for each search.  The first caller may give up.
Pages ==
    [Quiet EXCEPT !.request = Asking([c \in {"a", "b"} |-> Ask(c, {}, Kitchen)]), !.stored = {},
                  !.web = <<"soup", "curry", "roast", "salad">>, !.approved = {"curry"}, !.impatient = {"a"},
                  !.faults = 1, !.flaky = {"supply"}]

\* One stock after the other, without the model.
Stocks ==
    {[Quiet EXCEPT !.request = Asking([c \in {"a"} |->
          [Ask(c, {}, {Lot(1, "tofu", m, n), Lot(2, "tofu", k, 2), Lot(3, "ham", 1, 4), Lot(4, "onion", 3, 2)})
              EXCEPT !.expired = late, !.limit = 3, !.servings = s]]),
                   !.stored = MCDish, !.ai = FALSE] :
        m \in {0, 2}, k \in {-1, 1, 2, 9}, n \in 1 .. 3, late \in BOOLEAN, s \in {1, 2}}

\* Seasoning in stock and a relative of the main ingredient: something to confirm.
Salty ==
    [Quiet EXCEPT !.request = Asking([c \in {"a"} |-> Ask(c, {}, {Lot(1, "salt", 9, 1), Lot(2, "pork", 9, 2)})]),
                  !.stored = {"soup"}]

MCScene == {Salty, Crisp, Outage, Sharing, Searching, Rain, Empty, Pages} \cup Classes \cup Stocks
=============================================================================
