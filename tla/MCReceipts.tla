------------------------------ MODULE MCReceipts ------------------------------
(* Receipts and photos small enough to be read by eye, and small stories of   *)
(* corrections, for TLC.                                                      *)
EXTENDS Receipts

MCKnownFood == [w \in {"milk", "apple", "pork", "cake", "noodle"} |->
    CASE w = "milk" -> "DAIRY" [] w = "apple" -> "FRUIT" [] w = "pork" -> "MEAT"
      [] w = "cake" -> "PROCESSED_FOOD" [] OTHER -> "GRAINS_NOODLE"]
MCCorrection == [w \in {"mlik"} |-> "milk"]
MCShelfLife == {[word |-> "milk", storage |-> "REFRIGERATED", fresh |-> FALSE],
                [word |-> "pork", storage |-> "FROZEN", fresh |-> TRUE]}
MCCatalog ==
    {[text |-> <<"kimbap">>, name |-> <<"kimbap", "roll">>, category |-> "PROCESSED_FOOD", via |-> "exact", similarity |-> 100],
     [text |-> <<"choco", "pie">>, name |-> <<"choco", "biscuit">>, category |-> "PROCESSED_FOOD", via |-> "fuzzy", similarity |-> 60],
     [text |-> <<"paid", "slip">>, name |-> <<"salt">>, category |-> "SEASONING", via |-> "fuzzy", similarity |-> 50]}

-----------------------------------------------------------------------------
(* Lines and photos.                                                        *)

Word(w, x, y) == [Text(<< >>, 95) EXCEPT !.boxed = TRUE, !.x = x, !.y = y, !.h = 20, !.left = Most(0, x - 60), !.word = w]
Digits(n, x, y) == [Word("", x, y) EXCEPT !.int = n]
Name(name, y) == [Word("", 160, y) EXCEPT !.left = 40, !.name = name]
Ordered(L) ==
    LET s == SortSeq(L, LAMBDA a, b : a.y < b.y \/ (a.y = b.y /\ a.x < b.x)) IN [i \in DOMAIN s |-> [s[i] EXCEPT !.no = i]]

NoVision == [type |-> "OTHER", conf |-> 90, items |-> << >>, count |-> None]
Judges == [w \in {"gim"} |-> "PROCESSED_FOOD"]
Page(hint, lines, printed) ==
    [hint |-> hint, fridge |-> 1, input |-> None, primary |-> Ordered(lines), ink |-> << >>, height |-> 1000,
     portrait |-> TRUE, boxes |-> << >>, goods |-> << >>, judges |-> Judges, stray |-> << >>,
     vision |-> NoVision, printed |-> printed]
Product(names, quantity, kept) == [names |-> names, quantity |-> quantity, kept |-> kept]

Alone(photo) == [photos |-> [a \in {"a1"} |-> photo], requests |-> [c \in {} |-> None], taught |-> {}, faulty |-> FALSE]

\* A receipt line: what was bought and whether the quantity can be read.
Bought(name, unit, quantity, size) ==
    [name |-> name, unit |-> unit, quantity |-> quantity, size |-> size, seen |-> TRUE]
Goods == <<Bought(<<"milk">>, 1200, 3, 0), Bought(<<"seoul", "gim">>, 2500, 2, 0),
           Bought(<<"kimbap">>, 3100, 1, 0), Bought(<<"apple">>, 1700, 4, 500)>>
Household == Bought(<<"tissue">>, 4300, 1, 0)

-----------------------------------------------------------------------------
(* Numbered receipts: the numbers stand below the name, the photo is tilted. *)
(* The first reading misses, misreads or cuts some names (how).             *)

Tilted(tilt, l) == [l EXCEPT !.y = @ + (tilt * l.x) \div 1000]
Row(i, g, tilt, below) ==
    LET y == 120 + 80 * i
        unit == Digits(g.unit, 630, y + below)
        quantity == Digits(g.quantity, 760, y + below)
    IN [line |-> [Tilted(tilt, Name(g.name, y)) EXCEPT !.num = i, !.digits = 3, !.size = g.size],
        numbers |-> [k \in 1 .. 3 |-> Tilted(tilt, <<unit, quantity, Digits(g.unit * g.quantity, 910, y + below)>>[k])]]
Misreadings == {"missing", "dim", "bare"}
FirstReading(l, how) ==
    CASE how = "missing" -> << >>
      [] how = "dim" -> <<[l EXCEPT !.name = <<"blur">>, !.conf = 60]>>
      [] how = "bare" -> <<[l EXCEPT !.name = <<"P">>]>>
NumberedReceipt(goods, tilt, missed, how, count) ==
    LET n == Len(goods)
        table == [i \in 1 .. n |-> Row(i, goods[i], tilt, IF n = 1 THEN 24 ELSE 40)]
        foot == <<Word("total", 200, 220 + 80 * n), [Word("count", 200, 260 + 80 * n) EXCEPT !.pieces = IF count THEN n ELSE Nothing]>>
        lines == FlattenSeq([i \in 1 .. n |->
                     table[i].numbers \o IF i \in missed THEN FirstReading(table[i].line, how) ELSE <<table[i].line>>])
        read == 1 .. n \ missed
        Kept(i) == \/ i \notin missed
                   \/ how # "missing"
                   \/ Cardinality(read) >= 2 /\ (\E j \in read : j < i) /\ (count \/ \E j \in read : i < j)
    IN [Page("RECEIPT", <<Word("date", 200, 60)>> \o lines \o foot,
             SelectSeq([i \in 1 .. n |-> Product({goods[i].name}, goods[i].quantity, Kept(i))],
                       LAMBDA p : \A name \in p.names : ~IsNonFood(name)))
        EXCEPT !.ink = Ordered([i \in 1 .. n |-> table[i].line])]

NumberedScenes ==
    {Alone(NumberedReceipt(Goods, tilt, missed, how, count)) :
        tilt \in {-15, 0, 15}, missed \in {{1}, {2}, {4}, {2, 3}}, how \in Misreadings, count \in BOOLEAN}
    \cup {Alone(NumberedReceipt(goods, tilt, {}, "dim", FALSE)) :
        tilt \in {-15, 15}, goods \in {Goods, <<Goods[2], Household>>, <<Household, Goods[4], Goods[3]>>}}
    \* A single row is as high as two lines: its numbers stand close below, and upright.
    \cup {Alone(NumberedReceipt(<<Goods[i]>>, tilt, {}, "dim", FALSE)) : i \in 1 .. 4, tilt \in {-15, 0}}

\* The same receipts with headed columns further left, a number read with a mark
\* behind it, points and a card among the lines, answers of the model for lines it
\* was not asked about, misread and similar names, and a count of its own line.
Changed(photo, F(_)) == [photo EXCEPT !.primary = [i \in DOMAIN @ |-> F(@[i])]]
Headed(photo) ==
    LET p == Changed(photo, LAMBDA l : IF l.int = Nothing THEN l ELSE [l EXCEPT !.x = @ - 120, !.left = @ - 120]) IN
    [p EXCEPT !.primary = Ordered(@ \o <<Word("unit", 510, 90), Word("quantity", 640, 90), Word("amount", 790, 90)>>)]
Marked(photo, n) == Changed(photo, LAMBDA l : IF l.num = n THEN [l EXCEPT !.mark = TRUE, !.digits = 0] ELSE l)
Noisy(photo) ==
    [photo EXCEPT !.primary = Ordered(@ \o <<Word("points", 300, 250), Word("discount", 300, 330), Word("card", 300, 520)>>),
                  !.stray = <<[index |-> 1, category |-> "FRUIT"], [index |-> 7, category |-> "MEAT"]>>]
Counted(photo, n) == [photo EXCEPT !.primary = Ordered(@ \o <<[Word("", 600, 580) EXCEPT !.int = n]>>)]
Odd == <<Bought(<<"mlik">>, 1200, 3, 0), Bought(<<"choco", "pie">>, 2500, 2, 0), Bought(<<"paid", "slip">>, 3100, 1, 0)>>
OddReceipt(missed) ==
    [NumberedReceipt(Odd, 15, missed, "dim", FALSE) EXCEPT
        !.printed = <<Product({<<"milk">>}, 3, TRUE), Product({<<"choco", "pie">>}, 2, TRUE), Product({<<"paid", "slip">>}, 1, FALSE)>>]
SpecialScenes ==
    {Alone(photo) : photo \in UNION {
        {Headed(p), Noisy(p), Marked(p, 1), Marked(p, 3), Noisy(Headed(p))} :
            p \in {NumberedReceipt(Goods, tilt, {}, "dim", TRUE) : tilt \in {-15, 0, 15}}}}
    \cup {Alone(Counted(NumberedReceipt(Goods, 0, {2, 4}, "missing", FALSE), 4)), Alone(OddReceipt({})), Alone(OddReceipt({1}))}

-----------------------------------------------------------------------------
(* Receipts without numbers: name, unit price, quantity and amount side by   *)
(* side; a quantity or a unit price may be missing.                         *)

Beside(i, g, shows) ==
    LET y == 160 + 40 * i IN
    <<Name(g.name, y), Digits(g.unit * g.quantity, 640, y)>>
    \o (IF "unit" \in shows THEN <<Digits(g.unit, 370, y)>> ELSE << >>)
    \o (IF "quantity" \in shows THEN <<Digits(g.quantity, 480, y + 3)>> ELSE << >>)
    \o (IF "barcode" \in shows THEN <<Word("barcode", 200, y + 14)>> ELSE << >>)
PlainReceipt(shows, foot) ==
    Page("RECEIPT", FlattenSeq([i \in 1 .. 4 |-> Beside(i, Goods[i], shows[i])]) \o foot,
         [i \in 1 .. 4 |-> Product({Goods[i].name}, IF shows[i] = {} THEN Nothing ELSE Goods[i].quantity, shows[i] # {})])
Shows == {<<{"quantity"}, {"quantity"}, {"quantity"}, {"quantity"}>>,
          <<{"quantity"}, {"unit"}, {"quantity"}, {"unit", "quantity"}>>,
          <<{"unit"}, {"quantity"}, {"unit"}, {"quantity"}>>,
          <<{"quantity"}, {"unit"}, {"barcode"}, {"quantity"}>>}
Foot == <<Word("total", 200, 400), Word("paid", 200, 440), Digits(20000, 640, 400)>>
CakeLine == [Name(<<"cake">>, 360) EXCEPT !.price = 5000]
\* The type told by the user, by the input classifier, or by nobody for sure.
Classified(type, accepted) == [type |-> type, conf |-> 90, accepted |-> accepted]
Hinted(photo) ==
    {photo, [photo EXCEPT !.hint = "AUTO", !.input = Classified("RECEIPT", TRUE)],
     [photo EXCEPT !.hint = "AUTO",
          !.vision = [type |-> "RECEIPT", conf |-> 70, count |-> None,
                      items |-> <<[no |-> First({l \in Range(photo.primary) : Has(l.name, {"gim"})}).no,
                                   name |-> <<"seoul", "gim">>, category |-> "PROCESSED_FOOD", conf |-> 80]>>]]}
PlainScenes ==
    {Alone(photo) : photo \in UNION {Hinted(PlainReceipt(shows, foot)) : shows \in Shows, foot \in {Foot, << >>}}}
    \cup {Alone([PlainReceipt(shows, <<CakeLine>>) EXCEPT
                    !.printed = Append(@, Product({<<"cake">>}, Nothing, TRUE))]) : shows \in Shows}

-----------------------------------------------------------------------------
(* Photos of packages.                                                      *)

Box(l, t, r, b) == [l |-> l, t |-> t, r |-> r, b |-> b, label |-> "food package"]
Says(name, category) == <<[name |-> name, category |-> category, conf |-> 85, reason |-> "vision_model"]>>
Milk == [x |-> 200, y |-> 300, says |-> Says(<<"milk">>, "DAIRY")]
Gim == [x |-> 700, y |-> 300, says |-> Says(<<"seoul", "gim">>, "PROCESSED_FOOD")]
OnMilk == <<[Word("", 200, 200) EXCEPT !.name = <<"origin", "apple">>], [Word("", 200, 260) EXCEPT !.name = <<"seoul", "milk">>],
            [Word("", 200, 420) EXCEPT !.name = <<"apple">>]>>
Left == Box(60, 100, 340, 500)
Right == Box(560, 100, 840, 500)
Detections == {<<Left, Right>>, <<Right, Left, Box(120, 350, 260, 450)>>,
               <<Box(60, 100, 340, 360), Box(60, 300, 340, 500), Right>>, <<Box(40, 60, 880, 560), Left, Right>>,
               <<Left, Right, Box(900, 900, 920, 920)>>}
Shelf(boxes) ==
    [Page("PRODUCT", OnMilk, <<Product({<<"seoul", "milk">>}, Nothing, TRUE), Product({<<"seoul", "gim">>}, Nothing, TRUE)>>)
     EXCEPT !.boxes = boxes, !.goods = <<Milk, Gim>>]
Looked(hint, input, type) ==
    [Page(hint, OnMilk, <<Product({<<"seoul", "milk">>}, Nothing, type # "OTHER"), Product({<<"milk">>, <<"apple">>}, Nothing, FALSE)>>)
     EXCEPT !.goods = <<Milk>>, !.input = input,
            !.vision = [type |-> type, conf |-> 90, count |-> None,
                        items |-> <<[no |-> 9, name |-> <<"milk">>, category |-> "DAIRY", conf |-> 80],
                                    [no |-> 9, name |-> <<"seoul", "milk">>, category |-> "DAIRY", conf |-> 80]>>]]
PhotoScenes ==
    {Alone(Shelf(boxes)) : boxes \in Detections}
    \cup {Alone(Looked("PRODUCT", None, "PRODUCT")), Alone(Looked("AUTO", Classified("PRODUCT", TRUE), "PRODUCT")),
          Alone(Looked("AUTO", Classified("RECEIPT", FALSE), "PRODUCT")), Alone(Looked("AUTO", Classified("OTHER", TRUE), "OTHER"))}

-----------------------------------------------------------------------------
(* Stories of corrections: lines of text, no places.                        *)

Slip(fridge, names, called) ==
    [Page("RECEIPT", << >>, [i \in DOMAIN names |-> Product({names[i]} \cup called[i], Nothing, FALSE)])
     EXCEPT !.fridge = fridge, !.portrait = FALSE,
            !.primary = [i \in DOMAIN names |-> [Text(names[i], 95) EXCEPT !.no = i]]]
Corrects(item, name) == [item |-> item, action |-> "CORRECTED", name |-> name, category |-> "SEASONING"]
Adds == [item |-> Nothing, action |-> "ADDED", name |-> <<"salt">>, category |-> "SEASONING"]
Asks(analysis, fridge, entries) == [analysis |-> analysis, fridge |-> fridge, consent |-> TRUE, entries |-> entries]
Two(x, y) == [c \in {"c1", "c2"} |-> IF c = "c1" THEN x ELSE y]
Both(x, y) == [a \in {"a1", "a2"} |-> IF a = "a1" THEN x ELSE y]
Story(photos, requests, faulty) == [photos |-> photos, requests |-> requests, taught |-> {}, faulty |-> faulty]
Salt == <<"salt">>
Taught == [analysis |-> "a0", id |-> <<"c0", 1>>, item |-> 1, fridge |-> 1, key |-> <<"gim">>, name |-> Salt, category |-> "SEASONING"]
Stories ==
    {[Story(Both(Slip(1, <<<<"gim">>>>, <<{Salt}>>), Slip(2, <<<<"gim">>, <<"milk">>>>, <<{}, {}>>)), [c \in {} |-> None], FALSE)
      EXCEPT !.taught = {Taught}],
     Story(Both(Slip(1, <<<<"gim">>>>, <<{Salt}>>), Slip(2, <<<<"gim">>, <<"milk">>>>, <<{}, {}>>)),
           [c \in {"c1"} |-> Asks("a1", 1, <<Corrects(1, Salt)>>)], TRUE),
     Story([a \in {"a1"} |-> Slip(1, <<<<"milk">>>>, <<{}>>)], Two(Asks("a1", 1, <<Adds>>), Asks("a1", 1, <<Adds>>)), TRUE),
     Story(Both(Slip(1, <<<<"gim">>, <<"milk">>>>, <<{Salt}, {<<"soy">>}>>), Slip(1, <<<<"gim">>, <<"milk">>>>, <<{Salt}, {<<"soy">>}>>)),
           Two(Asks("a1", 1, <<Corrects(1, Salt), Corrects(2, <<"soy">>)>>),
               Asks("a2", 1, <<Corrects(2, <<"soy">>), Corrects(1, Salt)>>)), FALSE)}

MCKeyOrder == <<<<"gim">>, <<"milk">>>>
MCScenes ==
    {[s EXCEPT !.photos = [a \in DOMAIN s.photos |-> Taken(s.photos[a])]] :
        s \in NumberedScenes \cup SpecialScenes \cup PlainScenes \cup PhotoScenes \cup Stories}
=============================================================================
