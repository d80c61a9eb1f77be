---------------------------- MODULE WorkerReading ----------------------------
(***************************************************************************)
(* What one inference of the GPU worker answers for a photo: OCR lines, the *)
(* second reading of a receipt's doubtful lines, product boxes, and the     *)
(* candidates of the language model.  GpuWorker has the slots and failures  *)
(* of the same requests; here the data.                                     *)
(*                                                                          *)
(* A photo gives the first reading (primary), what is printed (ink: read    *)
(* when a crop shows the whole line), its height, the raw detections (boxes *)
(* in the scale of the lines), what stands where (goods) and what the       *)
(* models say: the input classifier (input), the words the language model   *)
(* takes for food (judges) with stray answers (stray), its answer for the   *)
(* whole image (vision) and for each of the goods.                          *)
(***************************************************************************)
EXTENDS ReceiptRows

CONSTANT Short      \* Hangul words of one or two letters

RecheckConfidence == 82
TileConfidence == 75

Candidate(no, name, category, conf, reason) ==
    [no |-> no, name |-> name, category |-> category, conf |-> conf, reason |-> reason]
Text(name, conf) ==
    [no |-> 0, x |-> 0, y |-> 0, h |-> 0, left |-> 0, conf |-> conf, boxed |-> FALSE, num |-> Nothing,
     digits |-> 0, mark |-> FALSE, name |-> name, int |-> Nothing, price |-> Nothing, word |-> "",
     size |-> 0, pieces |-> Nothing]

-----------------------------------------------------------------------------
(* The second reading of a receipt (adapters/ocr.py).                       *)

ItemNumber(l) == IF l.num \in 0 .. 99 /\ ~l.mark /\ l.name # << >> THEN l.num ELSE Nothing
Information(l) == Len(l.name) - (IF Head(l.name) = "P" THEN 1 ELSE 0)
Numbers(L) == {ItemNumber(L[i]) : i \in DOMAIN L} \ {Nothing}

\* The numbers between those read, and up to the count the receipt states.
MissingNumbers(L) ==
    LET counts == {i \in DOMAIN L : L[i].word = "count"}
        at == CHOOSE i \in counts : \A j \in counts : i <= j
        after == {i \in at + 1 .. Least(at + 2, Len(L)) : L[i].int \in 0 .. 99}
        stated == IF counts = {} THEN 0
                  ELSE IF L[at].pieces # Nothing THEN L[at].pieces
                  ELSE IF after = {} THEN 0 ELSE L[CHOOSE i \in after : \A j \in after : i <= j].int
        last == FoldSet(Most, stated, Numbers(L))
    IN IF Cardinality(Numbers(L)) < 2 \/ last > 99 THEN {}
       ELSE {n \in 0 .. last : \E d \in Numbers(L) : d <= n} \ Numbers(L)
DoubtfulNumbers(L) ==
    {ItemNumber(l) : l \in {k \in Range(L) : ItemNumber(k) # Nothing
                                /\ (k.conf < RecheckConfidence \/ Information(k) = 0)}}

TwiceMedian(s) ==
    LET t == SortSeq(s, LAMBDA a, b : a < b) IN t[(Len(t) + 1) \div 2] + t[Len(t) \div 2 + 1]
Groups(S) ==
    {[first |-> p[1], last |-> p[2]] : p \in {q \in S \X S : /\ q[1] <= q[2] /\ q[1] .. q[2] \subseteq S
                                                            /\ q[1] - 1 \notin S /\ q[2] + 1 \notin S}}
\* Mutant form: only the row of the first number of a group is looked at.
FirstOfGroups(S) == {[first |-> g.first, last |-> g.first] : g \in Groups(S)}
MissingGroups(S) == Groups(S)

\* Where the rows of the numbers should stand, in twentieths of a pixel.
NumberLines(L) ==
    SortSeq(Listed({l \in Range(L) : ItemNumber(l) # Nothing /\ l.boxed}),
            LAMBDA a, b : a.num < b.num \/ (a.num = b.num /\ a.y < b.y))
Height2(read) == TwiceMedian([i \in DOMAIN read |-> Most(1, read[i].h)])
RowHeight(read, height) ==
    LET steps == {i \in 1 .. Len(read) - 1 : read[i + 1].num > read[i].num /\ read[i + 1].y > read[i].y}
        spacing == Listed({<<i, (read[i + 1].y - read[i].y) \div (read[i + 1].num - read[i].num)>> : i \in steps})
    IN Most(15 * Height2(read),
            Least(IF spacing = << >> THEN 25 * Height2(read)
                  ELSE 10 * TwiceMedian([i \in DOMAIN spacing |-> spacing[i][2]]), 4 * height))

Widened(top, bottom, least, height) ==
    LET up == Most(0, (top + bottom) \div 2 - least \div 2)
        down == Least(height, up + least)
    IN IF bottom - top < least THEN <<Most(0, down - least), down>> ELSE <<top, bottom>>
CropOf(g, read, row, height) ==
    LET detected == {read[i].num : i \in DOMAIN read}
        At(n) == 20 * read[CHOOSE i \in DOMAIN read : read[i].num = n /\ \A j \in DOMAIN read : read[j].num = n => j <= i].y
        before == {n \in detected : n < g.first}
        behind == {n \in detected : n > g.last}
        p == CHOOSE n \in before : \A m \in before : m <= n
        f == CHOOSE n \in behind : \A m \in behind : n <= m
        first == IF before # {} THEN At(p) + (g.first - p) * row ELSE At(f) - (f - g.first) * row
        last == IF behind # {} THEN At(f) - (f - g.last) * row ELSE At(p) + (g.last - p) * row
        padding == Most(15 * Height2(read), (9 * row) \div 20)
    IN Widened(Most(0, (first - padding) \div 20), Least(height, (last + padding) \div 20),
               Most(160, (7 * row) \div 100), height)
CropsAround(read, row, wanted, height) ==
    LET possible == {g \in MissingGroups(wanted) : {read[i].num : i \in DOMAIN read} \ g.first .. g.last # {}} IN
    IF Len(read) < 2 THEN {} ELSE {CropOf(g, read, row, height) : g \in possible}
CropRanges(L, wanted, height) == CropsAround(NumberLines(L), RowHeight(NumberLines(L), height), wanted, height)

\* Overlapping tiles of the whole page, where the numbers do not say.
Tiles(height) ==
    LET tile == Most(320, (55 * height) \div 100)
        step == tile - Most(32, (15 * tile) \div 100)
        tops == {k * step : k \in 0 .. (Most(0, height - tile) + step - 1) \div step}
    IN {IF Least(height, t + tile) - t < 160 THEN <<Most(0, height - tile), height>>
        ELSE <<t, Least(height, t + tile)>> : t \in tops}
Crops(L, wanted, height) ==
    IF CropRanges(L, wanted, height) # {} THEN CropRanges(L, wanted, height) ELSE Tiles(height)

\* Two readings of one line: close, and the same number or text.
SameLine(a, b) ==
    /\ Gap(a.y, b.y) <= Most(8, Most(a.h, b.h))
    /\ Gap(a.x, b.x) <= 2 * Most(24, Most(a.h, b.h))
    /\ \/ ItemNumber(a) # Nothing /\ ItemNumber(a) = ItemNumber(b)
       \/ a.num = b.num /\ a.int = b.int /\ a.word = b.word /\ Corrected(a.name) = Corrected(b.name)
       \/ a.num = Nothing /\ a.name # << >> /\ Within(a.name, b.name)
       \/ b.num = Nothing /\ b.name # << >> /\ Within(b.name, a.name)
BetterReading(old, new) ==
    \/ ItemNumber(old) = ItemNumber(new) /\ Information(new) > Information(old)
    \/ new.conf > old.conf
Merged(L, tiled) ==
    LET Add(sel, l) ==
            LET same == {i \in DOMAIN sel : SameLine(sel[i], l)}
                i == CHOOSE k \in same : \A j \in same : k <= j
            IN IF same = {} THEN Append(sel, l)
               ELSE IF BetterReading(sel[i], l) THEN [sel EXCEPT ![i] = l] ELSE sel
        ordered == SortSeq(FoldLeft(Add, L, tiled), LAMBDA a, b : a.y < b.y \/ (a.y = b.y /\ a.x < b.x))
    IN [i \in DOMAIN ordered |-> [ordered[i] EXCEPT !.no = i]]

\* _predict_receipt(): a landscape photo is read once.
ReadAgain(ph, wanted) ==
    LET shown == {l \in Range(ph.ink) : \E c \in Crops(ph.primary, wanted, ph.height) :
                                            2 * c[1] <= 2 * l.y - l.h /\ 2 * l.y + l.h <= 2 * c[2]}
        tiled == SelectSeq(ph.ink, LAMBDA l : l \in shown /\ l.conf >= TileConfidence /\ ItemNumber(l) \in wanted)
    IN IF ~ph.portrait \/ wanted = {} THEN ph.primary ELSE Merged(ph.primary, tiled)
ReadReceipt(ph) == ReadAgain(ph, MissingNumbers(ph.primary) \cup DoubtfulNumbers(ph.primary))

-----------------------------------------------------------------------------
(* Product boxes (adapters/product_detector.py).                            *)

Area(b) == (b.r - b.l) * (b.b - b.t)
Encloses(o, i) == /\ 2 * o.l <= i.l + i.r /\ i.l + i.r <= 2 * o.r
                  /\ 2 * o.t <= i.t + i.b /\ i.t + i.b <= 2 * o.b
Valid(b, height) == b.r - b.l >= 40 /\ 100 * (b.b - b.t) >= 12 * height /\ Area(b) >= 8 * height
\* A box around two smaller ones, and a label within a package.
Aggregate(b, B) == Cardinality({o \in B \ {b} : 10 * Area(o) < 8 * Area(b) /\ Encloses(b, o)}) >= 2
Inner(b, B) == \E o \in B \ {b} : 2 * Area(b) < Area(o) /\ Encloses(o, b)
Overlapping(a, b) ==
    LET w == Least(a.r, b.r) - Most(a.l, b.l)
        h == Least(a.b, b.b) - Most(a.t, b.t)
    IN w > 0 /\ h > 0 /\ 5 * w * h >= Least(Area(a), Area(b))
Whole(G) ==
    LET Low(F(_)) == CHOOSE v \in {F(b) : b \in G} : \A b \in G : v <= F(b)
    IN IF Cardinality(G) = 1 THEN CHOOSE b \in G : TRUE
       ELSE [l |-> Low(LAMBDA b : b.l), t |-> Low(LAMBDA b : b.t), label |-> "food package",
             r |-> -Low(LAMBDA b : -b.r), b |-> -Low(LAMBDA b : -b.b)]
Fragments(B) ==
    FoldLeft(LAMBDA gs, b : LET near == {g \in gs : \E o \in g : Overlapping(o, b)} IN
                            (gs \ near) \cup {UNION near \cup {b}}, {}, Listed(B))
ProductBoxes(ph) ==
    LET valid == {b \in Range(ph.boxes) : Valid(b, ph.height)}
        single == {b \in valid : ~Aggregate(b, valid)}
        whole == {Whole(g) : g \in Fragments({b \in single : ~Inner(b, single)})}
        Band(b) == b.t \div Most(1, ph.height \div 4)
    IN SortSeq(Listed(whole), LAMBDA a, b : Band(a) < Band(b) \/ (Band(a) = Band(b) /\ a.l < b.l))

-----------------------------------------------------------------------------
(* One candidate for every box (gpu_worker/engine.py).                      *)

\* The lines in a box; without two boxes the whole image is one crop.
Hint(L, b) == SelectSeq(L, LAMBDA l : l.boxed /\ b.l <= l.x /\ l.x <= b.r /\ b.t <= l.y /\ l.y <= b.b)
IsCopy(name) == Has(name, Description)
FromHint(hint) ==
    LET known == {i \in DOMAIN hint : ~IsCopy(hint[i].name) /\ RuleOf(hint[i].name) # None}
        i == CHOOSE k \in known : \A j \in known : k <= j
        before == IF i > 1 /\ Len(hint[i - 1].name) = 1 /\ hint[i - 1].name[1] \in Short THEN hint[i - 1].name ELSE << >>
    IN IF known = {} THEN << >>
       ELSE <<Candidate(1, before \o hint[i].name, RuleOf(hint[i].name), 90, "ocr_keyword_rule")>>
OcrName(name, hint) ==
    LET fuller == {i \in DOMAIN hint : /\ ~IsCopy(hint[i].name) /\ Range(hint[i].name) \ English # {}
                                       /\ Len(hint[i].name) > Len(name) /\ Within(name, hint[i].name)}
    IN IF fuller = {} THEN name ELSE hint[CHOOSE i \in fuller : \A j \in fuller : i <= j].name

\* _deduplicate_product_items(): the longest names, at most the counted packages.
Distinct(items, count) ==
    LET ordered == SortSeq(items, LAMBDA a, b : Len(a.name) > Len(b.name))
        kept == FoldLeft(LAMBDA ks, i : IF \E k \in Range(ks) : k.category = i.category /\ Within(i.name, k.name)
                                        THEN ks ELSE Append(ks, i), << >>, ordered)
    IN IF count = None THEN kept ELSE SubSeq(kept, 1, Least(count, Len(kept)))
Seen(ph, b) ==
    Distinct(FlattenSeq([i \in DOMAIN ph.goods |->
        IF b.l <= ph.goods[i].x /\ ph.goods[i].x <= b.r /\ b.t <= ph.goods[i].y /\ ph.goods[i].y <= b.b
        THEN ph.goods[i].says ELSE << >>]), None)

CropCandidate(ph, b, hint) ==
    LET found == IF FromHint(hint) # << >> THEN FromHint(hint) ELSE Seen(ph, b)
        name == OcrName(found[1].name, hint)
        rule == RuleOf(name)
    IN IF found = << >> THEN << >>
       ELSE <<Candidate(0, name, IF rule # None THEN rule ELSE found[1].category, found[1].conf,
                        IF found[1].reason = "ocr_keyword_rule" THEN found[1].reason ELSE "yolo_crop_vision_model")>>

\* Every candidate gets a line of its own behind those of the OCR.
InBoxes(ph, L, boxes) ==
    LET page == [l |-> 0, t |-> 0, r |-> 1000, b |-> ph.height, label |-> ""] IN
    IF Len(boxes) < 2 THEN CropCandidate(ph, page, L)
    ELSE FlattenSeq([i \in DOMAIN boxes |-> CropCandidate(ph, boxes[i], Hint(L, boxes[i]))])
WithLines(L, found) ==
    LET last == FoldLeft(LAMBDA n, l : Most(n, l.no), 0, L) IN
       [lines |-> L \o [i \in DOMAIN found |-> [Text(found[i].name, found[i].conf) EXCEPT !.no = last + i]],
        candidates |-> [i \in DOMAIN found |-> [found[i] EXCEPT !.no = last + i]]]
ProductReading(ph, L) == WithLines(L, InBoxes(ph, L, ProductBoxes(ph)))

-----------------------------------------------------------------------------
(* The language model and the whole request.                                *)

\* The worker's own rows drop lines by the keywords only.
WorkerRows(L) == ProductRows(L, Keywords)
Unsettled(L, rows) ==
    LET lines == IF rows = << >> THEN FoodCandidates(L) ELSE [i \in DOMAIN rows |-> rows[i].line]
    IN SelectSeq(lines, LAMBDA l : ~IsNonFood(l.name) /\ RuleOf(l.name) = None)
ClassifierLines(L) == Unsettled(L, WorkerRows(L))

\* classify(): answers for lines that were asked, the first of each.
Judged(ph, lines) ==
    LET Food(i) == {w \in Range(lines[i].name) : w \in DOMAIN ph.judges}
        said == SelectSeq([i \in DOMAIN lines |-> [index |-> i, category |->
                    IF Food(i) = {} THEN None ELSE ph.judges[CHOOSE w \in Food(i) : TRUE]]],
                    LAMBDA a : a.category # None) \o ph.stray
        Take(sel, a) ==
            IF a.index \in DOMAIN lines /\ lines[a.index].name # << >> /\ lines[a.index].no \notin {c.no : c \in Range(sel)}
            THEN Append(sel, Candidate(lines[a.index].no, lines[a.index].name, a.category,
                                       Least(90, lines[a.index].conf), "model_inference"))
            ELSE sel
    IN FoldLeft(Take, << >>, said)

\* classify_image(): a receipt's answers are moved to the number line above.
ImageReading(ph, hint, L) ==
    LET type == IF hint \in {"RECEIPT", "PRODUCT"} THEN hint ELSE ph.vision.type
        items == IF type = "PRODUCT" THEN Distinct(ph.vision.items, ph.vision.count) ELSE ph.vision.items
        numbered == {l.no : l \in {k \in Range(L) : k.digits = 3}}
        Moved(no) == LET near == {n \in numbered : no - n \in 0 .. 3} IN
                     IF type = "RECEIPT" /\ no \notin numbered /\ near # {} THEN FoldSet(Most, 0, near) ELSE no
        Add(r, i) ==
            LET lines == {l.no : l \in Range(r.lines)}
                new == type = "PRODUCT" /\ i.no \notin lines
                no == IF new THEN FoldSet(Most, 0, lines) + 1 ELSE Moved(i.no)
            IN IF (~new /\ no \notin lines) \/ no \in {c.no : c \in Range(r.candidates)} THEN r
               ELSE [lines |-> IF new THEN Append(r.lines, [Text(i.name, i.conf) EXCEPT !.no = no]) ELSE r.lines,
                     candidates |-> Append(r.candidates, Candidate(no, i.name, i.category, i.conf,
                         IF type = "PRODUCT" THEN "vision_model" ELSE "model_inference"))]
    IN FoldLeft(Add, [lines |-> L, candidates |-> << >>], items)

\* _infer_once(): [lines, candidates, input: the prediction sent along].
Answer(ph, hint, input, type, L) ==
    LET reading == CASE type = "PRODUCT" -> ProductReading(ph, L)
                     [] type = "RECEIPT" -> [lines |-> L, candidates |-> Judged(ph, ClassifierLines(L))]
                     [] type = "AUTO" -> ImageReading(ph, hint, L)
                     [] OTHER -> [lines |-> L, candidates |-> << >>]
        told == IF type = "AUTO" THEN [type |-> ph.vision.type, conf |-> ph.vision.conf, accepted |-> ph.vision.conf >= 80]
                ELSE input
    IN [lines |-> reading.lines, candidates |-> reading.candidates, input |-> told]
Worker(ph, hint) ==
    LET input == IF hint = "AUTO" THEN ph.input ELSE None
        accepted == input # None /\ input.accepted
        type == IF accepted THEN input.type ELSE hint
    IN Answer(ph, hint, input, type, Sanitized(IF type = "RECEIPT" THEN ReadReceipt(ph) ELSE ph.primary))
=============================================================================
