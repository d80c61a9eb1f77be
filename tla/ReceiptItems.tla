---------------------------- MODULE ReceiptItems ----------------------------
(***************************************************************************)
(* The pipeline between the worker's answer and the delivered items: what   *)
(* kind of document it is, which lines are looked up in the catalog, and    *)
(* what rule, catalog match or model candidate each of them becomes.        *)
(* A bundle is the worker's answer, a reading what is known of it before    *)
(* the lookups, matches what these found.                                   *)
(***************************************************************************)
EXTENDS ReceiptRows

CONSTANT ShelfLife  \* [word, storage, fresh: only for fresh food]: the reviewed rules

Fresh == {"VEGETABLE", "FRUIT", "MEAT", "SEAFOOD"}
VisionReasons == {"vision_model", "yolo_crop_vision_model"}

\* known_food_category() corrects before it looks; product names keep what was read.
Known(name) == RuleOf(Corrected(name))
Rows(L) == ProductRows(L, Metadata)

Inferred(b, hint) == IF hint = "AUTO" /\ b.input # None /\ b.input.accepted THEN b.input.type ELSE None
\* A receipt by its words, or by four rows at least.
LooksLikeReceipt(L) == Likelihood(L) >= 45 \/ (Len(Rows(L)) >= 4 /\ Likelihood(L) >= 30)
Document(b, hint) ==
    CASE hint = "PRODUCT" \/ Inferred(b, hint) = "PRODUCT" -> "PRODUCT"
      [] Inferred(b, hint) = "OTHER" -> "OTHER"
      [] hint = "RECEIPT" \/ Inferred(b, hint) = "RECEIPT" -> "RECEIPT"
      [] OTHER -> IF LooksLikeReceipt(b.lines) THEN "RECEIPT" ELSE "OTHER"

-----------------------------------------------------------------------------
(* A receipt: its rows, known foods outside them, otherwise every food line. *)

Supplement(L, rows) ==
    SelectSeq(FoodCandidates(L), LAMBDA l :
        /\ l.no \notin {r.line.no : r \in Range(rows)}
        /\ Known(l.name) # None
        /\ l.price # Nothing \/ Has(Corrected(l.name), Strong))
TableFrom(L, rows) ==
    LET extra == IF \E r \in Range(rows) : r.line.boxed THEN Supplement(L, rows) ELSE << >>
        own == [i \in DOMAIN rows |-> rows[i].line]
    IN [lines |-> (IF rows = << >> THEN FoodCandidates(L) ELSE own) \o extra,
        rows |-> rows \o SupplementalRows(L, extra)]
ReceiptTable(L) == TableFrom(L, Rows(L))
ReceiptLines(table) == SelectSeq(table.lines, LAMBDA l : ~IsNonFood(l.name) /\ ~IsMetadata(l))

\* The catalog goes before the rules unless it is only similar.
UsesCatalog(match, rule) == match # None /\ (match.via # "fuzzy" \/ rule = None)
MatchReason(match) ==
    CASE match.via = "fuzzy" -> "catalog_fuzzy"
      [] match.via = "learned" -> "learned_correction"
      [] OTHER -> "catalog"
Choice(no, name, category, reason) == [no |-> no, name |-> name, category |-> category, reason |-> reason]
FromModel(c) == Choice(c.no, c.name, c.category, c.reason)

CandidatesFor(r, undecided) == SelectSeq(r.candidates, LAMBDA c : c.no \in undecided)

ReceiptChoices(r, matches) ==
    LET lines == r.lines
        Decide(i) ==
            LET rule == Known(lines[i].name) IN
            IF UsesCatalog(matches[i], rule)
            THEN Choice(lines[i].no, matches[i].name, matches[i].category, MatchReason(matches[i]))
            ELSE Choice(lines[i].no, Corrected(lines[i].name), rule, "keyword_rule")
        decided == SelectSeq([i \in DOMAIN lines |-> Decide(i)], LAMBDA c : c.category # None)
        undecided == {lines[i].no : i \in {j \in DOMAIN lines : Decide(j).category = None}}
        model == CandidatesFor(r, undecided)
        all == decided \o [i \in DOMAIN model |-> FromModel(model[i])]
    IN SortSeq(SelectSeq(all, LAMBDA c : ~IsNonFood(c.name)), LAMBDA a, c : a.no < c.no)

-----------------------------------------------------------------------------
(* A photo of products: the worker's candidates, or the lines of a package. *)

Alike(a, c) == a = c \/ (Len(a) > 1 /\ Corrected(a) = Corrected(c))
IsEnglishLabel(name) == Len(name) >= 2 /\ Range(name) \subseteq English
\* _prefer_korean_product_candidates(): longest first, no part of another name.
Preferred(candidates) ==
    LET korean == {c.category : c \in {k \in Range(candidates) : Range(k.name) \ English # {}}}
        kept == SelectSeq(candidates, LAMBDA c : ~(c.category \in korean /\ IsEnglishLabel(c.name)))
        ordered == SortSeq(kept, LAMBDA a, c : Len(a.name) > Len(c.name))
    IN FoldLeft(LAMBDA sel, c : IF \E k \in Range(sel) : k.category = c.category /\ Within(c.name, k.name)
                                THEN sel ELSE Append(sel, c), << >>, ordered)
PackageLines(L) == SelectSeq(FoodCandidates(L), LAMBDA l : ~IsNonFood(l.name) /\ ~Has(l.name, Description))
ProductCandidates(b) ==
    SelectSeq(Preferred(b.candidates), LAMBDA c : ~IsNonFood(c.name) /\ ~Has(c.name, Description))

FromPackage(l, match) ==
    LET rule == Known(l.name) IN
    IF UsesCatalog(match, rule) THEN Choice(l.no, match.name, match.category, MatchReason(match))
    ELSE Choice(l.no, Corrected(l.name), rule, "keyword_rule")
FromVision(c, match) ==
    IF match = None THEN FromModel(c) ELSE Choice(c.no, match.name, match.category, MatchReason(match))
TwinOf(name, choices) == \E k \in Range(choices) : Alike(name, k.name)
TwinByLetter(name, choices) == \E k \in Range(choices) : name = k.name

ProductChoices(r, matches) ==
    LET Line(sel, i) == LET c == FromPackage(r.lines[i], matches[i]) IN
                        IF c.category = None \/ c.name = << >> \/ TwinByLetter(c.name, sel) THEN sel ELSE Append(sel, c)
        Item(sel, i) == LET c == FromVision(r.products[i], matches[i]) IN
                        IF c.name = << >> \/ TwinOf(c.name, sel) \/ c.no \notin {l.no : l \in Range(r.all)}
                        THEN sel ELSE Append(sel, c)
    IN IF r.candidates = << >> THEN FoldLeft(Line, << >>, [i \in DOMAIN r.lines |-> i])
       ELSE FoldLeft(Item, << >>, [i \in DOMAIN r.products |-> i])

-----------------------------------------------------------------------------
(* What is known before the lookups, and what is looked up, in order.       *)

ReadingAs(b, document, table) ==
    LET lines == IF document = "PRODUCT" THEN PackageLines(b.lines) ELSE ReceiptLines(table)
        products == IF document = "PRODUCT" THEN ProductCandidates(b) ELSE << >>
        Names(s) == [i \in DOMAIN s |-> Corrected(s[i].name)]
    IN [document |-> document, all |-> b.lines, candidates |-> b.candidates,
        lines |-> lines, rows |-> table.rows, products |-> products,
        texts |-> Names(IF document = "PRODUCT" /\ b.candidates # << >> THEN products ELSE lines)]
Reading(b, hint) ==
    LET document == Document(b, hint) IN
    ReadingAs(b, document, IF document = "RECEIPT" THEN ReceiptTable(b.lines) ELSE [lines |-> << >>, rows |-> << >>])

-----------------------------------------------------------------------------
(* Items, as the callback sends them.                                       *)

Estimated(name, category) ==
    \E r \in ShelfLife : Has(name, {r.word}) /\ r.storage = Storage(category) /\ (r.fresh => category \in Fresh)
Dim(L) == 10 * FoldLeft(LAMBDA n, l : n + l.conf, 0, L) < 700 * Len(L) \/ L = << >>

\* A receipt shows the name as it was read, unless a user corrected it.
ShownName(document, line, choice) ==
    IF document = "RECEIPT" /\ choice.reason # "learned_correction" /\ Corrected(line.name) # << >>
    THEN Corrected(line.name) ELSE choice.name

\* A photo of one product: its size may stand on any line of the package.
MeasuredLine(document, L, single, line) ==
    LET sized == {l \in Range(L) : l.size > 0 \/ l.pieces # Nothing} IN
    IF document = "PRODUCT" /\ single /\ sized # {} THEN First(sized) ELSE line

Item(document, index, line, measured, choice, hint, unclear) ==
    LET measure == Measure(measured, hint)
        status == IF Estimated(choice.name, choice.category) /\ ~unclear /\ choice.reason # "catalog_fuzzy"
                  THEN "AI_ESTIMATED" ELSE "NEEDS_REVIEW"
        quantity == IF measure.type = "COUNT" THEN measure.quantity ELSE hint
    IN [id |-> index, name |-> ShownName(document, line, choice), normal |-> choice.name, evidence |-> line.name,
        category |-> choice.category, type |-> measure.type, reason |-> choice.reason,
        quantity |-> IF quantity = Nothing THEN 0 ELSE quantity,
        status |-> status]

Items(r, matches) ==
    LET choices == IF r.document = "PRODUCT" THEN ProductChoices(r, matches) ELSE ReceiptChoices(r, matches)
        lines == IF r.document = "PRODUCT" THEN r.all ELSE r.lines
        At(no) == {i \in DOMAIN lines : lines[i].no = no}
        Line(no) == lines[CHOOSE i \in At(no) : \A j \in At(no) : j <= i]
        Count(no) == LET R == {i \in DOMAIN r.rows : r.rows[i].line.no = no} IN
                     IF R = {} THEN Nothing ELSE r.rows[CHOOSE i \in R : \A j \in R : j <= i].quantity
        Unclear(c) == Dim(r.all) /\ (r.document = "PRODUCT" => c.reason \notin VisionReasons)
        all == [i \in DOMAIN choices |->
                   IF At(choices[i].no) = {} \/ choices[i].name = << >> THEN None
                   ELSE Item(r.document, i, Line(choices[i].no),
                             MeasuredLine(r.document, r.all, Len(choices) = 1, Line(choices[i].no)),
                             choices[i], Count(choices[i].no), Unclear(choices[i]))]
    IN IF r.document = "OTHER" THEN << >> ELSE SelectSeq(all, LAMBDA i : i # None)
=============================================================================
