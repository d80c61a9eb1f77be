----------------------------- MODULE ReceiptRows -----------------------------
(***************************************************************************)
(* The rules both programs apply to the lines an OCR read: which lines are  *)
(* products, and which unit price, quantity and amount belong to each.      *)
(*                                                                          *)
(* A line is what the rules tell apart in it: its place (x and left in      *)
(* thousandths of the width, y and h in pixels), its confidence in percent, *)
(* a number before the name (num, digits), the words of a name, an integer  *)
(* standing alone (int), a size in grams and the kind of its other words    *)
(* (word).                                                                  *)
(***************************************************************************)
EXTENDS Integers, FiniteSets, SequencesExt

CONSTANTS
    KnownFood,      \* word of a name -> category of the keyword rules
    NonFood,        \* words of household goods
    Description,    \* words of promotion, origin and maker
    English,        \* words without Hangul
    Correction,     \* misread word -> the word the backend reads it as
    Strong,         \* words that need no price to be a product
    None

Nothing == -1
Endless == 1000000
Totals == {"total", "tax"}
Headings == {"unit", "quantity", "amount"}
Keywords == Totals \cup Headings \cup {"paid", "discount", "date"}
NotAName == {"discount", "points", "redacted"}

Has(name, S) == \E i \in DOMAIN name : name[i] \in S
Within(short, long) == \E i \in 1 .. Len(long) - Len(short) + 1 : SubSeq(long, i, i + Len(short) - 1) = short
First(S) == CHOOSE l \in S : \A o \in S : l.no <= o.no
Listed(S) == FoldSet(LAMBDA e, s : Append(s, e), << >>, S)
Sorted(S, Value(_)) ==
    SortSeq(Listed(S), LAMBDA a, b : Value(a) < Value(b) \/ (Value(a) = Value(b) /\ a.no < b.no))
Gap(a, b) == IF a < b THEN b - a ELSE a - b
Most(a, b) == IF a > b THEN a ELSE b
Least(a, b) == IF a < b THEN a ELSE b

IsNonFood(name) == Has(name, NonFood)
Metadata == Keywords \cup {"served"}
IsMetadata(l) == l.word \in Metadata
HasLetters(l) == l.name # << >> \/ l.word \notin {"", "barcode"}
RuleOf(name) == IF Has(name, DOMAIN KnownFood)
                THEN KnownFood[name[CHOOSE i \in DOMAIN name :
                         name[i] \in DOMAIN KnownFood /\ \A j \in 1 .. i - 1 : name[j] \notin DOMAIN KnownFood]]
                ELSE None
Corrected(name) == [i \in DOMAIN name |-> IF name[i] \in DOMAIN Correction THEN Correction[name[i]] ELSE name[i]]

\* sanitize_lines(): a card or telephone number is masked, an empty line dropped.
Sanitized(L) ==
    LET Masked(l) == [l EXCEPT !.word = IF @ = "card" THEN "redacted" ELSE @] IN
    [i \in DOMAIN L |-> Masked(L[i])]

\* receipt_likelihood(), in percent.
Likelihood(L) ==
    LET lines == Range(L)
        seen == {l.word : l \in lines} \cap (Totals \cup {"quantity", "amount", "paid"})
        prices == {l.no : l \in {k \in lines : k.int >= 1000 \/ k.price >= 1000}}
        dates == {l \in lines : l.word = "date"}
    IN IF L = << >> THEN 0
       ELSE Least(99, 15 + Least(12 * Cardinality(seen), 48) + Least(4 * Cardinality(prices), 24)
                         + IF dates # {} THEN 8 ELSE 0)

FoodCandidates(L) == SelectSeq(L, LAMBDA l : l.word # "redacted" /\ ~IsMetadata(l) /\ HasLetters(l) /\ l.int = Nothing)

-----------------------------------------------------------------------------
(* Where things are on the page.                                            *)

Positioned(L) == {l \in Range(L) : l.boxed}
SummaryY(P) ==
    LET ys == {l.y : l \in {k \in P : k.word \in Totals}} IN
    IF ys = {} THEN Endless ELSE CHOOSE y \in ys : \A z \in ys : y <= z

\* Twice the boundaries between the columns: unit | quantity | amount.
Boundaries(unit, quantity, amount) == [unit |-> unit + quantity, quantity |-> quantity + amount]
HeadedColumns(P) ==
    LET X(w, default) == LET S == {l \in P : l.word = w} IN
                         IF S = {} THEN default ELSE (CHOOSE l \in S : \A o \in S : o.no <= l.no).x
    IN Boundaries(X("unit", 630), X("quantity", 760), X("amount", 910))

Median(S) == LET s == Sorted(S, LAMBDA l : l.x) IN s[Len(s) \div 2 + 1].x
MeasuredColumns(P, otherwise) ==
    LET quantities == {l \in P : l.int \in 0 .. 99}
        amounts == {l \in P : l.int >= 1000}
    IN IF quantities = {} \/ amounts = {} \/ Median(amounts) <= Median(quantities) THEN otherwise
       ELSE Boundaries(2 * Median(quantities) - Median(amounts), Median(quantities), Median(amounts))

\* The integer nearest to a height in a range of twice the x coordinates.
ColumnInteger(T, low, high, y) ==
    LET found == {l \in T : l.conf >= 35 /\ low <= 2 * l.x /\ 2 * l.x < high /\ l.int # Nothing} IN
    IF found = {} THEN Nothing ELSE Sorted(found, LAMBDA l : Gap(l.y, y))[1].int
UnitPrice(T, c, y) == ColumnInteger(T, 700, c.unit, y)
Quantity(T, c, y) == ColumnInteger(T, c.unit, c.quantity, y)
Amount(T, c, y) == ColumnInteger(T, c.quantity, 2020, y)

\* A discounted amount is assumed not to be a multiple of the price.
FromPrice(unit, amount) ==
    IF unit > 0 /\ amount > 0 /\ amount % unit = 0 /\ amount \div unit \in 1 .. 100
    THEN amount \div unit ELSE Nothing

-----------------------------------------------------------------------------
(* Anchors: the lines a row starts from.                                    *)

AtLeft(l) == l.left <= 160
StartsWithNumber(l) == l.int \in 0 .. 999 \/ (l.num # Nothing /\ ~l.mark /\ l.name # << >>)
Number(l) == IF l.num # Nothing THEN l.num ELSE l.int
Numbered(P) == {l \in P : AtLeft(l) /\ StartsWithNumber(l) /\ l.word \notin Keywords}

\* Numbers the OCR misread, believed if an amount stands just below at the right.
Misread(P, known) ==
    {l \in P \ known : /\ AtLeft(l) /\ l.num # Nothing /\ ~(\A i \in DOMAIN l.name : l.name[i] \in English)
                       /\ \E o \in P : /\ o.x > 600 /\ o.int >= 1000
                                       /\ 2 * l.y - l.h <= 2 * o.y /\ 2 * o.y <= 2 * l.y + 5 * l.h}

\* Lines of a receipt without numbers that have their numbers beside them.
NameAnchors(P, c, drops) ==
    LET Near(l) == {o \in P \ {l} : 100 * Gap(o.y, l.y) <= Most(2000, 65 * l.h)}
        Barcode(l) == \E o \in P : o.word = "barcode" /\ o.x < 350 /\ l.y < o.y /\ 2 * o.y <= 2 * l.y + 3 * l.h
    IN {l \in P : /\ AtLeft(l) /\ ~StartsWithNumber(l) /\ HasLetters(l) /\ l.word \notin drops /\ l.word # "redacted"
                  /\ Amount(Near(l), c, l.y) # Nothing
                  /\ \/ Quantity(Near(l), c, l.y) # Nothing
                     \/ UnitPrice(Near(l), c, l.y) # Nothing
                     \/ Barcode(l)}

\* Those with a number, above the summary.
NumberAnchors(P) ==
    LET exact == Numbered(P) IN
    {l \in IF exact = {} THEN {} ELSE exact \cup Misread(P, exact) : l.y < SummaryY(P)}
ColumnsFor(P, numbers) ==
    IF Cardinality(numbers) < 2 THEN MeasuredColumns(P, HeadedColumns(P)) ELSE HeadedColumns(P)

\* [of: the anchors from top to bottom, numbered, columns]
Chosen(numbers, names, columns) ==
    LET numbered == Cardinality(names) <= Cardinality(numbers) IN
    [of |-> Sorted(IF numbered THEN numbers ELSE names, LAMBDA l : l.y), numbered |-> numbered, columns |-> columns]
AnchorsIn(P, numbers, columns, drops) ==
    Chosen(numbers, IF Cardinality(numbers) < 2 THEN NameAnchors(P, columns, drops) ELSE {}, columns)
Anchors(P, drops) == AnchorsIn(P, NumberAnchors(P), ColumnsFor(P, NumberAnchors(P)), drops)

-----------------------------------------------------------------------------
(* build_receipt_product_rows(): heights are compared in twentieths.        *)

TypicalGap(A) ==
    LET n == Len(A) - 1
        gaps == SortSeq([i \in 1 .. n |-> A[i + 1].y - A[i].y], LAMBDA a, b : a < b)
    IN IF n = 0 THEN 2 * A[1].h ELSE gaps[n \div 2 + 1]

\* Mutant form: rows end halfway to the next name even where numbers stand below.
MidwayWindow(A, i, numbered) ==
    LET g == TypicalGap(A) IN
    [upper |-> IF i > 1 THEN 10 * (A[i - 1].y + A[i].y) ELSE 20 * A[i].y - 10 * g,
     lower |-> IF i < Len(A) THEN 10 * (A[i].y + A[i + 1].y) ELSE 20 * A[i].y + 10 * g]

\* A numbered name has its numbers below it, another one has them beside it.
Window(A, i, numbered) ==
    LET g == TypicalGap(A) IN
    IF numbered
    THEN [upper |-> 20 * A[i].y - 6 * g,
          lower |-> IF i < Len(A) THEN 20 * A[i + 1].y - 6 * g ELSE 20 * A[i].y + 14 * g]
    ELSE [upper |-> IF i > 1 THEN 10 * (A[i - 1].y + A[i].y) ELSE 20 * A[i].y - 10 * g,
          lower |-> IF i < Len(A) THEN 10 * (A[i].y + A[i + 1].y) ELSE 20 * A[i].y + 10 * g]

Tokens(P, anchor, w) ==
    {l \in P \ {anchor} : w.upper <= 20 * l.y /\ 20 * l.y < Least(w.lower, 20 * SummaryY(P))}
NameTokens(T) ==
    {l \in T : /\ 120 <= l.x /\ l.x < 850 /\ HasLetters(l)
               /\ l.word \notin NotAName \cup {"code"} /\ ~IsMetadata(l)}

\* The name of a row: the anchor's own, then what stands in the window from left to right.
NameLine(anchor, T) ==
    LET parts == (IF anchor.name # << >> THEN <<[anchor EXCEPT !.num = Nothing]>> ELSE << >>)
                 \o Sorted(NameTokens(T), LAMBDA l : l.x)
        sizes == SelectSeq(parts, LAMBDA l : l.size > 0)
    IN IF parts = << >> THEN None
       ELSE [parts[1] EXCEPT !.name = FoldLeft(LAMBDA n, l : n \o l.name, << >>, parts),
                             !.conf = FoldLeft(LAMBDA n, l : Least(n, l.conf), 100, parts),
                             !.size = IF sizes = << >> THEN 0 ELSE sizes[1].size,
                             !.int = Nothing]

\* What a row takes as its quantity: the price before the column, then one
\* piece for a barcode or an amount, then a number before the name.
RowQuantity(T, unit, quantity, amount, prefix) ==
    LET read == IF quantity \in 1 .. 100 THEN quantity ELSE Nothing IN
    CASE FromPrice(unit, amount) # Nothing -> FromPrice(unit, amount)
      [] FromPrice(unit, amount) = Nothing /\ read # Nothing -> read
      [] OTHER -> IF amount # Nothing \/ \E l \in T : l.word = "barcode" THEN 1 ELSE prefix

\* A number before the name counts pieces unless the numbers run from 001 on.
Prefix(a, i) ==
    LET n == Number(a.of[i])
        sequence == (\A k \in DOMAIN a.of : Number(a.of[k]) = k) /\ \E k \in DOMAIN a.of : a.of[k].digits = 3
    IN IF a.numbered /\ ~sequence /\ n <= 100 THEN n ELSE Nothing
RowFrom(a, i, T, unit, amount) ==
    [line |-> NameLine(a.of[i], T), amount |-> amount,
     quantity |-> RowQuantity(T, unit, Quantity(T, a.columns, a.of[i].y), amount, Prefix(a, i))]
ProductRow(P, a, i) ==
    LET T == Tokens(P, a.of[i], Window(a.of, i, a.numbered)) IN
    RowFrom(a, i, T, UnitPrice(T, a.columns, a.of[i].y), Amount(T, a.columns, a.of[i].y))
RowsAt(P, a) == SelectSeq([i \in DOMAIN a.of |-> ProductRow(P, a, i)], LAMBDA r : r.line # None)
ProductRows(L, drops) == RowsAt(Positioned(L), Anchors(Positioned(L), drops))

\* build_supplemental_receipt_rows(): numbers for known foods outside the rows.
ExtraQuantity(read, priced, amount) ==
    CASE read # Nothing -> read
      [] read = Nothing /\ priced # Nothing -> priced
      [] OTHER -> IF amount # Nothing THEN 1 ELSE Nothing
ExtraRow(P, c, A, i) ==
    LET h == Most(A[i].h, 1)
        y == A[i].y
        upper == IF i > 1 THEN A[i - 1].y + y ELSE 2 * (y - h)
        lower == Least(2 * SummaryY(P), IF i < Len(A) THEN y + A[i + 1].y ELSE 2 * (y + 3 * h))
        T == {l \in P : l.no # A[i].no /\ upper <= 2 * l.y /\ 2 * l.y < lower}
        amount == Amount(T, c, y)
    IN [line |-> A[i], amount |-> amount,
        quantity |-> ExtraQuantity(Quantity(T, c, y), FromPrice(UnitPrice(T, c, y), amount), amount)]
ExtraRows(P, c, A) == [i \in DOMAIN A |-> ExtraRow(P, c, A, i)]
SupplementalRows(L, S) ==
    ExtraRows(Positioned(L), ColumnsFor(Positioned(L), {}), Sorted(Positioned(S), LAMBDA l : l.y))

-----------------------------------------------------------------------------
(* parse_measurement(): a size, else the quantity of the row, else one.     *)

Measure(l, hint) ==
    CASE l.size > 0 -> [type |-> "WEIGHT", quantity |-> Nothing, seen |-> TRUE]
      [] l.size = 0 /\ l.pieces \in 1 .. 100 -> [type |-> "COUNT", quantity |-> l.pieces, seen |-> TRUE]
      [] OTHER -> IF hint \in 1 .. 100 THEN [type |-> "COUNT", quantity |-> hint, seen |-> TRUE]
                  ELSE [type |-> "COUNT", quantity |-> 1, seen |-> FALSE]
Storage(category) == IF category \in {"MEAT", "SEAFOOD"} THEN "FROZEN" ELSE "REFRIGERATED"
=============================================================================
