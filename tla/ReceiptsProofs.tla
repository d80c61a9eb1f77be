---------------------------- MODULE ReceiptsProofs ----------------------------
(***************************************************************************)
(* Proofs about Receipts: a feedback counts once however often it is sent,  *)
(* what a fridge corrected stays with that fridge, and the items of an      *)
(* analysis rest on its photo and on right answers to its own texts.        *)
(***************************************************************************)
EXTENDS Receipts, SequenceTheorems, FiniteSetTheorems, TLAPS

-----------------------------------------------------------------------------
(* The invariant.                                                           *)

Sequence(s) == s \in Seq(Range(s))
Phases == {"idle", "view", "begin", "recheck", "keys", "commit", "committed", "answered", "refused", "failed"}
Inside == {"recheck", "keys", "commit"}

\* The variables have the fields the operations expect.
RunRecord(x) == /\ x = [phase |-> x.phase, matches |-> x.matches, loaded |-> x.loaded, items |-> x.items]
                /\ Sequence(x.matches)
ClientRecord(x) == /\ x = [phase |-> x.phase, try |-> x.try, keys |-> x.keys, held |-> x.held,
                           absent |-> x.absent, told |-> x.told]
                   /\ x.phase \in Phases
                   /\ Sequence(x.keys)
Shapes == /\ scene \in Scenes
          /\ context = [a \in Analyses |-> context[a]]
          /\ run = [a \in Analyses |-> run[a]]
          /\ \A a \in Analyses : RunRecord(run[a])
          /\ client = [c \in Clients |-> client[c]]
          /\ \A c \in Clients : ClientRecord(client[c])

\* No lock has two holders.
Excluded == \A c, o \in Clients : c # o => client[c].held \cap client[o].held = {}

\* A transaction holds the lock of its analysis.  Its keys are fixed, held or
\* still to be locked, and all locked when the corrections were read; what was
\* absent then is absent still.
Keyed(c, x) ==
    /\ x.phase \in Inside => <<Request(c).analysis>> \in x.held
    /\ x.phase \in Inside \cup {"begin"} => run[Request(c).analysis].phase = "done"
    /\ x.phase = "keys" => LearnedKeys(c) \subseteq x.held \cup Range(x.keys)
    /\ x.phase = "commit" => /\ LearnedKeys(c) \subseteq x.held
                             /\ x.absent \subseteq LearnedKeys(c)
                             /\ \A o \in corrections : o.key \in x.absent => o.fridge # Request(c).fridge

\* After the second look a transaction knows its analysis has no feedback, and
\* every answer tells of rows there are.
Told(c, x) ==
    /\ x.phase \in {"keys", "commit"} => RowsOf(Request(c).analysis) = {}
    /\ x.phase \in {"committed", "answered"} => \E r \in RowsOf(Request(c).analysis) : r.id = x.told

OneRequest == \A r, o \in rows : r.analysis = o.analysis => r.id = o.id

FeedbackInv == /\ Excluded
               /\ \A c \in Clients : Keyed(c, client[c]) /\ Told(c, client[c])
               /\ OneRequest

\* The store behind the lookups is a dictionary of bounded size.
Entry(e) == e = [key |-> CacheKey(e.key.fridge, e.key.key), value |-> e.value, expired |-> e.expired]
Dictionary(s) ==
    /\ Sequence(s)
    /\ \A i \in DOMAIN s : Entry(s[i])
    /\ \A i, j \in DOMAIN s : s[i].key = s[j].key => i = j
CacheInv == Dictionary(cache) /\ Len(cache) <= CacheSize

\* A match learned from a correction is one this fridge gave for this text.
Home(R, m, fridge, key) ==
    m # None /\ m.via = "learned" =>
        \E r \in R : r.fridge = fridge /\ r.key = key /\ r.name = m.name /\ r.category = m.category
Backed(R, o) == \E r \in R : r.fridge = o.fridge /\ r.key = o.key /\ r.name = o.name /\ r.category = o.category
HomeRun(R, a, x, fridge) ==
    /\ x.phase # "new" => fridge = Fridge(a)
    /\ x.phase = "loading" => Home(R, x.loaded, Fridge(a), Texts(a)[Len(x.matches) + 1])
    /\ \A i \in DOMAIN x.matches : Home(R, x.matches[i], Fridge(a), Texts(a)[i])
HomeInv ==
    /\ \A o \in corrections : Backed(rows, o)
    /\ \A i \in DOMAIN cache : Home(rows, cache[i].value, cache[i].key.fridge, cache[i].key.key)
    /\ \A a \in Analyses : HomeRun(rows, a, run[a], context[a])

IInv == Shapes /\ FeedbackInv /\ CacheInv /\ HomeInv

-----------------------------------------------------------------------------
(* The cache.                                                               *)

\* What stands in the part stands in the whole.
PartOf(s, t) == \A i \in DOMAIN s : \E j \in DOMAIN t : s[i] = t[j]

LEMMA RangeOfSequence ==
    ASSUME NEW S, NEW s \in Seq(S)
    PROVE  Sequence(s) /\ Len(s) \in Nat /\ DOMAIN s = 1 .. Len(s)
BY DEF Sequence, Range

LEMMA RemovalFacts ==
    ASSUME NEW S, NEW s \in Seq(S), NEW k \in DOMAIN s
    PROVE  /\ RemoveAt(s, k) \in Seq(S)
           /\ Len(RemoveAt(s, k)) = Len(s) - 1
           /\ \A i \in 1 .. Len(s) - 1 : RemoveAt(s, k)[i] = s[IF i < k THEN i ELSE i + 1]
<1> DEFINE front == SubSeq(s, 1, k - 1)
           back == SubSeq(s, k + 1, Len(s))
           rest == front \o back
<1>1. Len(s) \in Nat /\ DOMAIN s = 1 .. Len(s) /\ k \in 1 .. Len(s) /\ \A n \in 1 .. Len(s) : s[n] \in S
    BY LenProperties
<1>2. front \in Seq(S) /\ Len(front) = k - 1 /\ \A n \in 1 .. k - 1 : front[n] = s[n]
    <2>1. 1 \in Int /\ k - 1 \in Int /\ \A n \in 1 .. k - 1 : s[n] \in S
        BY <1>1
    <2> QED
        BY <2>1, <1>1, SubSeqProperties
<1>3. back \in Seq(S) /\ Len(back) = Len(s) - k /\ \A n \in 1 .. Len(s) - k : back[n] = s[n + k]
    <2>1. k + 1 \in Int /\ Len(s) \in Int /\ \A n \in k + 1 .. Len(s) : s[n] \in S
        BY <1>1
    <2>2. /\ back \in Seq(S)
          /\ Len(back) = IF k + 1 <= Len(s) THEN Len(s) - (k + 1) + 1 ELSE 0
          /\ \A n \in 1 .. Len(s) - (k + 1) + 1 : back[n] = s[k + 1 + n - 1]
        BY <2>1, SubSeqProperties
    <2> HIDE DEF back
    <2>3. \A n \in 1 .. Len(s) - k : n \in 1 .. Len(s) - (k + 1) + 1 /\ k + 1 + n - 1 = n + k
        BY <1>1
    <2>4. Len(back) = Len(s) - k
        BY <1>1, <2>2
    <2> QED
        BY <2>2, <2>3, <2>4
<1> HIDE DEF front, back
<1>4. /\ rest \in Seq(S) /\ Len(rest) = Len(front) + Len(back)
      /\ \A n \in 1 .. Len(front) + Len(back) :
             rest[n] = IF n <= Len(front) THEN front[n] ELSE back[n - Len(front)]
    BY <1>2, <1>3, ConcatProperties
<1>5. RemoveAt(s, k) = rest
    BY DEF RemoveAt, front, back
<1> HIDE DEF rest
<1>6. Len(rest) = Len(s) - 1 /\ Len(front) + Len(back) = Len(s) - 1
    BY <1>1, <1>2, <1>3, <1>4
<1>7. ASSUME NEW n \in 1 .. Len(s) - 1 PROVE rest[n] = s[IF n < k THEN n ELSE n + 1]
    <2>1. CASE n < k
        BY <2>1, <1>1, <1>2, <1>4, <1>6
    <2>2. CASE ~(n < k)
        <3>1. n - (k - 1) \in 1 .. Len(s) - k /\ n - (k - 1) + k = n + 1 /\ ~(n <= k - 1)
            BY <2>2, <1>1
        <3>2. rest[n] = back[n - (k - 1)]
            BY <3>1, <1>2, <1>4, <1>6
        <3> QED
            BY <3>1, <3>2, <2>2, <1>3
    <2> QED
        BY <2>1, <2>2
<1> QED
    BY <1>4, <1>5, <1>6, <1>7

LEMMA DictionaryRemoval ==
    ASSUME NEW s, Dictionary(s), NEW k \in DOMAIN s
    PROVE  /\ Dictionary(RemoveAt(s, k))
           /\ PartOf(RemoveAt(s, k), s)
           /\ \A i \in DOMAIN RemoveAt(s, k) : RemoveAt(s, k)[i].key # s[k].key
           /\ Len(RemoveAt(s, k)) = Len(s) - 1
<1> DEFINE t == RemoveAt(s, k)
           At(i) == IF i < k THEN i ELSE i + 1
<1>1. s \in Seq(Range(s)) /\ Len(s) \in Nat /\ DOMAIN s = 1 .. Len(s)
    BY RangeOfSequence DEF Dictionary, Sequence
<1>2. /\ t \in Seq(Range(s))
      /\ Len(t) = Len(s) - 1
      /\ \A i \in 1 .. Len(s) - 1 : t[i] = s[At(i)]
    BY <1>1, RemovalFacts
<1>3. Sequence(t) /\ DOMAIN t = 1 .. Len(s) - 1
    BY <1>2, RangeOfSequence
<1> HIDE DEF t
<1>4. \A i \in DOMAIN t : At(i) \in DOMAIN s /\ t[i] = s[At(i)] /\ At(i) # k
    BY <1>1, <1>2, <1>3
<1>5. \A i, j \in DOMAIN t : At(i) = At(j) => i = j
    BY <1>1, <1>3
<1> HIDE DEF At
<1>6. Dictionary(t)
    BY <1>3, <1>4, <1>5 DEF Dictionary
<1>7. PartOf(t, s) /\ \A i \in DOMAIN t : t[i].key # s[k].key
    BY <1>4 DEF PartOf, Dictionary
<1> QED
    BY <1>2, <1>6, <1>7 DEF t

LEMMA OtherFacts ==
    ASSUME CacheInv, NEW k
    PROVE  /\ Dictionary(Other(k)) /\ PartOf(Other(k), cache)
           /\ \A i \in DOMAIN Other(k) : Other(k)[i].key # k
           /\ Len(Other(k)) <= CacheSize
           /\ (\E i \in DOMAIN cache : cache[i].key = k) => Len(Other(k)) = Len(cache) - 1
<1>1. Dictionary(cache) /\ Len(cache) \in Nat /\ Len(cache) <= CacheSize /\ CacheSize \in Nat
    BY RangeOfSequence, ReceiptsAssumption DEF CacheInv, Dictionary, Sequence, ReceiptsAssumption
<1>2. CASE \E i \in DOMAIN cache : cache[i].key = k
    <2> DEFINE i == CHOOSE i \in DOMAIN cache : cache[i].key = k
    <2>1. i \in DOMAIN cache /\ cache[i].key = k
        BY <1>2
    <2>2. Other(k) = RemoveAt(cache, i)
        BY <1>2 DEF Other
    <2> HIDE DEF i
    <2>3. /\ Dictionary(Other(k))
          /\ PartOf(Other(k), cache)
          /\ \A j \in DOMAIN Other(k) : Other(k)[j].key # k
          /\ Len(Other(k)) = Len(cache) - 1
        BY <1>1, <2>1, <2>2, DictionaryRemoval
    <2> QED
        BY <1>1, <2>3
<1>3. CASE ~\E i \in DOMAIN cache : cache[i].key = k
    BY <1>1, <1>3 DEF Other, PartOf
<1> QED
    BY <1>2, <1>3

LEMMA DictionaryAppend ==
    ASSUME NEW s, Dictionary(s), NEW e, Entry(e), \A i \in DOMAIN s : s[i].key # e.key
    PROVE  /\ Dictionary(Append(s, e)) /\ Len(Append(s, e)) = Len(s) + 1
           /\ \A i \in DOMAIN Append(s, e) : Append(s, e)[i] = e \/ \E j \in DOMAIN s : Append(s, e)[i] = s[j]
<1> DEFINE t == Append(s, e)
<1>1. s \in Seq(Range(s)) /\ Len(s) \in Nat /\ DOMAIN s = 1 .. Len(s)
    BY RangeOfSequence DEF Dictionary, Sequence
<1>2. s \in Seq(Range(s) \cup {e})
    BY <1>1
<1>3. /\ t \in Seq(Range(s) \cup {e})
      /\ Len(t) = Len(s) + 1
      /\ \A i \in 1 .. Len(s) : t[i] = s[i]
      /\ t[Len(s) + 1] = e
    BY <1>1, <1>2
<1>4. Sequence(t) /\ DOMAIN t = 1 .. Len(s) + 1
    BY <1>3, RangeOfSequence
<1> HIDE DEF t
<1>5. \A i \in DOMAIN t : \/ i \in DOMAIN s /\ t[i] = s[i]
                          \/ i = Len(s) + 1 /\ t[i] = e
    BY <1>1, <1>3, <1>4
<1>6. Dictionary(t)
    BY <1>4, <1>5 DEF Dictionary
<1> QED
    BY <1>3, <1>5, <1>6 DEF t

LEMMA DictionaryEnd ==
    ASSUME NEW s, Dictionary(s), NEW m \in 1 .. Len(s) + 1
    PROVE  /\ Dictionary(SubSeq(s, m, Len(s))) /\ PartOf(SubSeq(s, m, Len(s)), s)
           /\ Len(SubSeq(s, m, Len(s))) = Len(s) - m + 1
<1> DEFINE t == SubSeq(s, m, Len(s))
<1>1. s \in Seq(Range(s)) /\ Len(s) \in Nat /\ DOMAIN s = 1 .. Len(s) /\ m \in Nat \ {0}
    BY RangeOfSequence DEF Dictionary, Sequence
<1>2. /\ t \in Seq(Range(s))
      /\ Len(t) = Len(s) - m + 1
      /\ \A i \in 1 .. Len(s) - m + 1 : t[i] = s[m + i - 1]
    BY <1>1
<1>3. Sequence(t) /\ DOMAIN t = 1 .. Len(s) - m + 1
    BY <1>2, RangeOfSequence
<1> HIDE DEF t
<1>4. \A i \in DOMAIN t : m + i - 1 \in DOMAIN s /\ t[i] = s[m + i - 1]
    BY <1>1, <1>2, <1>3
<1>5. \A i, j \in DOMAIN t : m + i - 1 = m + j - 1 => i = j
    BY <1>1, <1>3
<1>6. Dictionary(t) /\ PartOf(t, s)
    BY <1>3, <1>4, <1>5 DEF Dictionary, PartOf
<1> QED
    BY <1>2, <1>6 DEF t

NewEntry(k, value) == [key |-> k, value |-> value, expired |-> FALSE]

LEMMA PutFacts ==
    ASSUME CacheInv, NEW k, k = CacheKey(k.fridge, k.key), NEW value
    PROVE  /\ Dictionary(Put(k, value)) /\ Len(Put(k, value)) <= CacheSize
           /\ \A i \in DOMAIN Put(k, value) :
                  Put(k, value)[i] = NewEntry(k, value) \/ \E j \in DOMAIN cache : Put(k, value)[i] = cache[j]
<1> DEFINE new == [key |-> k, value |-> value, expired |-> FALSE]
           full == Append(Other(k), new)
           m == Most(1, Len(full) - CacheSize + 1)
<1>1. Entry(new)
    BY DEF Entry, CacheKey
<1>2. /\ Dictionary(Other(k)) /\ PartOf(Other(k), cache) /\ Len(Other(k)) <= CacheSize
      /\ \A i \in DOMAIN Other(k) : Other(k)[i].key # new.key
    BY OtherFacts
<1>3. Put(k, value) = SubSeq(full, m, Len(full))
    BY DEF Put
<1>4. Len(Other(k)) \in Nat /\ CacheSize \in Nat \ {0}
    BY <1>2, RangeOfSequence, ReceiptsAssumption DEF Dictionary, Sequence, ReceiptsAssumption
<1> HIDE DEF new
<1>5. /\ Dictionary(full) /\ Len(full) = Len(Other(k)) + 1
      /\ \A i \in DOMAIN full : full[i] = new \/ \E j \in DOMAIN Other(k) : full[i] = Other(k)[j]
    BY <1>1, <1>2, DictionaryAppend
<1> HIDE DEF full
<1>6. m \in 1 .. Len(full) + 1 /\ Len(full) - m + 1 <= CacheSize
    BY <1>2, <1>4, <1>5 DEF Most
<1> HIDE DEF m
<1>7. /\ Dictionary(Put(k, value)) /\ PartOf(Put(k, value), full)
      /\ Len(Put(k, value)) <= CacheSize
    BY <1>3, <1>5, <1>6, DictionaryEnd
<1>8. \A i \in DOMAIN Put(k, value) : Put(k, value)[i] = new \/ \E j \in DOMAIN cache : Put(k, value)[i] = cache[j]
    BY <1>2, <1>5, <1>7 DEF PartOf
<1> QED
    BY <1>7, <1>8 DEF NewEntry, new

LEMMA ForgottenFacts ==
    ASSUME CacheInv, NEW keys, NEW s \in Forgotten(keys)
    PROVE  Dictionary(s) /\ PartOf(s, cache) /\ Len(s) <= CacheSize
<1> DEFINE stay == Staying(keys)
           n == Cardinality(stay)
<1>1. /\ cache \in Seq(Range(cache)) /\ Len(cache) \in Nat /\ DOMAIN cache = 1 .. Len(cache)
      /\ Dictionary(cache) /\ Len(cache) <= CacheSize /\ CacheSize \in Nat
    BY RangeOfSequence, ReceiptsAssumption DEF CacheInv, Dictionary, Sequence, ReceiptsAssumption
<1>2. IsFiniteSet(1 .. Len(cache)) /\ Cardinality(1 .. Len(cache)) = Len(cache)
    <2>1. 1 \in Int /\ Len(cache) \in Int /\ Len(cache) - 1 + 1 = Len(cache) /\ (1 > Len(cache) => Len(cache) = 0)
        BY <1>1
    <2> QED
        BY <2>1, FS_Interval
<1>3. stay \subseteq 1 .. Len(cache)
    BY <1>1 DEF Staying
<1>4. n \in Nat /\ n <= Len(cache)
    BY <1>1, <1>2, <1>3, FS_Subset, FS_CardinalityType
<1>5. PICK t \in [1 .. n -> stay] : /\ \A i, j \in DOMAIN t : i < j => t[i] < t[j]
                                    /\ s = [i \in DOMAIN t |-> cache[t[i]]]
    BY DEF Forgotten
<1>6. DOMAIN t = 1 .. n /\ \A i \in 1 .. n : t[i] \in DOMAIN cache /\ s[i] = cache[t[i]]
    BY <1>1, <1>3, <1>5
<1>7. s \in [1 .. n -> Range(cache)]
    BY <1>5, <1>6 DEF Range
<1>8. s \in Seq(Range(cache)) /\ Len(s) = n
    BY <1>4, <1>7
<1>9. Sequence(s) /\ DOMAIN s = 1 .. n
    BY <1>8, RangeOfSequence
<1>10. \A i, j \in 1 .. n : t[i] = t[j] => i = j
    <2> SUFFICES ASSUME NEW i \in 1 .. n, NEW j \in 1 .. n, i # j PROVE t[i] # t[j]
        OBVIOUS
    <2>1. t[i] \in Nat /\ t[j] \in Nat
        BY <1>1, <1>6
    <2>2. i < j \/ j < i
        BY <1>4
    <2> QED
        BY <1>5, <1>6, <2>1, <2>2
<1>11. Dictionary(s) /\ PartOf(s, cache)
    BY <1>1, <1>6, <1>9, <1>10 DEF Dictionary, PartOf
<1> QED
    BY <1>1, <1>4, <1>8, <1>11

-----------------------------------------------------------------------------
(* Records with some fields changed, written out.                           *)

Phased(x, p) == [x EXCEPT !.phase = p]
Matched(x, p, m, l) == [x EXCEPT !.phase = p, !.matches = m, !.loaded = l]
Loading(x, p, l) == [x EXCEPT !.phase = p, !.loaded = l]
Validated(x, p, i) == [x EXCEPT !.phase = p, !.items = i]
Ended(x, p, k, h, a, t) == [x EXCEPT !.phase = p, !.keys = k, !.held = h, !.absent = a, !.told = t]
Locked(x, p, h) == [x EXCEPT !.phase = p, !.held = h]
Keying(x, p, k) == [x EXCEPT !.phase = p, !.keys = k]
KeyLocked(x, k, h) == [x EXCEPT !.keys = k, !.held = h]
HavingRead(x, p, a) == [x EXCEPT !.phase = p, !.absent = a]
Trying(x, n) == [x EXCEPT !.try = n]

LEMMA RunPhase ==
    ASSUME NEW P, NEW M, NEW L, NEW I,
           NEW x, x = [phase |-> P, matches |-> M, loaded |-> L, items |-> I], NEW p
    PROVE  Phased(x, p)
           = [phase |-> p, matches |-> M, loaded |-> L, items |-> I]
<1> DEFINE y == [x EXCEPT !.phase = p]
           T == [phase : {P, p}, matches : {M}, loaded : {L}, items : {I}]
<1>1. x \in T
    OBVIOUS
<1>2. y \in T
    BY <1>1
<1>3. y.phase = p /\ y.matches = M /\ y.loaded = L /\ y.items = I
    BY <1>1
<1> HIDE DEF y
<1>4. y = [phase |-> y.phase, matches |-> y.matches, loaded |-> y.loaded, items |-> y.items]
    BY <1>2
<1> QED
    BY <1>3, <1>4 DEF y, Phased

LEMMA RunFound ==
    ASSUME NEW P, NEW M, NEW L, NEW I,
           NEW x, x = [phase |-> P, matches |-> M, loaded |-> L, items |-> I], NEW l, NEW m, NEW p
    PROVE  Matched(x, p, m, l)
           = [phase |-> p, matches |-> m, loaded |-> l, items |-> I]
<1> DEFINE y == [x EXCEPT !.phase = p, !.matches = m, !.loaded = l]
           T == [phase : {P, p}, matches : {M, m}, loaded : {L, l}, items : {I}]
<1>1. x \in T
    OBVIOUS
<1>2. y \in T
    BY <1>1
<1>3. y.phase = p /\ y.matches = m /\ y.loaded = l /\ y.items = I
    BY <1>1
<1> HIDE DEF y
<1>4. y = [phase |-> y.phase, matches |-> y.matches, loaded |-> y.loaded, items |-> y.items]
    BY <1>2
<1> QED
    BY <1>3, <1>4 DEF y, Matched

LEMMA RunLoading ==
    ASSUME NEW P, NEW M, NEW L, NEW I,
           NEW x, x = [phase |-> P, matches |-> M, loaded |-> L, items |-> I], NEW l, NEW p
    PROVE  Loading(x, p, l)
           = [phase |-> p, matches |-> M, loaded |-> l, items |-> I]
<1> DEFINE y == [x EXCEPT !.phase = p, !.loaded = l]
           T == [phase : {P, p}, matches : {M}, loaded : {L, l}, items : {I}]
<1>1. x \in T
    OBVIOUS
<1>2. y \in T
    BY <1>1
<1>3. y.phase = p /\ y.matches = M /\ y.loaded = l /\ y.items = I
    BY <1>1
<1> HIDE DEF y
<1>4. y = [phase |-> y.phase, matches |-> y.matches, loaded |-> y.loaded, items |-> y.items]
    BY <1>2
<1> QED
    BY <1>3, <1>4 DEF y, Loading

LEMMA RunDone ==
    ASSUME NEW P, NEW M, NEW L, NEW I,
           NEW x, x = [phase |-> P, matches |-> M, loaded |-> L, items |-> I], NEW i, NEW p
    PROVE  Validated(x, p, i)
           = [phase |-> p, matches |-> M, loaded |-> L, items |-> i]
<1> DEFINE y == [x EXCEPT !.phase = p, !.items = i]
           T == [phase : {P, p}, matches : {M}, loaded : {L}, items : {I, i}]
<1>1. x \in T
    OBVIOUS
<1>2. y \in T
    BY <1>1
<1>3. y.phase = p /\ y.matches = M /\ y.loaded = L /\ y.items = i
    BY <1>1
<1> HIDE DEF y
<1>4. y = [phase |-> y.phase, matches |-> y.matches, loaded |-> y.loaded, items |-> y.items]
    BY <1>2
<1> QED
    BY <1>3, <1>4 DEF y, Validated

LEMMA ClientPhase ==
    ASSUME NEW P, NEW N, NEW K, NEW H, NEW A, NEW D,
           NEW x, x = [phase |-> P, try |-> N, keys |-> K, held |-> H, absent |-> A, told |-> D], NEW p
    PROVE  Phased(x, p)
           = [phase |-> p, try |-> N, keys |-> K, held |-> H, absent |-> A, told |-> D]
<1> DEFINE y == [x EXCEPT !.phase = p]
           T == [phase : {P, p}, try : {N}, keys : {K}, held : {H}, absent : {A}, told : {D}]
<1>1. x \in T
    OBVIOUS
<1>2. y \in T
    BY <1>1
<1>3. y.phase = p /\ y.try = N /\ y.keys = K /\ y.held = H /\ y.absent = A /\ y.told = D
    BY <1>1
<1> HIDE DEF y
<1>4. y = [phase |-> y.phase, try |-> y.try, keys |-> y.keys, held |-> y.held, absent |-> y.absent, told |-> y.told]
    BY <1>2
<1> QED
    BY <1>3, <1>4 DEF y, Phased

LEMMA ClientEnds ==
    ASSUME NEW P, NEW N, NEW K, NEW H, NEW A, NEW D,
           NEW x, x = [phase |-> P, try |-> N, keys |-> K, held |-> H, absent |-> A, told |-> D], NEW p, NEW k, NEW h, NEW a, NEW t
    PROVE  Ended(x, p, k, h, a, t)
           = [phase |-> p, try |-> N, keys |-> k, held |-> h, absent |-> a, told |-> t]
<1> DEFINE y == [x EXCEPT !.phase = p, !.keys = k, !.held = h, !.absent = a, !.told = t]
           T == [phase : {P, p}, try : {N}, keys : {K, k}, held : {H, h}, absent : {A, a}, told : {D, t}]
<1>1. x \in T
    OBVIOUS
<1>2. y \in T
    BY <1>1
<1>3. y.phase = p /\ y.try = N /\ y.keys = k /\ y.held = h /\ y.absent = a /\ y.told = t
    BY <1>1
<1> HIDE DEF y
<1>4. y = [phase |-> y.phase, try |-> y.try, keys |-> y.keys, held |-> y.held, absent |-> y.absent, told |-> y.told]
    BY <1>2
<1> QED
    BY <1>3, <1>4 DEF y, Ended

LEMMA ClientLocks ==
    ASSUME NEW P, NEW N, NEW K, NEW H, NEW A, NEW D,
           NEW x, x = [phase |-> P, try |-> N, keys |-> K, held |-> H, absent |-> A, told |-> D], NEW h, NEW p
    PROVE  Locked(x, p, h)
           = [phase |-> p, try |-> N, keys |-> K, held |-> h, absent |-> A, told |-> D]
<1> DEFINE y == [x EXCEPT !.phase = p, !.held = h]
           T == [phase : {P, p}, try : {N}, keys : {K}, held : {H, h}, absent : {A}, told : {D}]
<1>1. x \in T
    OBVIOUS
<1>2. y \in T
    BY <1>1
<1>3. y.phase = p /\ y.try = N /\ y.keys = K /\ y.held = h /\ y.absent = A /\ y.told = D
    BY <1>1
<1> HIDE DEF y
<1>4. y = [phase |-> y.phase, try |-> y.try, keys |-> y.keys, held |-> y.held, absent |-> y.absent, told |-> y.told]
    BY <1>2
<1> QED
    BY <1>3, <1>4 DEF y, Locked

LEMMA ClientKeys ==
    ASSUME NEW P, NEW N, NEW K, NEW H, NEW A, NEW D,
           NEW x, x = [phase |-> P, try |-> N, keys |-> K, held |-> H, absent |-> A, told |-> D], NEW k, NEW p
    PROVE  Keying(x, p, k)
           = [phase |-> p, try |-> N, keys |-> k, held |-> H, absent |-> A, told |-> D]
<1> DEFINE y == [x EXCEPT !.phase = p, !.keys = k]
           T == [phase : {P, p}, try : {N}, keys : {K, k}, held : {H}, absent : {A}, told : {D}]
<1>1. x \in T
    OBVIOUS
<1>2. y \in T
    BY <1>1
<1>3. y.phase = p /\ y.try = N /\ y.keys = k /\ y.held = H /\ y.absent = A /\ y.told = D
    BY <1>1
<1> HIDE DEF y
<1>4. y = [phase |-> y.phase, try |-> y.try, keys |-> y.keys, held |-> y.held, absent |-> y.absent, told |-> y.told]
    BY <1>2
<1> QED
    BY <1>3, <1>4 DEF y, Keying

LEMMA ClientNextKey ==
    ASSUME NEW P, NEW N, NEW K, NEW H, NEW A, NEW D,
           NEW x, x = [phase |-> P, try |-> N, keys |-> K, held |-> H, absent |-> A, told |-> D], NEW h, NEW k
    PROVE  KeyLocked(x, k, h)
           = [phase |-> P, try |-> N, keys |-> k, held |-> h, absent |-> A, told |-> D]
<1> DEFINE y == [x EXCEPT !.keys = k, !.held = h]
           T == [phase : {P}, try : {N}, keys : {K, k}, held : {H, h}, absent : {A}, told : {D}]
<1>1. x \in T
    OBVIOUS
<1>2. y \in T
    BY <1>1
<1>3. y.phase = P /\ y.try = N /\ y.keys = k /\ y.held = h /\ y.absent = A /\ y.told = D
    BY <1>1
<1> HIDE DEF y
<1>4. y = [phase |-> y.phase, try |-> y.try, keys |-> y.keys, held |-> y.held, absent |-> y.absent, told |-> y.told]
    BY <1>2
<1> QED
    BY <1>3, <1>4 DEF y, KeyLocked

LEMMA ClientReads ==
    ASSUME NEW P, NEW N, NEW K, NEW H, NEW A, NEW D,
           NEW x, x = [phase |-> P, try |-> N, keys |-> K, held |-> H, absent |-> A, told |-> D], NEW a, NEW p
    PROVE  HavingRead(x, p, a)
           = [phase |-> p, try |-> N, keys |-> K, held |-> H, absent |-> a, told |-> D]
<1> DEFINE y == [x EXCEPT !.phase = p, !.absent = a]
           T == [phase : {P, p}, try : {N}, keys : {K}, held : {H}, absent : {A, a}, told : {D}]
<1>1. x \in T
    OBVIOUS
<1>2. y \in T
    BY <1>1
<1>3. y.phase = p /\ y.try = N /\ y.keys = K /\ y.held = H /\ y.absent = a /\ y.told = D
    BY <1>1
<1> HIDE DEF y
<1>4. y = [phase |-> y.phase, try |-> y.try, keys |-> y.keys, held |-> y.held, absent |-> y.absent, told |-> y.told]
    BY <1>2
<1> QED
    BY <1>3, <1>4 DEF y, HavingRead

LEMMA ClientTries ==
    ASSUME NEW P, NEW N, NEW K, NEW H, NEW A, NEW D,
           NEW x, x = [phase |-> P, try |-> N, keys |-> K, held |-> H, absent |-> A, told |-> D], NEW n
    PROVE  Trying(x, n)
           = [phase |-> P, try |-> n, keys |-> K, held |-> H, absent |-> A, told |-> D]
<1> DEFINE y == [x EXCEPT !.try = n]
           T == [phase : {P}, try : {N, n}, keys : {K}, held : {H}, absent : {A}, told : {D}]
<1>1. x \in T
    OBVIOUS
<1>2. y \in T
    BY <1>1
<1>3. y.phase = P /\ y.try = n /\ y.keys = K /\ y.held = H /\ y.absent = A /\ y.told = D
    BY <1>1
<1> HIDE DEF y
<1>4. y = [phase |-> y.phase, try |-> y.try, keys |-> y.keys, held |-> y.held, absent |-> y.absent, told |-> y.told]
    BY <1>2
<1> QED
    BY <1>3, <1>4 DEF y, Trying

-----------------------------------------------------------------------------
(* The steps of an analysis.                                                *)

LEMMA AppendSequence ==
    ASSUME NEW s, Sequence(s), NEW e
    PROVE  /\ Sequence(Append(s, e)) /\ Len(s) \in Nat /\ DOMAIN s = 1 .. Len(s)
           /\ DOMAIN Append(s, e) = 1 .. Len(s) + 1 /\ Append(s, e)[Len(s) + 1] = e
           /\ \A i \in 1 .. Len(s) : Append(s, e)[i] = s[i]
<1>1. s \in Seq(Range(s)) /\ Len(s) \in Nat /\ DOMAIN s = 1 .. Len(s)
    BY RangeOfSequence DEF Sequence
<1>2. s \in Seq(Range(s) \cup {e})
    BY <1>1
<1>3. Append(s, e) \in Seq(Range(s) \cup {e}) /\ Len(Append(s, e)) = Len(s) + 1
    BY <1>2
<1>4. Sequence(Append(s, e)) /\ DOMAIN Append(s, e) = 1 .. Len(s) + 1
    BY <1>3, RangeOfSequence
<1> QED
    BY <1>1, <1>2, <1>4

LEMMA RunFields ==
    ASSUME NEW x, RunRecord(x), NEW p, NEW m, NEW l, NEW i, Sequence(m)
    PROVE  LET y == [phase |-> p, matches |-> m, loaded |-> l, items |-> i] IN
           /\ RunRecord(y)
           /\ y.phase = p /\ y.matches = m /\ y.loaded = l /\ y.items = i
BY DEF RunRecord

\* What an analysis does to itself and the cache.
AnalysisMoves(a, y) ==
    /\ UNCHANGED <<scene, storeVars>>
    /\ run' = [run EXCEPT ![a] = y]
    /\ RunRecord(y)
    /\ run[a].phase # "done"
    /\ \/ context' = context
       \/ context' = [context EXCEPT ![a] = Fridge(a)]
    /\ HomeRun(rows, a, y, context'[a])
    /\ Dictionary(cache') /\ Len(cache') <= CacheSize
    /\ \A i \in DOMAIN cache' : Home(rows, cache'[i].value, cache'[i].key.fridge, cache'[i].key.key)

LEMMA KeysStay ==
    ASSUME NEW c, scene' = scene, run'[Request(c).analysis] = run[Request(c).analysis]
    PROVE  LearnedKeys(c)' = LearnedKeys(c)
<1>1. Request(c)' = Request(c)
    BY DEF Request
<1>2. \A e : ItemOf(c, e)' = ItemOf(c, e)
    BY <1>1 DEF ItemOf
<1>3. \A e : LearningKey(c, e)' = LearningKey(c, e)
    BY <1>1, <1>2 DEF LearningKey
<1> QED
    BY <1>1, <1>3 DEF LearnedKeys, Key

LEMMA KnownAnalysis ==
    ASSUME Shapes, NEW c \in Clients
    PROVE  /\ Request(c).analysis \in Analyses
           /\ DOMAIN Request(c).entries = 1 .. Len(Request(c).entries)
           /\ Len(Request(c).entries) \in Nat \ {0}
<1>1. /\ Request(c).analysis \in Analyses
      /\ Sequence(Request(c).entries) /\ Request(c).entries # << >>
    BY ReceiptsAssumption DEF ReceiptsAssumption, Shapes, Request, Analyses, Clients, Sequence
<1> QED
    BY <1>1, RangeOfSequence DEF Sequence

LEMMA AnalysisStep ==
    ASSUME IInv, NEW a \in Analyses, NEW y, AnalysisMoves(a, y)
    PROVE  IInv'
<1> USE DEF AnalysisMoves
<1>1. /\ scene' = scene /\ Analyses' = Analyses /\ Clients' = Clients
      /\ rows' = rows /\ corrections' = corrections /\ client' = client
    BY DEF storeVars, Analyses, Clients
<1>2. \A b \in Analyses : run'[b] = IF b = a THEN y ELSE run[b]
    BY DEF IInv, Shapes
<1>3. \A b \in Analyses : b # a => context'[b] = context[b]
    BY DEF IInv, Shapes
<1>4. Shapes'
    <2>1. context' = [b \in Analyses |-> context'[b]]
        BY DEF IInv, Shapes
    <2>2. run' = [b \in Analyses |-> run'[b]]
        BY DEF IInv, Shapes
    <2>3. \A b \in Analyses : RunRecord(run'[b])
        BY <1>2 DEF IInv, Shapes
    <2> QED
        BY <1>1, <2>1, <2>2, <2>3 DEF IInv, Shapes
<1>5. FeedbackInv'
    <2>1. \A c \in Clients : Request(c)' = Request(c) /\ RowsOf(Request(c).analysis)' = RowsOf(Request(c).analysis)
        BY <1>1 DEF Request, RowsOf
    <2>2. \A c \in Clients : Keyed(c, client[c]) => Keyed(c, client[c])'
        <3> SUFFICES ASSUME NEW c \in Clients, Keyed(c, client[c]) PROVE Keyed(c, client[c])'
            OBVIOUS
        <3>1. CASE client[c].phase \notin Inside \cup {"begin"}
            BY <1>1, <2>1, <3>1 DEF Keyed, Inside
        <3>2. CASE client[c].phase \in Inside \cup {"begin"}
            <4>1. Request(c).analysis \in Analyses /\ run[Request(c).analysis].phase = "done"
                BY <3>2, KnownAnalysis DEF Keyed, IInv
            <4>2. run'[Request(c).analysis] = run[Request(c).analysis]
                BY <1>2, <4>1
            <4>3. LearnedKeys(c)' = LearnedKeys(c)
                BY <1>1, <4>2, KeysStay
            <4> QED
                BY <1>1, <2>1, <4>2, <4>3 DEF Keyed
        <3> QED
            BY <3>1, <3>2
    <2>3. \A c \in Clients : Told(c, client[c]) => Told(c, client[c])'
        BY <1>1, <2>1 DEF Told
    <2>4. (Excluded => Excluded') /\ (OneRequest => OneRequest')
        BY <1>1 DEF Excluded, OneRequest
    <2> QED
        BY <1>1, <2>2, <2>3, <2>4 DEF IInv, FeedbackInv
<1>6. CacheInv'
    BY DEF CacheInv
<1>7. HomeInv'
    <2>1. \A b \in Analyses : Fridge(b)' = Fridge(b) /\ Texts(b)' = Texts(b)
        BY <1>1 DEF Fridge, Texts, Photo
    <2>2. \A b \in Analyses : HomeRun(rows, b, run'[b], context'[b])
        BY <1>2, <1>3 DEF IInv, HomeInv
    <2>3. \A b \in Analyses : HomeRun(rows, b, run[b], context[b])'
        BY <1>1, <2>1, <2>2 DEF HomeRun
    <2> QED
        BY <1>1, <2>3 DEF IInv, HomeInv
<1> QED
    BY <1>4, <1>5, <1>6, <1>7 DEF IInv

\* What the database says of a text is at home where it was asked for.
LEMMA QueryIsHome ==
    ASSUME NEW fridge, NEW key, \A o \in corrections : Backed(rows, o)
    PROVE  Home(rows, Query(fridge, key), fridge, key)
<1> DEFINE own == {c \in corrections : c.key = key /\ c.fridge = fridge}
           exact == {k \in Catalog : k.text = key /\ k.via = "exact"}
           similar == {k \in Catalog : k.text = key /\ k.via = "fuzzy" /\ k.similarity >= 55 /\ Len(key) >= 2}
           Match(S, via) == LET k == CHOOSE e \in S : TRUE IN [name |-> k.name, category |-> k.category, via |-> via]
<1>1. CASE own # {}
    <2>1. Query(fridge, key) = Match(own, "learned")
        BY <1>1 DEF Query
    <2>2. PICK o \in own : Query(fridge, key) = [name |-> o.name, category |-> o.category, via |-> "learned"]
        BY <1>1, <2>1
    <2> QED
        BY <2>2 DEF Home, Backed
<1>2. CASE own = {} /\ exact # {}
    <2>1. Query(fridge, key) = Match(exact, "exact")
        BY <1>2 DEF Query
    <2>2. Query(fridge, key).via = "exact"
        BY <2>1
    <2> QED
        BY <2>2 DEF Home
<1>3. CASE own = {} /\ exact = {}
    <2>1. Query(fridge, key) = IF similar # {} THEN Match(similar, "fuzzy") ELSE None
        BY <1>3 DEF Query
    <2>2. Query(fridge, key) = None \/ Query(fridge, key).via = "fuzzy"
        BY <2>1
    <2> QED
        BY <2>2 DEF Home
<1> QED
    BY <1>1, <1>2, <1>3

LEMMA CacheIsHome ==
    ASSUME IInv, NEW s, Dictionary(s), \A i \in DOMAIN s : \E j \in DOMAIN cache : s[i].key = cache[j].key /\ s[i].value = cache[j].value
    PROVE  \A i \in DOMAIN s : Home(rows, s[i].value, s[i].key.fridge, s[i].key.key)
BY DEF IInv, HomeInv

\* The fields of an analysis under way.
LEMMA RunFacts ==
    ASSUME IInv, NEW a \in Analyses
    PROVE  /\ RunRecord(run[a]) /\ Sequence(run[a].matches)
           /\ HomeRun(rows, a, run[a], context[a])
           /\ CacheInv
           /\ \A i \in DOMAIN cache : Home(rows, cache[i].value, cache[i].key.fridge, cache[i].key.key)
           /\ \A y : [run EXCEPT ![a] = y][a] = y
           /\ [context EXCEPT ![a] = Fridge(a)][a] = Fridge(a)
BY DEF IInv, Shapes, RunRecord, HomeInv

\* The next match of an analysis is at home if it is for the text that is due.
LEMMA FoundFacts ==
    ASSUME IInv, NEW a \in Analyses, run[a].phase # "new", NEW match, Home(rows, match, Fridge(a), Text1(a))
    PROVE  \E y : /\ Found(a, match) = [run EXCEPT ![a] = y]
                  /\ RunRecord(y)
                  /\ HomeRun(rows, a, y, context[a])
<1> DEFINE m == Append(run[a].matches, match)
           y == [phase |-> "looking", matches |-> m, loaded |-> None, items |-> run[a].items]
<1>1. RunRecord(run[a]) /\ Sequence(run[a].matches) /\ HomeRun(rows, a, run[a], context[a])
    BY RunFacts
<1>2. /\ Sequence(m) /\ Len(run[a].matches) \in Nat /\ DOMAIN run[a].matches = 1 .. Len(run[a].matches)
      /\ DOMAIN m = 1 .. Len(run[a].matches) + 1 /\ m[Len(run[a].matches) + 1] = match
      /\ \A i \in 1 .. Len(run[a].matches) : m[i] = run[a].matches[i]
    BY <1>1, AppendSequence
<1> HIDE DEF m
<1>3. Matched(run[a], "looking", m, None) = y
    <2>1. run[a] = [phase |-> run[a].phase, matches |-> run[a].matches, loaded |-> run[a].loaded, items |-> run[a].items]
        BY <1>1 DEF RunRecord
    <2> QED
        BY <2>1, RunFound
<1>4. Found(a, match) = [run EXCEPT ![a] = y]
    BY <1>3 DEF Found, Matched, m
<1>5. RunRecord(y) /\ y.phase = "looking" /\ y.matches = m
    <2>1. Sequence(m)
        BY <1>2
    <2> QED
        BY <2>1 DEF RunRecord
<1> HIDE DEF y
<1>6. \A i \in DOMAIN m : Home(rows, m[i], Fridge(a), Texts(a)[i])
    <2> SUFFICES ASSUME NEW i \in DOMAIN m PROVE Home(rows, m[i], Fridge(a), Texts(a)[i])
        OBVIOUS
    <2>1. CASE i = Len(run[a].matches) + 1
        BY <2>1, <1>2 DEF Text1
    <2>2. CASE i \in 1 .. Len(run[a].matches)
        BY <2>2, <1>1, <1>2 DEF HomeRun
    <2> QED
        BY <1>2, <2>1, <2>2
<1>7. HomeRun(rows, a, y, context[a])
    BY <1>1, <1>5, <1>6 DEF HomeRun
<1> QED
    BY <1>4, <1>5, <1>7

LEMMA InferStep == ASSUME IInv, NEW a \in Analyses, Infer(a) PROVE IInv'
<1> DEFINE y == [phase |-> "looking", matches |-> run[a].matches, loaded |-> run[a].loaded, items |-> run[a].items]
<1>1. RunRecord(run[a]) /\ HomeRun(rows, a, run[a], context[a]) /\ CacheInv /\ Sequence(run[a].matches)
    BY RunFacts
<1>2. run' = [run EXCEPT ![a] = y]
    <2>1. run[a] = [phase |-> run[a].phase, matches |-> run[a].matches, loaded |-> run[a].loaded, items |-> run[a].items]
        BY <1>1 DEF RunRecord
    <2>2. Phased(run[a], "looking") = y
        BY <2>1, RunPhase
    <2>3. run' = [run EXCEPT ![a] = Phased(run[a], "looking")]
        BY DEF Infer, Phased
    <2> QED
        BY <2>2, <2>3
<1>3. RunRecord(y) /\ y.phase = "looking" /\ y.matches = run[a].matches
    BY <1>1, RunFields
<1> HIDE DEF y
<1>4. context'[a] = Fridge(a)
    BY RunFacts DEF Infer, OwnFridge
<1>5. HomeRun(rows, a, y, context'[a])
    BY <1>1, <1>3, <1>4 DEF HomeRun
<1>6. AnalysisMoves(a, y)
    BY <1>1, <1>2, <1>3, <1>5, RunFacts DEF AnalysisMoves, Infer, OwnFridge, CacheInv
<1> QED
    BY <1>6, AnalysisStep

LEMMA HitStep == ASSUME IInv, NEW a \in Analyses, Hit(a) PROVE IInv'
<1> DEFINE k == CacheKey(context[a], Text1(a))
<1>1. run[a].phase = "looking" /\ context[a] = Fridge(a)
    BY RunFacts DEF Hit, Looking, HomeRun
<1>2. PICK n \in DOMAIN cache : /\ cache[n].key = k
                                /\ cache' = Append(Other(k), cache[n])
                                /\ run' = Found(a, cache[n].value)
    BY DEF Hit, Cached, Range
<1>3. k.fridge = Fridge(a) /\ k.key = Text1(a)
    BY <1>1 DEF CacheKey
<1> HIDE DEF k
<1>4. CacheInv /\ Entry(cache[n]) /\ Len(cache) \in Nat
    BY RunFacts, RangeOfSequence DEF CacheInv, Dictionary, Sequence
<1>5. /\ Dictionary(Other(k)) /\ PartOf(Other(k), cache)
      /\ \A i \in DOMAIN Other(k) : Other(k)[i].key # cache[n].key
      /\ Len(Other(k)) = Len(cache) - 1
    BY <1>2, <1>4, OtherFacts
<1>6. /\ Dictionary(cache') /\ Len(cache') = Len(Other(k)) + 1
      /\ \A i \in DOMAIN cache' : cache'[i] = cache[n] \/ \E j \in DOMAIN Other(k) : cache'[i] = Other(k)[j]
    BY <1>2, <1>4, <1>5, DictionaryAppend
<1>7. Len(cache') <= CacheSize
    BY <1>4, <1>5, <1>6 DEF CacheInv
<1>8. \A i \in DOMAIN cache' : \E j \in DOMAIN cache : cache'[i] = cache[j]
    BY <1>2, <1>5, <1>6 DEF PartOf
<1>9. Home(rows, cache[n].value, Fridge(a), Text1(a))
    BY <1>2, <1>3, RunFacts
<1>10. PICK y : run' = [run EXCEPT ![a] = y] /\ RunRecord(y) /\ HomeRun(rows, a, y, context[a])
    BY <1>1, <1>2, <1>9, FoundFacts
<1>11. \A i \in DOMAIN cache' : Home(rows, cache'[i].value, cache'[i].key.fridge, cache'[i].key.key)
    BY <1>8, RunFacts
<1>12. AnalysisMoves(a, y)
    BY <1>1, <1>6, <1>7, <1>10, <1>11 DEF AnalysisMoves, Hit
<1> QED
    BY <1>12, AnalysisStep

\* An expired entry is dropped when it is looked for.
LEMMA OtherIsHome ==
    ASSUME IInv, NEW k
    PROVE  /\ Dictionary(Other(k)) /\ Len(Other(k)) <= CacheSize
           /\ \A i \in DOMAIN Other(k) : Home(rows, Other(k)[i].value, Other(k)[i].key.fridge, Other(k)[i].key.key)
<1>1. CacheInv
    BY DEF IInv
<1>2. Dictionary(Other(k)) /\ Len(Other(k)) <= CacheSize /\ PartOf(Other(k), cache)
    BY <1>1, OtherFacts
<1> QED
    BY <1>2 DEF PartOf, IInv, HomeInv

LEMMA LoadStep == ASSUME IInv, NEW a \in Analyses, Load(a) PROVE IInv'
<1> DEFINE q == Query(context[a], Text1(a))
           y == [phase |-> "loading", matches |-> run[a].matches, loaded |-> q, items |-> run[a].items]
<1>1. RunRecord(run[a]) /\ HomeRun(rows, a, run[a], context[a]) /\ Sequence(run[a].matches)
    BY RunFacts
<1>2. run[a].phase = "looking" /\ context[a] = Fridge(a)
    BY <1>1 DEF Load, Looking, HomeRun
<1>3. Home(rows, q, Fridge(a), Text1(a))
    BY <1>2, QueryIsHome DEF IInv, HomeInv
<1> HIDE DEF q
<1>4. run' = [run EXCEPT ![a] = y]
    <2>1. run[a] = [phase |-> run[a].phase, matches |-> run[a].matches, loaded |-> run[a].loaded, items |-> run[a].items]
        BY <1>1 DEF RunRecord
    <2>2. Loading(run[a], "loading", q) = y
        BY <2>1, RunLoading
    <2>3. run' = [run EXCEPT ![a] = Loading(run[a], "loading", q)]
        BY DEF Load, Loading, q
    <2> QED
        BY <2>2, <2>3
<1>5. RunRecord(y) /\ y.phase = "loading" /\ y.matches = run[a].matches /\ y.loaded = q
    BY <1>1, RunFields
<1> HIDE DEF y
<1>6. HomeRun(rows, a, y, context[a])
    BY <1>1, <1>2, <1>3, <1>5 DEF HomeRun, Text1
<1>7. PICK k : cache' = Other(k)
    BY DEF Load
<1>8. AnalysisMoves(a, y)
    BY <1>2, <1>4, <1>5, <1>6, <1>7, OtherIsHome DEF AnalysisMoves, Load
<1> QED
    BY <1>8, AnalysisStep

LEMMA LoadFailsStep == ASSUME IInv, NEW a \in Analyses, LoadFails(a) PROVE IInv'
<1>1. run[a].phase = "looking"
    BY DEF LoadFails, Looking
<1>2. PICK y : run' = [run EXCEPT ![a] = y] /\ RunRecord(y) /\ HomeRun(rows, a, y, context[a])
    BY <1>1, FoundFacts DEF LoadFails, Home
<1>3. PICK k : cache' = Other(k)
    BY DEF LoadFails
<1>4. AnalysisMoves(a, y)
    BY <1>1, <1>2, <1>3, OtherIsHome DEF AnalysisMoves, LoadFails
<1> QED
    BY <1>4, AnalysisStep

LEMMA StoreStep == ASSUME IInv, NEW a \in Analyses, Store(a) PROVE IInv'
<1> DEFINE v == run[a].loaded
           k == CacheKey(context[a], Text1(a))
           new == NewEntry(k, v)
<1>1. run[a].phase = "loading" /\ context[a] = Fridge(a) /\ Home(rows, v, Fridge(a), Text1(a))
    BY RunFacts DEF Store, HomeRun, Text1
<1>2. PICK y : run' = [run EXCEPT ![a] = y] /\ RunRecord(y) /\ HomeRun(rows, a, y, context[a])
    BY <1>1, FoundFacts DEF Store
<1>3. CacheInv
    BY RunFacts
<1>4. cache' = Put(k, v)
    BY DEF Store
<1>9. k = CacheKey(k.fridge, k.key)
    BY DEF CacheKey
<1>6. new.value = v /\ new.key.fridge = Fridge(a) /\ new.key.key = Text1(a)
    BY <1>1 DEF CacheKey, NewEntry
<1> HIDE DEF k
<1>5. /\ Dictionary(cache') /\ Len(cache') <= CacheSize
      /\ \A i \in DOMAIN cache' : cache'[i] = new \/ \E j \in DOMAIN cache : cache'[i] = cache[j]
    BY <1>3, <1>4, <1>9, PutFacts
<1> HIDE DEF new, v
<1>7. \A i \in DOMAIN cache' : Home(rows, cache'[i].value, cache'[i].key.fridge, cache'[i].key.key)
    BY <1>1, <1>5, <1>6, RunFacts
<1>8. AnalysisMoves(a, y)
    BY <1>1, <1>2, <1>5, <1>7 DEF AnalysisMoves, Store
<1> QED
    BY <1>8, AnalysisStep

LEMMA ValidateStep == ASSUME IInv, NEW a \in Analyses, Validate(a) PROVE IInv'
<1> DEFINE items == Items(Photo(a).reading, run[a].matches)
           y == [phase |-> "done", matches |-> run[a].matches, loaded |-> run[a].loaded, items |-> items]
<1>1. /\ RunRecord(run[a]) /\ HomeRun(rows, a, run[a], context[a]) /\ CacheInv /\ Sequence(run[a].matches)
      /\ run[a].phase = "looking"
    BY RunFacts DEF Validate
<1>2. run' = [run EXCEPT ![a] = y]
    <2>1. run[a] = [phase |-> run[a].phase, matches |-> run[a].matches, loaded |-> run[a].loaded, items |-> run[a].items]
        BY <1>1 DEF RunRecord
    <2>2. Validated(run[a], "done", items) = y
        BY <2>1, RunDone
    <2>3. run' = [run EXCEPT ![a] = Validated(run[a], "done", items)]
        BY DEF Validate, Validated
    <2> QED
        BY <2>2, <2>3
<1> HIDE DEF items
<1>3. RunRecord(y) /\ y.phase = "done" /\ y.matches = run[a].matches
    BY <1>1, RunFields
<1> HIDE DEF y
<1>4. HomeRun(rows, a, y, context[a])
    BY <1>1, <1>3 DEF HomeRun
<1>5. AnalysisMoves(a, y)
    BY <1>1, <1>2, <1>3, <1>4, RunFacts DEF AnalysisMoves, Validate, CacheInv
<1> QED
    BY <1>5, AnalysisStep

-----------------------------------------------------------------------------
(* The steps of a feedback request that store nothing.                      *)

\* What a client does to itself and the cache.
ClientMoves(c, y) ==
    /\ UNCHANGED <<scene, run, context, corrections, rows>>
    /\ client' = [client EXCEPT ![c] = y]
    /\ ClientRecord(y)
    /\ \A l \in y.held : l \in client[c].held \/ Free(l, c)
    /\ Keyed(c, y)
    /\ Told(c, y)
    /\ Dictionary(cache') /\ Len(cache') <= CacheSize
    /\ \A i \in DOMAIN cache' : Home(rows, cache'[i].value, cache'[i].key.fridge, cache'[i].key.key)

\* Scene and analyses unchanged: the clients' requests and keys are the same.
LEMMA SameScene ==
    ASSUME UNCHANGED <<scene, run>>
    PROVE  /\ Analyses' = Analyses /\ Clients' = Clients
           /\ \A c : /\ Request(c)' = Request(c)
                     /\ LearnedKeys(c)' = LearnedKeys(c)
                     /\ \A i : Key(c, i)' = Key(c, i)
           /\ \A a : Fridge(a)' = Fridge(a) /\ Texts(a)' = Texts(a)
<1>1. /\ Analyses' = Analyses /\ Clients' = Clients
      /\ \A c : Request(c)' = Request(c)
      /\ \A a : Fridge(a)' = Fridge(a) /\ Texts(a)' = Texts(a)
    BY DEF Analyses, Clients, Request, Fridge, Texts, Photo
<1>2. \A c, e : ItemOf(c, e)' = ItemOf(c, e)
    BY <1>1 DEF ItemOf
<1>3. \A c, e : LearningKey(c, e)' = LearningKey(c, e)
    BY <1>1, <1>2 DEF LearningKey
<1>4. \A c, i : Key(c, i)' = Key(c, i)
    BY <1>1, <1>3 DEF Key
<1>5. \A c : LearnedKeys(c)' = LearnedKeys(c)
    BY <1>1, <1>4 DEF LearnedKeys
<1> QED
    BY <1>1, <1>4, <1>5

LEMMA ClientStep ==
    ASSUME IInv, NEW c \in Clients, NEW y, ClientMoves(c, y)
    PROVE  IInv'
<1> USE DEF ClientMoves
<1>1. /\ scene' = scene /\ run' = run /\ context' = context /\ rows' = rows /\ corrections' = corrections
      /\ Analyses' = Analyses /\ Clients' = Clients
      /\ \A o : Request(o)' = Request(o) /\ LearnedKeys(o)' = LearnedKeys(o)
      /\ \A a : Fridge(a)' = Fridge(a) /\ Texts(a)' = Texts(a)
    BY SameScene
<1>2. \A o \in Clients : client'[o] = IF o = c THEN y ELSE client[o]
    BY DEF IInv, Shapes
<1>3. Shapes'
    <2>1. client' = [o \in Clients |-> client'[o]]
        BY DEF IInv, Shapes
    <2>2. \A o \in Clients : ClientRecord(client'[o])
        BY <1>2 DEF IInv, Shapes
    <2> QED
        BY <1>1, <2>1, <2>2 DEF IInv, Shapes
<1>4. FeedbackInv'
    <2>1. \A o : RowsOf(Request(o).analysis)' = RowsOf(Request(o).analysis)
        BY <1>1 DEF RowsOf
    <2>2. \A o \in Clients : Keyed(o, client'[o]) /\ Told(o, client'[o])
        BY <1>2 DEF IInv, FeedbackInv
    <2>3. \A o \in Clients : Keyed(o, client[o])'
        BY <1>1, <2>2 DEF Keyed
    <2>4. \A o \in Clients : Told(o, client[o])'
        BY <1>1, <2>1, <2>2 DEF Told
    <2>5. Excluded'
        BY <1>1, <1>2 DEF IInv, FeedbackInv, Excluded, Free
    <2> QED
        BY <1>1, <2>3, <2>4, <2>5 DEF IInv, FeedbackInv, OneRequest
<1>5. CacheInv'
    BY DEF CacheInv
<1>6. HomeInv'
    <2>1. \A a \in Analyses : HomeRun(rows, a, run[a], context[a])'
        BY <1>1 DEF HomeRun, IInv, HomeInv
    <2> QED
        BY <1>1, <2>1 DEF IInv, HomeInv
<1> QED
    BY <1>3, <1>4, <1>5, <1>6 DEF IInv

LEMMA ClientFacts ==
    ASSUME IInv, NEW c \in Clients
    PROVE  /\ ClientRecord(client[c]) /\ Keyed(c, client[c]) /\ Told(c, client[c])
           /\ client[c] = [phase |-> client[c].phase, try |-> client[c].try, keys |-> client[c].keys,
                           held |-> client[c].held, absent |-> client[c].absent, told |-> client[c].told]
           /\ client[c].phase \in Phases /\ Sequence(client[c].keys)
           /\ Dictionary(cache) /\ Len(cache) <= CacheSize
           /\ \A i \in DOMAIN cache : Home(rows, cache[i].value, cache[i].key.fridge, cache[i].key.key)
BY DEF IInv, Shapes, ClientRecord, FeedbackInv, CacheInv, HomeInv

LEMMA EmptySequence == Sequence(<< >>) /\ Range(<< >>) = {}
BY DEF Sequence, Range

LEMMA ClientFields ==
    ASSUME NEW p \in Phases, NEW n, NEW k, Sequence(k), NEW h, NEW a, NEW t
    PROVE  ClientRecord([phase |-> p, try |-> n, keys |-> k, held |-> h, absent |-> a, told |-> t])
BY DEF ClientRecord

\* A request that ends, or waits to be sent again, has no locks.
LEMMA ClientEndsStep ==
    ASSUME IInv, NEW c \in Clients, NEW p \in {"answered", "refused", "failed"}, NEW t,
           client' = Ends(c, p, t), UNCHANGED <<scene, run, context, corrections, rows, cache>>,
           p = "answered" => \E r \in RowsOf(Request(c).analysis) : r.id = t
    PROVE  IInv'
<1> DEFINE k == << >>
           h == {}
           y == [phase |-> p, try |-> client[c].try, keys |-> k, held |-> h, absent |-> h, told |-> t]
<1>0. Sequence(k) /\ h = {}
    BY EmptySequence
<1>2. client' = [client EXCEPT ![c] = Ended(client[c], p, k, h, h, t)]
    BY DEF Ends, Ended
<1> HIDE DEF k, h
<1>1. Ended(client[c], p, k, h, h, t) = y
    <2>1. client[c] = [phase |-> client[c].phase, try |-> client[c].try, keys |-> client[c].keys,
                       held |-> client[c].held, absent |-> client[c].absent, told |-> client[c].told]
        BY ClientFacts
    <2> QED
        BY <2>1, ClientEnds
<1>3. ClientRecord(y)
    BY <1>0, ClientFields DEF Phases
<1>4. y.phase = p /\ y.held = {} /\ y.told = t
    BY <1>0
<1> HIDE DEF y
<1>5. Keyed(c, y) /\ Told(c, y)
    BY <1>4 DEF Keyed, Told, Inside
<1>6. ClientMoves(c, y)
    BY <1>1, <1>2, <1>3, <1>4, <1>5, ClientFacts DEF ClientMoves
<1> QED
    BY <1>6, ClientStep

\* A request goes on to a phase where it has no locks yet.
LEMMA ClientToStep ==
    ASSUME IInv, NEW c \in Clients, NEW p \in {"view", "begin"}, client[c].phase \notin Inside,
           client' = To(c, p), UNCHANGED <<scene, run, context, corrections, rows, cache>>,
           p = "begin" => run[Request(c).analysis].phase = "done"
    PROVE  IInv'
<1> DEFINE x == client[c]
           y == [phase |-> p, try |-> x.try, keys |-> x.keys, held |-> x.held, absent |-> x.absent, told |-> x.told]
<1>1. Phased(x, p) = y
    <2>1. client[c] = [phase |-> client[c].phase, try |-> client[c].try, keys |-> client[c].keys,
                       held |-> client[c].held, absent |-> client[c].absent, told |-> client[c].told]
        BY ClientFacts
    <2> QED
        BY <2>1, ClientPhase
<1>2. client' = [client EXCEPT ![c] = y]
    BY <1>1 DEF To, Phased
<1>3. ClientRecord(y)
    BY ClientFacts, ClientFields DEF Phases
<1>4. y.phase = p /\ y.held = x.held
    OBVIOUS
<1> HIDE DEF y
<1>5. Keyed(c, y) /\ Told(c, y)
    BY <1>4 DEF Keyed, Told, Inside
<1>6. ClientMoves(c, y)
    BY <1>2, <1>3, <1>4, <1>5, ClientFacts DEF ClientMoves
<1> QED
    BY <1>6, ClientStep

LEMMA LookStep == ASSUME IInv, NEW c \in Clients, Look(c) PROVE IInv'
<1>1. UNCHANGED <<scene, run, context, corrections, rows, cache>> /\ client[c].phase = "idle"
    BY DEF Look, analysisVars
<1>2. CASE RowsOf(Request(c).analysis) # {}
    <2>1. PICK r \in RowsOf(Request(c).analysis) : client' = Ends(c, "answered", r.id)
        BY <1>2 DEF Look
    <2> QED
        BY <1>1, <2>1, ClientEndsStep
<1>3. CASE RowsOf(Request(c).analysis) = {}
    <2>1. client' = To(c, "view")
        BY <1>3 DEF Look
    <2> QED
        BY <1>1, <2>1, ClientToStep DEF Inside
<1> QED
    BY <1>2, <1>3

LEMMA ViewStep == ASSUME IInv, NEW c \in Clients, View(c) PROVE IInv'
<1>1. UNCHANGED <<scene, run, context, corrections, rows, cache>> /\ client[c].phase = "view"
    BY DEF View, analysisVars
<1>2. CASE run[Request(c).analysis].phase # "done" \/ UnknownItem(c)
    <2>1. client' = Ends(c, "refused", None)
        BY <1>2 DEF View
    <2> QED
        BY <1>1, <2>1, ClientEndsStep
<1>3. CASE ~(run[Request(c).analysis].phase # "done" \/ UnknownItem(c))
    <2>1. client' = To(c, "begin")
        BY <1>3 DEF View
    <2> QED
        BY <1>1, <1>3, <2>1, ClientToStep DEF Inside
<1> QED
    BY <1>2, <1>3

LEMMA LockAnalysisStep == ASSUME IInv, NEW c \in Clients, LockAnalysis(c) PROVE IInv'
<1> DEFINE x == client[c]
           lock == <<Request(c).analysis>>
           y == [phase |-> "recheck", try |-> x.try, keys |-> x.keys, held |-> {lock}, absent |-> x.absent, told |-> x.told]
<1>1. /\ UNCHANGED <<scene, run, context, corrections, rows, cache>>
      /\ x.phase = "begin" /\ Free(lock, c)
      /\ client' = [client EXCEPT ![c] = Locked(x, "recheck", {lock})]
    BY DEF LockAnalysis, analysisVars, Locked
<1> HIDE DEF lock
<1>2. Locked(x, "recheck", {lock}) = y
    <2>1. client[c] = [phase |-> client[c].phase, try |-> client[c].try, keys |-> client[c].keys,
                       held |-> client[c].held, absent |-> client[c].absent, told |-> client[c].told]
        BY ClientFacts
    <2> QED
        BY <2>1, ClientLocks
<1>3. ClientRecord(y)
    BY ClientFacts, ClientFields DEF Phases
<1>4. y.phase = "recheck" /\ y.held = {lock}
    OBVIOUS
<1> HIDE DEF y
<1>5. run[Request(c).analysis].phase = "done"
    BY <1>1, ClientFacts DEF Keyed
<1>6. Keyed(c, y) /\ Told(c, y)
    BY <1>4, <1>5 DEF Keyed, Told, Inside, lock
<1>7. ClientMoves(c, y)
    BY <1>1, <1>2, <1>3, <1>4, <1>6, ClientFacts DEF ClientMoves
<1> QED
    BY <1>7, ClientStep

\* The keys of a request are finitely many, and sorted they are a sequence.
LEMMA SortedKeysFacts ==
    ASSUME Shapes, NEW c \in Clients, NEW s \in SortedKeys(c)
    PROVE  Sequence(s) /\ Range(s) = LearnedKeys(c)
<1> DEFINE K == LearnedKeys(c)
           D == {i \in DOMAIN Request(c).entries : Key(c, i) # << >>}
           f == [i \in D |-> Key(c, i)]
<1>1. K = {Key(c, i) : i \in D}
    BY DEF LearnedKeys
<1>2. IsFiniteSet(D)
    <2>1. DOMAIN Request(c).entries = 1 .. Len(Request(c).entries) /\ Len(Request(c).entries) \in Int /\ 1 \in Int
        BY KnownAnalysis
    <2>2. IsFiniteSet(1 .. Len(Request(c).entries))
        BY <2>1, FS_Interval
    <2> QED
        BY <2>1, <2>2, FS_Subset
<1>3. f \in Surjection(D, K)
    BY <1>1 DEF Surjection
<1> HIDE DEF D, f
<1>4. IsFiniteSet(K)
    BY <1>2, <1>3, FS_Surjection
<1>5. Cardinality(K) \in Nat
    BY <1>4, FS_CardinalityType
<1>6. s \in [1 .. Cardinality(K) -> K] /\ Range(s) = K
    BY DEF SortedKeys
<1>7. s \in Seq(K)
    BY <1>5, <1>6
<1> QED
    BY <1>6, <1>7, RangeOfSequence

LEMMA RecheckStep == ASSUME IInv, NEW c \in Clients, Recheck(c) PROVE IInv'
<1>1. UNCHANGED <<scene, run, context, corrections, rows, cache>> /\ client[c].phase = "recheck"
    BY DEF Recheck, analysisVars
<1>2. CASE SeenRows(c) # {}
    <2>1. PICK r \in RowsOf(Request(c).analysis) : client' = Ends(c, "answered", r.id)
        BY <1>2 DEF Recheck, SeenRows
    <2> QED
        BY <1>1, <2>1, ClientEndsStep
<1>3. CASE SeenRows(c) = {}
    <2>1. PICK keys \in SortedKeys(c) : client' = [client EXCEPT ![c] = Keying(client[c], "keys", keys)]
        BY <1>3 DEF Recheck, Keying
    <2> DEFINE x == client[c]
               y == [phase |-> "keys", try |-> x.try, keys |-> keys, held |-> x.held, absent |-> x.absent, told |-> x.told]
    <2>2. Keying(x, "keys", keys) = y
        <3>1. client[c] = [phase |-> client[c].phase, try |-> client[c].try, keys |-> client[c].keys,
                           held |-> client[c].held, absent |-> client[c].absent, told |-> client[c].told]
            BY ClientFacts
        <3> QED
            BY <3>1, ClientKeys
    <2>3. Sequence(keys) /\ Range(keys) = LearnedKeys(c)
        BY SortedKeysFacts DEF IInv
    <2>4. ClientRecord(y)
        BY <2>3, ClientFields DEF Phases
    <2>5. y.phase = "keys" /\ y.held = x.held /\ y.keys = keys
        OBVIOUS
    <2> HIDE DEF y
    <2>6. /\ run[Request(c).analysis].phase = "done"
          /\ <<Request(c).analysis>> \in x.held
        BY <1>1, ClientFacts DEF Keyed, Inside
    <2>7. Keyed(c, y) /\ Told(c, y)
        BY <1>3, <2>3, <2>5, <2>6 DEF Keyed, Told, Inside, SeenRows
    <2>8. ClientMoves(c, y)
        BY <1>1, <2>1, <2>2, <2>4, <2>5, <2>7, ClientFacts DEF ClientMoves
    <2> QED
        BY <2>8, ClientStep
<1> QED
    BY <1>2, <1>3

LEMMA TailFacts ==
    ASSUME NEW s, Sequence(s), s # << >>
    PROVE  Sequence(Tail(s)) /\ Range(s) \subseteq {Head(s)} \cup Range(Tail(s))
<1>1. s \in Seq(Range(s)) /\ Len(s) \in Nat /\ DOMAIN s = 1 .. Len(s)
    BY RangeOfSequence DEF Sequence
<1>2. /\ Tail(s) \in Seq(Range(s)) /\ Len(Tail(s)) = Len(s) - 1 /\ Head(s) = s[1]
      /\ \A i \in 1 .. Len(s) - 1 : Tail(s)[i] = s[i + 1]
    BY <1>1
<1>3. Sequence(Tail(s)) /\ DOMAIN Tail(s) = 1 .. Len(s) - 1
    BY <1>2, RangeOfSequence
<1>4. ASSUME NEW i \in DOMAIN s PROVE s[i] \in {Head(s)} \cup Range(Tail(s))
    <2>1. CASE i = 1
        BY <2>1, <1>2
    <2>2. CASE i # 1
        <3>1. i - 1 \in 1 .. Len(s) - 1 /\ i - 1 + 1 = i
            BY <2>2, <1>1
        <3>2. Tail(s)[i - 1] = s[i]
            BY <3>1, <1>2
        <3> QED
            BY <3>1, <3>2, <1>3 DEF Range
    <2> QED
        BY <2>1, <2>2
<1> QED
    BY <1>3, <1>4 DEF Range

LEMMA LockKeyStep == ASSUME IInv, NEW c \in Clients, LockKey(c) PROVE IInv'
<1> DEFINE x == client[c]
           lock == Head(x.keys)
           rest == Tail(x.keys)
           held == x.held \cup {lock}
           y == [phase |-> x.phase, try |-> x.try, keys |-> rest, held |-> held, absent |-> x.absent, told |-> x.told]
<1>1. /\ UNCHANGED <<scene, run, context, corrections, rows, cache>>
      /\ x.phase = "keys" /\ x.keys # << >> /\ Free(lock, c)
      /\ client' = [client EXCEPT ![c] = KeyLocked(x, rest, held)]
    BY DEF LockKey, analysisVars, KeyLocked
<1>2. Sequence(rest) /\ Range(x.keys) \subseteq {lock} \cup Range(rest)
    BY <1>1, ClientFacts, TailFacts
<1>10. held = x.held \cup {lock}
    OBVIOUS
<1> HIDE DEF lock, rest, held
<1>3. KeyLocked(x, rest, held) = y
    <2>1. client[c] = [phase |-> client[c].phase, try |-> client[c].try, keys |-> client[c].keys,
                       held |-> client[c].held, absent |-> client[c].absent, told |-> client[c].told]
        BY ClientFacts
    <2> QED
        BY <2>1, ClientNextKey
<1>4. ClientRecord(y)
    BY <1>1, <1>2, ClientFields DEF Phases
<1>5. y.phase = "keys" /\ y.held = x.held \cup {lock} /\ y.keys = rest
    BY <1>1, <1>10
<1> HIDE DEF y
<1>6. /\ run[Request(c).analysis].phase = "done"
      /\ <<Request(c).analysis>> \in x.held
      /\ LearnedKeys(c) \subseteq x.held \cup Range(x.keys)
      /\ RowsOf(Request(c).analysis) = {}
    BY <1>1, ClientFacts DEF Keyed, Told, Inside
<1>7. LearnedKeys(c) \subseteq y.held \cup Range(y.keys)
    BY <1>2, <1>5, <1>6
<1>8. Keyed(c, y) /\ Told(c, y)
    BY <1>5, <1>6, <1>7 DEF Keyed, Told, Inside
<1>9. ClientMoves(c, y)
    BY <1>1, <1>3, <1>4, <1>5, <1>8, ClientFacts DEF ClientMoves
<1> QED
    BY <1>9, ClientStep

LEMMA ReadCorrectionsStep == ASSUME IInv, NEW c \in Clients, ReadCorrections(c) PROVE IInv'
<1> DEFINE x == client[c]
           absent == {k \in LearnedKeys(c) : \A o \in corrections : o.key # k \/ o.fridge # Request(c).fridge}
           y == [phase |-> "commit", try |-> x.try, keys |-> x.keys, held |-> x.held, absent |-> absent, told |-> x.told]
<1>1. /\ UNCHANGED <<scene, run, context, corrections, rows, cache>>
      /\ x.phase = "keys" /\ x.keys = << >>
      /\ client' = [client EXCEPT ![c] = HavingRead(x, "commit", absent)]
    BY DEF ReadCorrections, analysisVars, HavingRead
<1>2. absent \subseteq LearnedKeys(c) /\ \A o \in corrections : o.key \in absent => o.fridge # Request(c).fridge
    OBVIOUS
<1> HIDE DEF absent
<1>3. HavingRead(x, "commit", absent) = y
    <2>1. client[c] = [phase |-> client[c].phase, try |-> client[c].try, keys |-> client[c].keys,
                       held |-> client[c].held, absent |-> client[c].absent, told |-> client[c].told]
        BY ClientFacts
    <2> QED
        BY <2>1, ClientReads
<1>4. ClientRecord(y)
    BY ClientFacts, ClientFields DEF Phases
<1>5. y.phase = "commit" /\ y.held = x.held /\ y.absent = absent
    OBVIOUS
<1> HIDE DEF y
<1>6. /\ run[Request(c).analysis].phase = "done"
      /\ <<Request(c).analysis>> \in x.held
      /\ LearnedKeys(c) \subseteq x.held \cup Range(x.keys)
      /\ RowsOf(Request(c).analysis) = {}
    BY <1>1, ClientFacts DEF Keyed, Told, Inside
<1>7. LearnedKeys(c) \subseteq y.held
    BY <1>1, <1>5, <1>6, EmptySequence
<1>8. Keyed(c, y) /\ Told(c, y)
    BY <1>2, <1>5, <1>6, <1>7 DEF Keyed, Told, Inside
<1>9. ClientMoves(c, y)
    BY <1>1, <1>3, <1>4, <1>5, <1>8, ClientFacts DEF ClientMoves
<1> QED
    BY <1>9, ClientStep

LEMMA FailsStep == ASSUME IInv, NEW c \in Clients, Fails(c) PROVE IInv'
BY ClientEndsStep DEF Fails, analysisVars

LEMMA RetryStep == ASSUME IInv, NEW c \in Clients, Retry(c) PROVE IInv'
<1> DEFINE n == client[c].try + 1
           k == << >>
           h == {}
           first == 1
           idle == "idle"
           y == [phase |-> idle, try |-> n, keys |-> k, held |-> h, absent |-> h, told |-> None]
<1>1. /\ UNCHANGED <<scene, run, context, corrections, rows, cache>>
      /\ client' = [client EXCEPT ![c] = Trying(Idle, n)]
    BY DEF Retry, analysisVars, Trying
<1>7. Sequence(k) /\ h = {} /\ Idle = [phase |-> idle, try |-> first, keys |-> k, held |-> h, absent |-> h, told |-> None]
    BY EmptySequence DEF Idle
<1> HIDE DEF n, k, h, first
<1> HIDE DEF idle
<1>2. Trying(Idle, n) = y
    <2> DEFINE none == None
               x == Idle
    <2>1. x = [phase |-> idle, try |-> first, keys |-> k, held |-> h, absent |-> h, told |-> none]
        BY <1>7
    <2> HIDE DEF none, x
    <2>2. Trying(x, n) = [phase |-> idle, try |-> n, keys |-> k, held |-> h, absent |-> h, told |-> none]
        BY <2>1, ClientTries
    <2> QED
        BY <2>2 DEF none, x
<1>3. ClientRecord(y)
    BY <1>7, ClientFields DEF Phases, idle
<1>4. y.phase = "idle" /\ y.held = {}
    BY <1>7 DEF idle
<1> HIDE DEF y
<1>5. Keyed(c, y) /\ Told(c, y)
    BY <1>4 DEF Keyed, Told, Inside
<1>6. ClientMoves(c, y)
    BY <1>1, <1>2, <1>3, <1>4, <1>5, ClientFacts DEF ClientMoves
<1> QED
    BY <1>6, ClientStep

\* The transaction is over: what the fridge was told before is forgotten.
LEMMA ForgetStep == ASSUME IInv, NEW c \in Clients, Forget(c) PROVE IInv'
<1> DEFINE x == client[c]
           y == [phase |-> "answered", try |-> x.try, keys |-> x.keys, held |-> x.held, absent |-> x.absent, told |-> x.told]
<1>1. /\ UNCHANGED <<scene, run, context, corrections, rows>>
      /\ x.phase = "committed"
      /\ client' = [client EXCEPT ![c] = Phased(x, "answered")]
    BY DEF Forget, analysisVars, To, Phased
<1>2. Phased(x, "answered") = y
    <2>1. client[c] = [phase |-> client[c].phase, try |-> client[c].try, keys |-> client[c].keys,
                       held |-> client[c].held, absent |-> client[c].absent, told |-> client[c].told]
        BY ClientFacts
    <2> QED
        BY <2>1, ClientPhase
<1>3. ClientRecord(y)
    BY ClientFacts, ClientFields DEF Phases
<1>4. y.phase = "answered" /\ y.held = x.held /\ y.told = x.told
    OBVIOUS
<1> HIDE DEF y
<1>5. Keyed(c, y) /\ Told(c, y)
    BY <1>1, <1>4, ClientFacts DEF Keyed, Told, Inside
<1>6. PICK keys : cache' \in Forgotten(keys)
    BY DEF Forget
<1>7. Dictionary(cache') /\ PartOf(cache', cache) /\ Len(cache') <= CacheSize
    BY <1>6, ForgottenFacts DEF IInv
<1>8. \A i \in DOMAIN cache' : Home(rows, cache'[i].value, cache'[i].key.fridge, cache'[i].key.key)
    BY <1>7, ClientFacts DEF PartOf
<1>9. ClientMoves(c, y)
    BY <1>1, <1>2, <1>3, <1>4, <1>5, <1>7, <1>8 DEF ClientMoves
<1> QED
    BY <1>9, ClientStep

-----------------------------------------------------------------------------
(* The commit of a feedback request, and time.                              *)

\* The rows and corrections a request leaves in the database.
NewRow(c, i) == [analysis |-> Request(c).analysis, id |-> Id(c), item |-> Request(c).entries[i].item,
                 fridge |-> Request(c).fridge, key |-> Key(c, i), name |-> Request(c).entries[i].name,
                 category |-> Request(c).entries[i].category]
NewCorrection(c, i) == [key |-> Key(c, i), fridge |-> Request(c).fridge, name |-> Request(c).entries[i].name,
                        category |-> Request(c).entries[i].category]

\* A correction of another request is under a lock it does not hold.
LEMMA CommitFacts ==
    ASSUME IInv, NEW c \in Clients, NEW p, CommitTo(c, p)
    PROVE  /\ UNCHANGED <<scene, run, context, cache>>
           /\ rows' = rows \cup {NewRow(c, i) : i \in DOMAIN Request(c).entries}
           /\ corrections' = {o \in corrections : o.fridge # Request(c).fridge \/ o.key \notin LearnedKeys(c)}
                             \cup {NewCorrection(c, i) : i \in Latest(c)}
           /\ client' = Ends(c, p, IF p = "committed" THEN Id(c) ELSE None)
           /\ <<Request(c).analysis>> \in client[c].held
           /\ LearnedKeys(c) \subseteq client[c].held
           /\ RowsOf(Request(c).analysis) = {}
           /\ \A i \in Latest(c) : i \in DOMAIN Request(c).entries /\ Key(c, i) \in LearnedKeys(c)
<1>1. client[c].phase = "commit"
    BY DEF CommitTo
<1>2. /\ <<Request(c).analysis>> \in client[c].held
      /\ LearnedKeys(c) \subseteq client[c].held
      /\ RowsOf(Request(c).analysis) = {}
      /\ ~Collides(c)
    BY <1>1, ClientFacts DEF Keyed, Told, Inside, Collides
<1>3. {NewRow(c, i) : i \in DOMAIN Request(c).entries}
      = {[analysis |-> Request(c).analysis, id |-> Id(c), item |-> e.item, fridge |-> Request(c).fridge,
          key |-> LearningKey(c, e), name |-> e.name, category |-> e.category] : e \in Range(Request(c).entries)}
    BY DEF NewRow, Key, Range
<1>4. /\ UNCHANGED <<scene, run, context, cache>>
      /\ rows' = rows \cup {NewRow(c, i) : i \in DOMAIN Request(c).entries}
      /\ corrections' = {o \in corrections : o.fridge # Request(c).fridge \/ o.key \notin LearnedKeys(c)}
                        \cup {NewCorrection(c, i) : i \in Latest(c)}
      /\ client' = Ends(c, p, IF p = "committed" THEN Id(c) ELSE None)
    BY <1>2, <1>3 DEF CommitTo, NewCorrection, analysisVars
<1>5. \A i \in Latest(c) : i \in DOMAIN Request(c).entries /\ Key(c, i) \in LearnedKeys(c)
    BY DEF Latest, LearnedKeys
<1> QED
    BY <1>2, <1>4, <1>5

LEMMA CommitStep ==
    ASSUME IInv, NEW c \in Clients, NEW p \in {"committed", "failed"}, CommitTo(c, p)
    PROVE  IInv'
<1> DEFINE k == << >>
           h == {}
           t == IF p = "committed" THEN Id(c) ELSE None
           y == [phase |-> p, try |-> client[c].try, keys |-> k, held |-> h, absent |-> h, told |-> t]
           A == Request(c).analysis
<1>1. /\ scene' = scene /\ run' = run /\ context' = context /\ cache' = cache
      /\ rows' = rows \cup {NewRow(c, i) : i \in DOMAIN Request(c).entries}
      /\ corrections' = {o \in corrections : o.fridge # Request(c).fridge \/ o.key \notin LearnedKeys(c)}
                        \cup {NewCorrection(c, i) : i \in Latest(c)}
      /\ <<A>> \in client[c].held
      /\ LearnedKeys(c) \subseteq client[c].held
      /\ RowsOf(A) = {}
      /\ \A i \in Latest(c) : i \in DOMAIN Request(c).entries /\ Key(c, i) \in LearnedKeys(c)
    BY CommitFacts
<1>2. client' = [client EXCEPT ![c] = Ended(client[c], p, k, h, h, t)]
    BY CommitFacts DEF Ends, Ended
<1>3. Sequence(k) /\ h = {}
    BY EmptySequence
<1>4. p = "committed" => t = Id(c)
    OBVIOUS
<1> HIDE DEF k, h, t
<1>5. Ended(client[c], p, k, h, h, t) = y
    <2>1. client[c] = [phase |-> client[c].phase, try |-> client[c].try, keys |-> client[c].keys,
                       held |-> client[c].held, absent |-> client[c].absent, told |-> client[c].told]
        BY ClientFacts
    <2> QED
        BY <2>1, ClientEnds
<1>6. ClientRecord(y)
    BY <1>3, ClientFields DEF Phases
<1>7. y.phase = p /\ y.held = {} /\ y.told = t
    BY <1>3
<1> HIDE DEF y
<1>8. \A o \in Clients : client'[o] = IF o = c THEN y ELSE client[o]
    BY <1>2, <1>5 DEF IInv, Shapes
<1>9. /\ Analyses' = Analyses /\ Clients' = Clients
      /\ \A o : Request(o)' = Request(o) /\ LearnedKeys(o)' = LearnedKeys(o)
      /\ \A a : Fridge(a)' = Fridge(a) /\ Texts(a)' = Texts(a)
    BY <1>1, SameScene
<1>10. Shapes'
    <2>1. client' = [o \in Clients |-> client'[o]]
        BY <1>2 DEF IInv, Shapes
    <2>2. \A o \in Clients : ClientRecord(client'[o])
        BY <1>6, <1>8 DEF IInv, Shapes
    <2> QED
        BY <1>1, <1>9, <2>1, <2>2 DEF IInv, Shapes
\* Whoever else is in a transaction has another analysis and other keys.
<1>11. ASSUME NEW o \in Clients, o # c, client[o].phase \in Inside
       PROVE  Request(o).analysis # A
    BY <1>1, <1>11, ClientFacts DEF Keyed, IInv, FeedbackInv, Excluded
<1>12. ASSUME NEW o \in Clients, o # c, client[o].phase = "commit"
       PROVE  LearnedKeys(o) \cap LearnedKeys(c) = {}
    BY <1>1, <1>12, ClientFacts DEF Keyed, IInv, FeedbackInv, Excluded
<1>13. \A a : a # A => RowsOf(a)' = RowsOf(a)
    BY <1>1 DEF RowsOf, NewRow
<1>14. \A a : RowsOf(a) \subseteq RowsOf(a)'
    BY <1>1 DEF RowsOf
<1>15. \A o \in Clients : Keyed(o, client[o])'
    <2> SUFFICES ASSUME NEW o \in Clients PROVE Keyed(o, client[o])'
        OBVIOUS
    <2>1. CASE o = c
        BY <1>7, <1>8, <2>1 DEF Keyed, Inside
    <2>2. CASE o # c
        <3>1. client'[o] = client[o] /\ Keyed(o, client[o])
            BY <1>8, <2>2, ClientFacts
        <3>2. ASSUME client[o].phase = "commit", NEW x \in corrections', x.key \in client[o].absent
              PROVE  x.fridge # Request(o).fridge
            <4>1. x.key \in LearnedKeys(o) /\ x.key \notin LearnedKeys(c)
                BY <1>12, <2>2, <3>1, <3>2 DEF Keyed
            <4>2. \A i \in Latest(c) : NewCorrection(c, i).key \in LearnedKeys(c)
                BY <1>1 DEF NewCorrection
            <4>3. x \in corrections
                BY <1>1, <4>1, <4>2
            <4> QED
                BY <3>1, <3>2, <4>3 DEF Keyed
        <3> QED
            BY <1>1, <1>9, <3>1, <3>2 DEF Keyed
    <2> QED
        BY <2>1, <2>2
<1>16. \A o \in Clients : Told(o, client[o])'
    <2> SUFFICES ASSUME NEW o \in Clients PROVE Told(o, client[o])'
        OBVIOUS
    <2>1. CASE o = c
        <3>1. 1 \in DOMAIN Request(c).entries
            BY KnownAnalysis DEF IInv
        <3>2. NewRow(c, 1).id = Id(c) /\ NewRow(c, 1).analysis = A
            BY DEF NewRow
        <3>3. NewRow(c, 1) \in rows'
            BY <1>1, <3>1
        <3>4. NewRow(c, 1) \in RowsOf(Request(c).analysis)'
            BY <1>9, <3>2, <3>3 DEF RowsOf
        <3> QED
            BY <1>4, <1>7, <1>8, <1>9, <2>1, <3>2, <3>4 DEF Told
    <2>2. CASE o # c
        <3>1. client'[o] = client[o] /\ Told(o, client[o])
            BY <1>8, <2>2, ClientFacts
        <3>2. CASE client[o].phase \in {"keys", "commit"}
            <4>1. RowsOf(Request(o).analysis)' = RowsOf(Request(o).analysis)
                BY <1>9, <1>11, <1>13, <2>2, <3>2 DEF Inside
            <4> QED
                BY <1>9, <3>1, <3>2, <4>1 DEF Told
        <3>3. CASE client[o].phase \notin {"keys", "commit"}
            BY <1>9, <1>14, <3>1, <3>3 DEF Told
        <3> QED
            BY <3>2, <3>3
    <2> QED
        BY <2>1, <2>2
<1>17. Excluded'
    BY <1>7, <1>8, <1>9 DEF IInv, FeedbackInv, Excluded
<1>18. OneRequest'
    <2>1. \A r \in rows : r.analysis # A
        BY <1>1 DEF RowsOf
    <2>2. \A i : NewRow(c, i).analysis = A /\ NewRow(c, i).id = Id(c)
        BY DEF NewRow
    <2>3. \A r \in rows' : r \in rows \/ (r.analysis = A /\ r.id = Id(c))
        BY <1>1, <2>2
    <2> QED
        BY <2>1, <2>3 DEF OneRequest, IInv, FeedbackInv
<1>19. HomeInv'
    <2>1. rows \subseteq rows'
        BY <1>1
    <2>2. \A o \in corrections' : Backed(rows', o)
        <3> SUFFICES ASSUME NEW o \in corrections' PROVE Backed(rows', o)
            OBVIOUS
        <3>1. CASE o \in corrections
            BY <2>1, <3>1 DEF Backed, IInv, HomeInv
        <3>2. CASE o \notin corrections
            <4>1. PICK i \in Latest(c) : o = NewCorrection(c, i)
                BY <1>1, <3>2
            <4>2. NewRow(c, i) \in rows'
                BY <1>1
            <4>3. /\ NewRow(c, i).fridge = o.fridge /\ NewRow(c, i).key = o.key
                  /\ NewRow(c, i).name = o.name /\ NewRow(c, i).category = o.category
                BY <4>1 DEF NewRow, NewCorrection
            <4> QED
                BY <4>2, <4>3 DEF Backed
        <3> QED
            BY <3>1, <3>2
    <2>3. \A m, f, x : Home(rows, m, f, x) => Home(rows', m, f, x)
        BY <2>1 DEF Home
    <2>4. \A i \in DOMAIN cache' : Home(rows', cache'[i].value, cache'[i].key.fridge, cache'[i].key.key)
        BY <1>1, <2>3 DEF IInv, HomeInv
    <2>5. \A a \in Analyses : HomeRun(rows, a, run[a], context[a])
        BY DEF IInv, HomeInv
    <2>6. \A a \in Analyses : HomeRun(rows, a, run[a], context[a])'
        BY <1>1, <1>9, <2>3, <2>5 DEF HomeRun
    <2> QED
        BY <1>9, <2>2, <2>4, <2>6 DEF HomeInv
<1>20. CacheInv'
    BY <1>1 DEF CacheInv, IInv
<1> QED
    BY <1>9, <1>10, <1>15, <1>16, <1>17, <1>18, <1>19, <1>20 DEF IInv, FeedbackInv

LEMMA EntryExpires ==
    ASSUME NEW K, NEW V, NEW X, NEW x, x = [key |-> K, value |-> V, expired |-> X]
    PROVE  [x EXCEPT !.expired = TRUE] = [key |-> K, value |-> V, expired |-> TRUE]
<1> DEFINE y == [x EXCEPT !.expired = TRUE]
           T == [key : {K}, value : {V}, expired : {X, TRUE}]
<1>1. x \in T
    OBVIOUS
<1>2. y \in T
    BY <1>1
<1>3. y.key = K /\ y.value = V /\ y.expired = TRUE
    BY <1>1
<1> HIDE DEF y
<1>4. y = [key |-> y.key, value |-> y.value, expired |-> y.expired]
    BY <1>2
<1> QED
    BY <1>3, <1>4 DEF y

LEMMA ExpireStep == ASSUME IInv, NEW i \in DOMAIN cache, Expire(i) PROVE IInv'
<1> DEFINE e == cache[i]
           old == [key |-> e.key, value |-> e.value, expired |-> TRUE]
<1>1. /\ UNCHANGED <<scene, run, context, corrections, rows, client>>
      /\ cache' = [cache EXCEPT ![i] = [e EXCEPT !.expired = TRUE]]
    BY DEF Expire, analysisVars, storeVars
<1>2. Dictionary(cache) /\ Len(cache) <= CacheSize
    BY DEF IInv, CacheInv
<1>3. [e EXCEPT !.expired = TRUE] = old /\ e.key = CacheKey(e.key.fridge, e.key.key)
    <2>1. e = [key |-> CacheKey(e.key.fridge, e.key.key), value |-> e.value, expired |-> e.expired]
        BY <1>2 DEF Dictionary, Entry
    <2> DEFINE K == CacheKey(e.key.fridge, e.key.key)
               V == e.value
               X == e.expired
    <2>2. e = [key |-> K, value |-> V, expired |-> X]
        BY <2>1
    <2> HIDE DEF K, V, X
    <2>3. [e EXCEPT !.expired = TRUE] = [key |-> K, value |-> V, expired |-> TRUE]
        BY <2>2, EntryExpires
    <2>4. e.key = K /\ e.value = V
        BY <2>2
    <2> QED
        BY <2>3, <2>4 DEF K
<1>4. Entry(old) /\ old.key = e.key /\ old.value = e.value
    <2>1. old.key = e.key /\ old.value = e.value /\ old.expired = TRUE
        OBVIOUS
    <2> QED
        BY <1>3, <2>1 DEF Entry
<1> HIDE DEF old
<1>5. cache \in Seq(Range(cache)) /\ Len(cache) \in Nat /\ DOMAIN cache = 1 .. Len(cache)
    BY <1>2, RangeOfSequence DEF Dictionary, Sequence
<1>6. cache \in Seq(Range(cache) \cup {old})
    BY <1>5
<1>7. cache' \in Seq(Range(cache) \cup {old}) /\ Len(cache') = Len(cache)
    BY <1>1, <1>3, <1>6
<1>8. Sequence(cache') /\ DOMAIN cache' = DOMAIN cache
    BY <1>5, <1>7, RangeOfSequence
<1>9. \A j \in DOMAIN cache : cache'[j] = IF j = i THEN old ELSE cache[j]
    BY <1>1, <1>3
<1>10. \A j \in DOMAIN cache : /\ Entry(cache'[j]) /\ cache'[j].key = cache[j].key
                               /\ cache'[j].value = cache[j].value
    BY <1>2, <1>4, <1>9 DEF Dictionary
<1>11. Dictionary(cache')
    BY <1>2, <1>8, <1>10 DEF Dictionary
<1>12. CacheInv'
    BY <1>2, <1>7, <1>11 DEF CacheInv
<1>13. /\ Analyses' = Analyses /\ Clients' = Clients
       /\ \A o : Request(o)' = Request(o) /\ LearnedKeys(o)' = LearnedKeys(o)
       /\ \A a : Fridge(a)' = Fridge(a) /\ Texts(a)' = Texts(a)
    BY <1>1, SameScene
<1>14. Shapes'
    BY <1>1, <1>13 DEF IInv, Shapes
<1>15. FeedbackInv'
    <2>1. \A o : RowsOf(Request(o).analysis)' = RowsOf(Request(o).analysis)
        BY <1>1, <1>13 DEF RowsOf
    <2>2. \A o \in Clients : Keyed(o, client[o])'
        BY <1>1, <1>13 DEF Keyed, IInv, FeedbackInv
    <2>3. \A o \in Clients : Told(o, client[o])'
        BY <1>1, <1>13, <2>1 DEF Told, IInv, FeedbackInv
    <2> QED
        BY <1>1, <1>13, <2>2, <2>3 DEF IInv, FeedbackInv, Excluded, OneRequest
<1>16. HomeInv'
    <2>1. \A a \in Analyses : HomeRun(rows, a, run[a], context[a])'
        BY <1>1, <1>13 DEF HomeRun, IInv, HomeInv
    <2> QED
        BY <1>1, <1>8, <1>10, <1>13, <2>1 DEF IInv, HomeInv
<1> QED
    BY <1>12, <1>14, <1>15, <1>16 DEF IInv

-----------------------------------------------------------------------------
(* The theorems.                                                            *)

LEMMA InitInv == Init => IInv
<1> SUFFICES ASSUME Init PROVE IInv
    OBVIOUS
<1> USE DEF Init
<1>1. Shapes
    <2>1. \A c \in Clients : ClientRecord(client[c])
        BY EmptySequence, ClientFields DEF Idle, Phases
    <2>2. \A a \in Analyses : RunRecord(run[a])
        BY EmptySequence DEF New, RunRecord
    <2> QED
        BY <2>1, <2>2 DEF Shapes
<1>2. FeedbackInv
    <2>1. \A c \in Clients : client[c].phase = "idle" /\ client[c].held = {}
        BY DEF Idle
    <2>2. OneRequest
        BY ReceiptsAssumption DEF ReceiptsAssumption, OneRequest
    <2> QED
        BY <2>1, <2>2 DEF FeedbackInv, Excluded, Keyed, Told, Inside
<1>3. CacheInv
    <2>1. Sequence(cache) /\ DOMAIN cache = {} /\ Len(cache) = 0
        BY EmptySequence
    <2> QED
        BY <2>1, ReceiptsAssumption DEF ReceiptsAssumption, CacheInv, Dictionary
<1>4. HomeInv
    <2>1. \A o \in corrections : Backed(rows, o)
        BY DEF Backed
    <2>2. DOMAIN cache = {}
        OBVIOUS
    <2>3. \A a \in Analyses : run[a].phase = "new" /\ DOMAIN run[a].matches = {}
        BY DEF New
    <2> QED
        BY <2>1, <2>2, <2>3 DEF HomeInv, HomeRun
<1> QED
    BY <1>1, <1>2, <1>3, <1>4 DEF IInv

LEMMA StepInv == IInv /\ [Next]_vars => IInv'
<1> SUFFICES ASSUME IInv, [Next]_vars PROVE IInv'
    OBVIOUS
<1>1. CASE \E a \in Analyses : Analysis(a)
    <2>1. PICK a \in Analyses : Analysis(a)
        BY <1>1
    <2> QED
        BY <2>1, InferStep, HitStep, LoadStep, LoadFailsStep, StoreStep, ValidateStep DEF Analysis
<1>2. CASE \E c \in Clients : Feedback(c)
    <2>1. PICK c \in Clients : Feedback(c)
        BY <1>2
    <2> QED
        BY <2>1, LookStep, ViewStep, LockAnalysisStep, RecheckStep, LockKeyStep, ReadCorrectionsStep, CommitStep, ForgetStep
           DEF Feedback, Commit
<1>3. CASE \E c \in Clients : Trouble(c)
    <2>1. PICK c \in Clients : Trouble(c)
        BY <1>3
    <2> QED
        BY <2>1, CommitStep, FailsStep, RetryStep DEF Trouble, CommitUnheard
<1>4. CASE \E i \in DOMAIN cache : Expire(i)
    BY <1>4, ExpireStep
<1>5. CASE UNCHANGED vars
    <2>1. /\ scene' = scene /\ run' = run /\ context' = context /\ cache' = cache
          /\ corrections' = corrections /\ rows' = rows /\ client' = client
        BY <1>5 DEF vars
    <2>2. /\ Analyses' = Analyses /\ Clients' = Clients
          /\ \A o : Request(o)' = Request(o) /\ LearnedKeys(o)' = LearnedKeys(o)
          /\ \A a : Fridge(a)' = Fridge(a) /\ Texts(a)' = Texts(a)
        BY <2>1, SameScene
    <2>3. \A o : RowsOf(Request(o).analysis)' = RowsOf(Request(o).analysis)
        BY <2>1, <2>2 DEF RowsOf
    <2>4. \A o \in Clients : Keyed(o, client[o])' /\ Told(o, client[o])'
        BY <2>1, <2>2, <2>3 DEF Keyed, Told, IInv, FeedbackInv
    <2>5. \A a \in Analyses : HomeRun(rows, a, run[a], context[a])'
        BY <2>1, <2>2 DEF HomeRun, IInv, HomeInv
    <2> QED
        BY <2>1, <2>2, <2>4, <2>5 DEF IInv, Shapes, FeedbackInv, Excluded, OneRequest, CacheInv, HomeInv
<1> QED
    BY <1>1, <1>2, <1>3, <1>4, <1>5 DEF Next

\* The invariant holds in every state: the shapes of the variables, the locks,
\* keys and rows of the feedback requests, the lookup cache as a dictionary of
\* bounded size, and where learned names come from.
THEOREM ReceiptsInv == Spec => []IInv
<1> QED
    BY InitInv, StepInv, PTL DEF Spec

\* However often and in whatever order feedback is sent, also where answers get
\* lost and the database fails, one request's rows are kept for an analysis,
\* every answer tells of them, and the unique index never refuses a correction:
\* the advisory locks of record_feedback() are enough.
THEOREM FeedbackSpec == Spec => []FeedbackCountsOnce
<1>1. IInv => FeedbackCountsOnce
    BY DEF IInv, Shapes, FeedbackInv, FeedbackCountsOnce, OneRequest, Told, ClientRecord, Phases
<1> QED
    BY <1>1, ReceiptsInv, PTL

\* A name learned from a correction stands on an item only where the same
\* fridge gave it for the same text, for any number of analyses and fridges
\* sharing the cache, whatever is evicted, forgotten or stored late.
THEOREM CorrectionsSpec == Spec => []CorrectionsStayHome
<1>1. IInv => CorrectionsStayHome
    BY DEF IInv, HomeInv, HomeRun, Home, CorrectionsStayHome
<1> QED
    BY <1>1, ReceiptsInv, PTL

\* The cache of lookups holds a key once and no more keys than its size, also
\* where two loaders of a key store what they read (BoundedAsyncCache).
CacheIsBounded == Len(cache) <= CacheSize /\ \A i, j \in DOMAIN cache : cache[i].key = cache[j].key => i = j
THEOREM CacheSpec == Spec => []CacheIsBounded
<1>1. IInv => CacheIsBounded
    BY DEF IInv, CacheInv, Dictionary, CacheIsBounded
<1> QED
    BY <1>1, ReceiptsInv, PTL
-----------------------------------------------------------------------------
(* What an analysis makes of a photo.                                       *)

Exactly(key) == {k \in Catalog : k.text = key /\ k.via = "exact"}
Roughly(key) == {k \in Catalog : k.text = key /\ k.via = "fuzzy" /\ k.similarity >= 55 /\ Len(key) >= 2}
Match(x, via) == [name |-> x.name, category |-> x.category, via |-> via]

\* A correction the fridge gave for the text, else what the catalog has under it,
\* else what it has that is similar, else nothing.
Answers(R, m, fridge, key) ==
    \/ \E r \in R : r.fridge = fridge /\ r.key = key /\ m = Match(r, "learned")
    \/ \E k \in Exactly(key) : m = Match(k, "exact")
    \/ Exactly(key) = {} /\ \E k \in Roughly(key) : m = Match(k, "fuzzy")
    \/ Exactly(key) = {} /\ Roughly(key) = {} /\ m = None

\* Whatever was cached, evicted, expired or corrected on the way, the items of a
\* finished analysis are what the pipeline makes of its photo and of one answer to
\* each of its texts, a right one for that text unless the database failed.
ItemsRestOnLookups ==
    \A a \in Analyses : Done(a) =>
        /\ Len(run[a].matches) = Len(Texts(a))
        /\ \A i \in DOMAIN run[a].matches :
              Answers(rows, run[a].matches[i], Fridge(a), Texts(a)[i]) \/ (Faulty /\ run[a].matches[i] = None)
        /\ run[a].items = Items(Photo(a).reading, run[a].matches)

\* Invariant parts: entries of the cache, and analyses under way.
Knowing(R, s) == \A i \in DOMAIN s : Answers(R, s[i].value, s[i].key.fridge, s[i].key.key)
LookRun(R, a, x) ==
    /\ x.phase = "loading" => Answers(R, x.loaded, Fridge(a), Texts(a)[Len(x.matches) + 1])
    /\ \A i \in DOMAIN x.matches :
          Answers(R, x.matches[i], Fridge(a), Texts(a)[i]) \/ (Faulty /\ x.matches[i] = None)
    /\ x.phase = "done" => Len(x.matches) = Len(Texts(a)) /\ x.items = Items(Photo(a).reading, x.matches)
LookInv == Knowing(rows, cache) /\ \A a \in Analyses : LookRun(rows, a, run[a])

\* More rows, and a part of the cache, are no harm.
LEMMA AnswersGrow ==
    ASSUME NEW R, NEW Q, R \subseteq Q
    PROVE  /\ \A m, f, k : Answers(R, m, f, k) => Answers(Q, m, f, k)
           /\ \A s : Knowing(R, s) => Knowing(Q, s)
           /\ \A a, x : LookRun(R, a, x) => LookRun(Q, a, x)
<1>1. \A m, f, k : Answers(R, m, f, k) => Answers(Q, m, f, k)
    BY DEF Answers
<1> QED
    BY <1>1 DEF Knowing, LookRun

LEMMA QueryAnswers ==
    ASSUME NEW fridge, NEW key, \A o \in corrections : Backed(rows, o)
    PROVE  Answers(rows, Query(fridge, key), fridge, key)
<1> DEFINE own == {c \in corrections : c.key = key /\ c.fridge = fridge}
           Pick(S, via) == LET k == CHOOSE e \in S : TRUE IN [name |-> k.name, category |-> k.category, via |-> via]
<1>1. CASE own # {}
    <2>1. Query(fridge, key) = Pick(own, "learned")
        BY <1>1 DEF Query
    <2>2. PICK o \in own : Query(fridge, key) = Match(o, "learned")
        BY <1>1, <2>1 DEF Match
    <2>3. PICK r \in rows : r.fridge = fridge /\ r.key = key /\ r.name = o.name /\ r.category = o.category
        BY DEF Backed
    <2>4. Match(r, "learned") = Match(o, "learned")
        BY <2>3 DEF Match
    <2> QED
        BY <2>2, <2>3, <2>4 DEF Answers
<1>2. CASE own = {} /\ Exactly(key) # {}
    <2>1. Query(fridge, key) = Pick(Exactly(key), "exact")
        BY <1>2 DEF Query, Exactly
    <2>2. \E k \in Exactly(key) : Query(fridge, key) = Match(k, "exact")
        BY <1>2, <2>1 DEF Match
    <2> QED
        BY <2>2 DEF Answers
<1>3. CASE own = {} /\ Exactly(key) = {}
    <2>1. Query(fridge, key) = IF Roughly(key) # {} THEN Pick(Roughly(key), "fuzzy") ELSE None
        BY <1>3 DEF Query, Exactly, Roughly
    <2>2. Roughly(key) # {} => \E k \in Roughly(key) : Query(fridge, key) = Match(k, "fuzzy")
        BY <2>1 DEF Match
    <2> QED
        BY <1>3, <2>1, <2>2 DEF Answers
<1> QED
    BY <1>1, <1>2, <1>3

LEMMA PartKnowing ==
    ASSUME LookInv, NEW s, PartOf(s, cache)
    PROVE  Knowing(rows, s)
BY DEF LookInv, Knowing, PartOf

LEMMA OtherKnowing ==
    ASSUME IInv, LookInv, NEW k
    PROVE  Knowing(rows, Other(k))
<1>1. PartOf(Other(k), cache)
    BY OtherFacts DEF IInv
<1> QED
    BY <1>1, PartKnowing

\* What an analysis does to itself and the cache.
LookMoves(a, y) ==
    /\ UNCHANGED <<scene, rows>>
    /\ run' = [run EXCEPT ![a] = y]
    /\ LookRun(rows, a, y)
    /\ Knowing(rows, cache')

LEMMA LookMovesStep ==
    ASSUME IInv, LookInv, NEW a \in Analyses, NEW y, LookMoves(a, y)
    PROVE  LookInv'
<1>1. scene' = scene /\ rows' = rows /\ Knowing(rows, cache')
    BY DEF LookMoves
<1>2. /\ Analyses' = Analyses /\ (Faulty' <=> Faulty)
      /\ \A b : Photo(b)' = Photo(b) /\ Fridge(b)' = Fridge(b) /\ Texts(b)' = Texts(b)
    BY <1>1 DEF Analyses, Photo, Fridge, Texts, Faulty
<1>3. \A b \in Analyses : LookRun(rows, b, run'[b])
    BY DEF LookMoves, LookInv, IInv, Shapes
<1>4. \A b \in Analyses : LookRun(rows, b, run[b])'
    BY <1>1, <1>2, <1>3 DEF LookRun
<1>5. Knowing(rows, cache)'
    BY <1>1 DEF Knowing
<1> QED
    BY <1>2, <1>4, <1>5 DEF LookInv

\* A step that leaves the analyses alone and only adds rows.
LEMMA RestLooks ==
    ASSUME IInv, LookInv, UNCHANGED <<scene, run>>, rows \subseteq rows', Knowing(rows, cache')
    PROVE  LookInv'
<1>1. /\ Analyses' = Analyses /\ (Faulty' <=> Faulty)
      /\ \A b : Photo(b)' = Photo(b) /\ Fridge(b)' = Fridge(b) /\ Texts(b)' = Texts(b)
    BY DEF Analyses, Photo, Fridge, Texts, Faulty
<1>2. Knowing(rows', cache') /\ \A b \in Analyses : LookRun(rows', b, run[b])
    BY AnswersGrow DEF LookInv
<1>3. \A b \in Analyses : LookRun(rows, b, run[b])'
    BY <1>1, <1>2 DEF LookRun
<1>4. Knowing(rows, cache)'
    BY <1>2 DEF Knowing
<1> QED
    BY <1>1, <1>3, <1>4 DEF LookInv

LEMMA FoundLooks ==
    ASSUME IInv, LookInv, NEW a \in Analyses, NEW match,
           Answers(rows, match, Fridge(a), Text1(a)) \/ (Faulty /\ match = None)
    PROVE  \E y : Found(a, match) = [run EXCEPT ![a] = y] /\ LookRun(rows, a, y)
<1> DEFINE m == Append(run[a].matches, match)
           y == [phase |-> "looking", matches |-> m, loaded |-> None, items |-> run[a].items]
<1>1. RunRecord(run[a]) /\ Sequence(run[a].matches) /\ LookRun(rows, a, run[a])
    BY RunFacts DEF LookInv
<1>2. /\ Sequence(m) /\ Len(run[a].matches) \in Nat /\ DOMAIN run[a].matches = 1 .. Len(run[a].matches)
      /\ DOMAIN m = 1 .. Len(run[a].matches) + 1 /\ m[Len(run[a].matches) + 1] = match
      /\ \A i \in 1 .. Len(run[a].matches) : m[i] = run[a].matches[i]
    BY <1>1, AppendSequence
<1> HIDE DEF m
<1>3. Matched(run[a], "looking", m, None) = y
    <2>1. run[a] = [phase |-> run[a].phase, matches |-> run[a].matches, loaded |-> run[a].loaded, items |-> run[a].items]
        BY <1>1 DEF RunRecord
    <2> QED
        BY <2>1, RunFound
<1>4. Found(a, match) = [run EXCEPT ![a] = y]
    BY <1>3 DEF Found, Matched, m
<1>5. y.phase = "looking" /\ y.matches = m
    OBVIOUS
<1> HIDE DEF y
<1>6. \A i \in DOMAIN m : Answers(rows, m[i], Fridge(a), Texts(a)[i]) \/ (Faulty /\ m[i] = None)
    <2> SUFFICES ASSUME NEW i \in DOMAIN m
                 PROVE  Answers(rows, m[i], Fridge(a), Texts(a)[i]) \/ (Faulty /\ m[i] = None)
        OBVIOUS
    <2>1. CASE i = Len(run[a].matches) + 1
        BY <2>1, <1>2 DEF Text1
    <2>2. CASE i \in 1 .. Len(run[a].matches)
        BY <2>2, <1>1, <1>2 DEF LookRun
    <2> QED
        BY <1>2, <2>1, <2>2
<1>7. LookRun(rows, a, y)
    BY <1>5, <1>6 DEF LookRun
<1> QED
    BY <1>4, <1>7

LEMMA InferLooks == ASSUME IInv, LookInv, NEW a \in Analyses, Infer(a) PROVE LookInv'
<1> DEFINE y == [phase |-> "looking", matches |-> run[a].matches, loaded |-> run[a].loaded, items |-> run[a].items]
<1>1. RunRecord(run[a]) /\ LookRun(rows, a, run[a])
    BY RunFacts DEF LookInv
<1>2. run' = [run EXCEPT ![a] = y]
    <2>1. run[a] = [phase |-> run[a].phase, matches |-> run[a].matches, loaded |-> run[a].loaded, items |-> run[a].items]
        BY <1>1 DEF RunRecord
    <2>2. Phased(run[a], "looking") = y
        BY <2>1, RunPhase
    <2>3. run' = [run EXCEPT ![a] = Phased(run[a], "looking")]
        BY DEF Infer, Phased
    <2> QED
        BY <2>2, <2>3
<1>3. y.phase = "looking" /\ y.matches = run[a].matches
    OBVIOUS
<1> HIDE DEF y
<1>4. LookRun(rows, a, y)
    BY <1>1, <1>3 DEF LookRun
<1>5. UNCHANGED <<scene, rows, cache>>
    BY DEF Infer, storeVars
<1>6. LookMoves(a, y)
    BY <1>2, <1>4, <1>5 DEF LookMoves, LookInv
<1> QED
    BY <1>6, LookMovesStep

LEMMA HitLooks == ASSUME IInv, LookInv, NEW a \in Analyses, Hit(a) PROVE LookInv'
<1> DEFINE k == CacheKey(context[a], Text1(a))
<1>1. context[a] = Fridge(a)
    BY RunFacts DEF Hit, Looking, HomeRun
<1>2. PICK n \in DOMAIN cache : /\ cache[n].key = k
                                /\ cache' = Append(Other(k), cache[n])
                                /\ run' = Found(a, cache[n].value)
    BY DEF Hit, Cached, Range
<1>3. k.fridge = Fridge(a) /\ k.key = Text1(a)
    BY <1>1 DEF CacheKey
<1> HIDE DEF k
<1>4. CacheInv /\ Entry(cache[n])
    BY RunFacts DEF CacheInv, Dictionary
<1>5. Answers(rows, cache[n].value, Fridge(a), Text1(a))
    BY <1>2, <1>3 DEF LookInv, Knowing
<1>6. PICK y : run' = [run EXCEPT ![a] = y] /\ LookRun(rows, a, y)
    BY <1>2, <1>5, FoundLooks
<1>7. /\ Dictionary(Other(k)) /\ PartOf(Other(k), cache)
      /\ \A i \in DOMAIN Other(k) : Other(k)[i].key # cache[n].key
    BY <1>2, <1>4, OtherFacts
<1>8. \A i \in DOMAIN cache' : cache'[i] = cache[n] \/ \E j \in DOMAIN Other(k) : cache'[i] = Other(k)[j]
    BY <1>2, <1>4, <1>7, DictionaryAppend
<1>9. PartOf(cache', cache)
    BY <1>2, <1>7, <1>8 DEF PartOf
<1>10. Knowing(rows, cache')
    BY <1>9, PartKnowing
<1>11. UNCHANGED <<scene, rows>>
    BY DEF Hit, storeVars
<1>12. LookMoves(a, y)
    BY <1>6, <1>10, <1>11 DEF LookMoves
<1> QED
    BY <1>12, LookMovesStep

LEMMA LoadLooks == ASSUME IInv, LookInv, NEW a \in Analyses, Load(a) PROVE LookInv'
<1> DEFINE q == Query(context[a], Text1(a))
           y == [phase |-> "loading", matches |-> run[a].matches, loaded |-> q, items |-> run[a].items]
<1>1. RunRecord(run[a]) /\ HomeRun(rows, a, run[a], context[a]) /\ LookRun(rows, a, run[a])
    BY RunFacts DEF LookInv
<1>2. context[a] = Fridge(a)
    BY <1>1 DEF Load, Looking, HomeRun
<1>3. Answers(rows, q, Fridge(a), Text1(a))
    BY <1>2, QueryAnswers DEF IInv, HomeInv
<1> HIDE DEF q
<1>4. run' = [run EXCEPT ![a] = y]
    <2>1. run[a] = [phase |-> run[a].phase, matches |-> run[a].matches, loaded |-> run[a].loaded, items |-> run[a].items]
        BY <1>1 DEF RunRecord
    <2>2. Loading(run[a], "loading", q) = y
        BY <2>1, RunLoading
    <2>3. run' = [run EXCEPT ![a] = Loading(run[a], "loading", q)]
        BY DEF Load, Loading, q
    <2> QED
        BY <2>2, <2>3
<1>5. y.phase = "loading" /\ y.matches = run[a].matches /\ y.loaded = q
    OBVIOUS
<1> HIDE DEF y
<1>6. LookRun(rows, a, y)
    BY <1>1, <1>3, <1>5 DEF LookRun, Text1
<1>7. PICK k : cache' = Other(k)
    BY DEF Load
<1>8. UNCHANGED <<scene, rows>>
    BY DEF Load, storeVars
<1>9. LookMoves(a, y)
    BY <1>4, <1>6, <1>7, <1>8, OtherKnowing DEF LookMoves
<1> QED
    BY <1>9, LookMovesStep

LEMMA LoadFailsLooks == ASSUME IInv, LookInv, NEW a \in Analyses, LoadFails(a) PROVE LookInv'
<1>1. Faulty /\ run' = Found(a, None)
    BY DEF LoadFails
<1>2. PICK y : run' = [run EXCEPT ![a] = y] /\ LookRun(rows, a, y)
    BY <1>1, FoundLooks
<1>3. PICK k : cache' = Other(k)
    BY DEF LoadFails
<1>4. UNCHANGED <<scene, rows>>
    BY DEF LoadFails, storeVars
<1>5. LookMoves(a, y)
    BY <1>2, <1>3, <1>4, OtherKnowing DEF LookMoves
<1> QED
    BY <1>5, LookMovesStep

LEMMA StoreLooks == ASSUME IInv, LookInv, NEW a \in Analyses, Store(a) PROVE LookInv'
<1> DEFINE v == run[a].loaded
           k == CacheKey(context[a], Text1(a))
           new == NewEntry(k, v)
<1>1. run[a].phase = "loading" /\ context[a] = Fridge(a)
    BY RunFacts DEF Store, HomeRun
<1>2. Answers(rows, v, Fridge(a), Text1(a))
    BY <1>1 DEF LookInv, LookRun, Text1
<1>3. PICK y : run' = [run EXCEPT ![a] = y] /\ LookRun(rows, a, y)
    BY <1>2, FoundLooks DEF Store
<1>4. cache' = Put(k, v) /\ UNCHANGED <<scene, rows>>
    BY DEF Store, storeVars
<1>5. CacheInv
    BY RunFacts
<1>6. k = CacheKey(k.fridge, k.key)
    BY DEF CacheKey
<1>7. new.value = v /\ new.key.fridge = Fridge(a) /\ new.key.key = Text1(a)
    BY <1>1 DEF CacheKey, NewEntry
<1> HIDE DEF k
<1>8. \A i \in DOMAIN cache' : cache'[i] = new \/ \E j \in DOMAIN cache : cache'[i] = cache[j]
    BY <1>4, <1>5, <1>6, PutFacts
<1> HIDE DEF new, v
<1>9. Knowing(rows, cache')
    BY <1>2, <1>7, <1>8 DEF LookInv, Knowing
<1>10. LookMoves(a, y)
    BY <1>3, <1>4, <1>9 DEF LookMoves
<1> QED
    BY <1>10, LookMovesStep

LEMMA ValidateLooks == ASSUME IInv, LookInv, NEW a \in Analyses, Validate(a) PROVE LookInv'
<1> DEFINE items == Items(Photo(a).reading, run[a].matches)
           y == [phase |-> "done", matches |-> run[a].matches, loaded |-> run[a].loaded, items |-> items]
<1>1. /\ RunRecord(run[a]) /\ LookRun(rows, a, run[a])
      /\ Len(run[a].matches) = Len(Texts(a))
    BY RunFacts DEF Validate, LookInv
<1>2. UNCHANGED <<scene, rows, cache>>
    BY DEF Validate, storeVars
<1>3. run' = [run EXCEPT ![a] = Validated(run[a], "done", items)]
    BY DEF Validate, Validated
<1>4. items = Items(Photo(a).reading, run[a].matches)
    OBVIOUS
<1> HIDE DEF items
<1>5. run' = [run EXCEPT ![a] = y]
    <2>1. run[a] = [phase |-> run[a].phase, matches |-> run[a].matches, loaded |-> run[a].loaded, items |-> run[a].items]
        BY <1>1 DEF RunRecord
    <2>2. Validated(run[a], "done", items) = y
        BY <2>1, RunDone
    <2> QED
        BY <1>3, <2>2
<1>6. y.phase = "done" /\ y.matches = run[a].matches /\ y.items = items
    OBVIOUS
<1> HIDE DEF y
<1>7. LookRun(rows, a, y)
    BY <1>1, <1>4, <1>6 DEF LookRun
<1>8. LookMoves(a, y)
    BY <1>2, <1>5, <1>7 DEF LookMoves, LookInv
<1> QED
    BY <1>8, LookMovesStep

\* A feedback request adds rows and forgets entries.
LEMMA FeedbackLooks ==
    ASSUME IInv, LookInv, NEW c \in Clients, Feedback(c) \/ Trouble(c)
    PROVE  LookInv'
<1>1. UNCHANGED <<scene, run>> /\ rows \subseteq rows'
    BY DEF Feedback, Trouble, Look, View, LockAnalysis, Recheck, LockKey, ReadCorrections, Commit, Forget,
           CommitUnheard, CommitTo, Fails, Retry, analysisVars
<1>2. Knowing(rows, cache')
    <2>1. CASE Forget(c)
        <3>1. PICK keys : cache' \in Forgotten(keys)
            BY <2>1 DEF Forget
        <3>2. PartOf(cache', cache)
            BY <3>1, ForgottenFacts DEF IInv
        <3> QED
            BY <3>2, PartKnowing
    <2>2. CASE ~Forget(c)
        <3>1. cache' = cache
            BY <2>2 DEF Feedback, Trouble, Look, View, LockAnalysis, Recheck, LockKey, ReadCorrections, Commit,
                        CommitUnheard, CommitTo, Fails, Retry
        <3> QED
            BY <3>1 DEF LookInv
    <2> QED
        BY <2>1, <2>2
<1> QED
    BY <1>1, <1>2, RestLooks

LEMMA ExpireLooks == ASSUME IInv, LookInv, NEW i \in DOMAIN cache, Expire(i) PROVE LookInv'
<1>1. /\ UNCHANGED <<scene, run, rows>>
      /\ cache' = [cache EXCEPT ![i] = [cache[i] EXCEPT !.expired = TRUE]]
    BY DEF Expire, analysisVars, storeVars
<1>2. Entry(cache[i])
    BY DEF IInv, CacheInv, Dictionary
<1>3. [cache[i] EXCEPT !.expired = TRUE] = [key |-> cache[i].key, value |-> cache[i].value, expired |-> TRUE]
    <2>1. cache[i] = [key |-> cache[i].key, value |-> cache[i].value, expired |-> cache[i].expired]
        BY <1>2 DEF Entry
    <2> QED
        BY <2>1, EntryExpires
<1>4. DOMAIN cache' = DOMAIN cache
      /\ \A j \in DOMAIN cache : cache'[j].key = cache[j].key /\ cache'[j].value = cache[j].value
    BY <1>1, <1>3 DEF IInv, CacheInv, Dictionary, Sequence
<1>5. Knowing(rows, cache')
    BY <1>4 DEF LookInv, Knowing
<1> QED
    BY <1>1, <1>5, RestLooks

LEMMA InitLooks == Init => LookInv
<1> SUFFICES ASSUME Init PROVE LookInv
    OBVIOUS
<1>1. Knowing(rows, cache)
    BY DEF Init, Knowing
<1>2. \A a \in Analyses : run[a].phase = "new" /\ DOMAIN run[a].matches = {}
    BY DEF Init, New
<1> QED
    BY <1>1, <1>2 DEF LookInv, LookRun

LEMMA NextLooks == IInv /\ LookInv /\ [Next]_vars => LookInv'
<1> SUFFICES ASSUME IInv, LookInv, [Next]_vars PROVE LookInv'
    OBVIOUS
<1>1. CASE \E a \in Analyses : Analysis(a)
    BY <1>1, InferLooks, HitLooks, LoadLooks, LoadFailsLooks, StoreLooks, ValidateLooks DEF Analysis
<1>2. CASE \E c \in Clients : Feedback(c) \/ Trouble(c)
    BY <1>2, FeedbackLooks
<1>3. CASE \E i \in DOMAIN cache : Expire(i)
    BY <1>3, ExpireLooks
<1>4. CASE UNCHANGED vars
    <2>1. UNCHANGED <<scene, run, rows, cache>>
        BY <1>4 DEF vars
    <2> QED
        BY <2>1, RestLooks DEF LookInv
<1> QED
    BY <1>1, <1>2, <1>3, <1>4 DEF Next

\* The items of a finished analysis are what its photo and right answers to its own
\* texts make of it, in every interleaving with other analyses that share the cache
\* and with feedback that corrects and forgets.
THEOREM ItemsSpec == Spec => []ItemsRestOnLookups
<1>1. Spec => []LookInv
    BY InitLooks, NextLooks, ReceiptsInv, PTL DEF Spec
<1>2. LookInv => ItemsRestOnLookups
    BY DEF LookInv, LookRun, Done, ItemsRestOnLookups
<1> QED
    BY <1>1, <1>2, PTL
=============================================================================
