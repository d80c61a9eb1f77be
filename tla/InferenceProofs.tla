--------------------------- MODULE InferenceProofs ---------------------------
(***************************************************************************)
(* Proofs about Inference, for any number of Pods, slots, calls, attempts, *)
(* faults and script runs.                                                 *)
(***************************************************************************)
EXTENDS Inference, TLAPS, FiniteSetTheorems, SequenceTheorems

-----------------------------------------------------------------------------
(* Semaphores and lines.                                                   *)

\* Who holds a slot or waits for one.
Members(s) == s.held \cup Range(s.queue)

\* A semaphore of kind k as its users leave it: nobody waits for a free slot,
\* and nobody is there twice.
SemOK(s, k) ==
    /\ s \in [held : SUBSET Req, queue : Seq(Req)]
    /\ Cardinality(s.held) <= Slots[k]
    /\ s.queue # << >> => Cardinality(s.held) = Slots[k]
    /\ IsInjective(s.queue)
    /\ s.held \cap Range(s.queue) = {}

\* The rest of a line without one who stands in it.
LEMMA OutOfLine ==
  ASSUME NEW S, NEW q \in Seq(S), IsInjective(q), NEW x
  PROVE  /\ OutOf(q, x) \in Seq(S)
         /\ IsInjective(OutOf(q, x))
         /\ Range(OutOf(q, x)) = Range(q) \ {x}
         /\ q # << >> /\ Head(q) # x => OutOf(q, x) # << >> /\ Head(OutOf(q, x)) = Head(q)
         /\ OutOf(q, x) # << >> => q # << >>
<1>1. CASE x \notin Range(q)
  BY <1>1 DEF OutOf
<1>2. CASE x \in Range(q)
  <2> DEFINE i == CHOOSE n \in DOMAIN q : q[n] = x
             front == SubSeq(q, 1, i - 1)
             back == SubSeq(q, i + 1, Len(q))
             rest == front \o back
  <2>1. /\ Len(q) \in Nat /\ DOMAIN q = 1 .. Len(q)
        /\ \A n \in 1 .. Len(q) : q[n] \in S
    BY LenProperties
  <2>2. i \in 1 .. Len(q) /\ q[i] = x
    BY <1>2, <2>1 DEF Range
  <2>3. OutOf(q, x) = rest
    BY <1>2 DEF OutOf, RemoveAt
  <2> HIDE DEF i
  <2>4. front \in Seq(S) /\ Len(front) = i - 1 /\ \A n \in 1 .. i - 1 : front[n] = q[n]
    <3>1. i - 1 \in Int /\ \A n \in 1 .. i - 1 : q[n] \in S
      BY <2>1, <2>2
    <3> QED
      BY <3>1, <2>2, SubSeqProperties
  <2>5. back \in Seq(S) /\ Len(back) = Len(q) - i /\ \A n \in 1 .. Len(q) - i : back[n] = q[n + i]
    <3>1. i + 1 \in Int /\ Len(q) \in Int /\ \A n \in i + 1 .. Len(q) : q[n] \in S
      BY <2>1, <2>2
    <3>2. /\ back \in Seq(S)
          /\ Len(back) = IF i + 1 <= Len(q) THEN Len(q) - (i + 1) + 1 ELSE 0
          /\ \A n \in 1 .. Len(q) - (i + 1) + 1 : back[n] = q[i + 1 + n - 1]
      BY <3>1, SubSeqProperties
    <3> HIDE DEF back
    <3>3. \A n \in 1 .. Len(q) - i : n \in 1 .. Len(q) - (i + 1) + 1 /\ i + 1 + n - 1 = n + i
      BY <2>1, <2>2
    <3>4. Len(back) = Len(q) - i
      <4>1. Len(back) = IF i + 1 <= Len(q) THEN Len(q) - (i + 1) + 1 ELSE 0
        BY <3>2
      <4>2. i \in Nat /\ Len(q) \in Nat /\ i <= Len(q)
        BY <2>1, <2>2
      <4> QED
        BY <4>1, <4>2
    <3> QED
      BY <3>2, <3>3, <3>4
  <2> HIDE DEF front, back
  <2>6. /\ rest \in Seq(S) /\ Len(rest) = Len(q) - 1
        /\ \A n \in 1 .. Len(q) - 1 : rest[n] = IF n < i THEN q[n] ELSE q[n + 1]
    <3>1. /\ rest \in Seq(S) /\ Len(rest) = Len(front) + Len(back)
          /\ \A n \in 1 .. Len(front) + Len(back) :
                 rest[n] = IF n <= Len(front) THEN front[n] ELSE back[n - Len(front)]
      BY <2>4, <2>5, ConcatProperties
    <3> HIDE DEF rest
    <3>2. Len(rest) = Len(q) - 1 /\ Len(front) + Len(back) = Len(q) - 1
      BY <3>1, <2>1, <2>2, <2>4, <2>5
    <3>3. ASSUME NEW n \in 1 .. Len(q) - 1 PROVE rest[n] = IF n < i THEN q[n] ELSE q[n + 1]
      <4>1. CASE n < i
        <5>1. n \in 1 .. i - 1 /\ n <= Len(front)
          BY <4>1, <2>1, <2>2, <2>4
        <5> QED
          BY <5>1, <4>1, <3>1, <3>2, <2>4
      <4>2. CASE ~(n < i)
        <5>1. n - (i - 1) \in 1 .. Len(q) - i /\ ~(n <= Len(front)) /\ n - (i - 1) + i = n + 1
          BY <4>2, <2>1, <2>2, <2>4
        <5>2. rest[n] = back[n - (i - 1)]
          BY <5>1, <3>1, <3>2, <2>4
        <5>3. back[n - (i - 1)] = q[n + 1]
          BY <5>1, <2>5
        <5> QED
          BY <5>2, <5>3, <4>2
      <4> QED
        BY <4>1, <4>2
    <3> QED
      BY <3>1, <3>2, <3>3
  <2> HIDE DEF rest
  <2>7. DOMAIN rest = 1 .. Len(q) - 1
    BY <2>6, LenProperties
  <2>8. IsInjective(rest)
    <3> SUFFICES ASSUME NEW a \in 1 .. Len(q) - 1, NEW b \in 1 .. Len(q) - 1, rest[a] = rest[b]
                 PROVE  a = b
      BY <2>7 DEF IsInjective
    <3> DEFINE a0 == IF a < i THEN a ELSE a + 1
               b0 == IF b < i THEN b ELSE b + 1
    <3>1. i \in Nat /\ Len(q) \in Nat /\ a \in Nat /\ b \in Nat
      BY <2>1, <2>2
    <3>2. rest[a] = q[a0] /\ rest[b] = q[b0]
      BY <2>6
    <3>3. a0 \in DOMAIN q /\ b0 \in DOMAIN q
      BY <3>1, <2>1
    <3>4. a0 = b0
      BY <3>2, <3>3 DEF IsInjective
    <3> QED
      BY <3>4, <3>1
  <2>9. Range(rest) = Range(q) \ {x}
    <3>1. ASSUME NEW n \in 1 .. Len(q) - 1 PROVE rest[n] \in Range(q) \ {x}
      <4>1. PICK m \in 1 .. Len(q) : m # i /\ rest[n] = q[m]
        BY <2>1, <2>2, <2>6
      <4>2. q[m] # x
        BY <4>1, <2>1, <2>2 DEF IsInjective
      <4> QED
        BY <4>1, <4>2, <2>1 DEF Range
    <3>2. ASSUME NEW m \in 1 .. Len(q), q[m] # x PROVE q[m] \in Range(rest)
      <4>1. m # i
        BY <3>2, <2>2
      <4>2. CASE m < i
        <5>1. m \in 1 .. Len(q) - 1 /\ rest[m] = q[m]
          BY <4>2, <2>1, <2>2, <2>6
        <5> QED
          BY <5>1, <2>7 DEF Range
      <4>3. CASE m > i
        <5>1. m - 1 \in 1 .. Len(q) - 1 /\ rest[m - 1] = q[m]
          BY <4>3, <2>1, <2>2, <2>6
        <5> QED
          BY <5>1, <2>7 DEF Range
      <4> QED
        BY <4>1, <4>2, <4>3, <2>1, <2>2
    <3> QED
      BY <3>1, <3>2, <2>1, <2>7 DEF Range
  <2>10. q # << >> /\ Head(q) # x => rest # << >> /\ Head(rest) = Head(q)
    <3> SUFFICES ASSUME q # << >>, Head(q) # x PROVE rest # << >> /\ Head(rest) = Head(q)
      OBVIOUS
    <3>1. Head(q) = q[1] /\ i # 1 /\ Len(q) > 1
      BY <2>1, <2>2
    <3>2. rest[1] = q[1] /\ Len(rest) > 0
      BY <3>1, <2>1, <2>2, <2>6
    <3>3. rest # << >> /\ Head(rest) = rest[1]
      BY <3>2, <2>6
    <3> QED
      BY <3>1, <3>2, <3>3
  <2>11. q # << >>
    BY <2>1, <2>2
  <2> QED
    BY <2>3, <2>6, <2>8, <2>9, <2>10, <2>11
<1> QED
  BY <1>1, <1>2

\* Joining a line in which one does not stand.
LEMMA JoinLine ==
  ASSUME NEW S, NEW q \in Seq(S), IsInjective(q), NEW x \in S, x \notin Range(q)
  PROVE  /\ Append(q, x) \in Seq(S) /\ Append(q, x) # << >>
         /\ IsInjective(Append(q, x))
         /\ Range(Append(q, x)) = Range(q) \cup {x}
         /\ Head(Append(q, x)) = IF q = << >> THEN x ELSE Head(q)
<1> DEFINE r == Append(q, x)
<1>1. /\ r \in Seq(S) /\ Len(r) = Len(q) + 1 /\ r # << >>
      /\ \A n \in 1 .. Len(q) : r[n] = q[n]
      /\ r[Len(q) + 1] = x
      /\ Len(q) \in Nat /\ DOMAIN q = 1 .. Len(q) /\ DOMAIN r = 1 .. Len(q) + 1
  BY AppendProperties, LenProperties
<1>2. r # << >> /\ Head(r) = r[1] /\ q # << >> => Head(q) = q[1] /\ Len(q) > 0
  BY <1>1
<1>3. q = << >> => Len(q) = 0
  OBVIOUS
<1> HIDE DEF r
<1>4. \A n \in 1 .. Len(q) : r[n] \in Range(q)
  BY <1>1 DEF Range
<1>5. IsInjective(r)
  <2> SUFFICES ASSUME NEW a \in 1 .. Len(q) + 1, NEW b \in 1 .. Len(q) + 1, r[a] = r[b]
               PROVE  a = b
    BY <1>1 DEF IsInjective
  <2>1. CASE a \in 1 .. Len(q) /\ b \in 1 .. Len(q)
    BY <2>1, <1>1 DEF IsInjective
  <2>2. CASE a \notin 1 .. Len(q) \/ b \notin 1 .. Len(q)
    BY <2>2, <1>1, <1>4
  <2> QED
    BY <2>1, <2>2
<1>6. Range(r) = Range(q) \cup {x}
  <2>1. Range(r) \subseteq Range(q) \cup {x}
    <3> SUFFICES ASSUME NEW n \in 1 .. Len(q) + 1 PROVE r[n] \in Range(q) \cup {x}
      BY <1>1 DEF Range
    <3> QED
      BY <1>1, <1>4
  <2>2. x \in Range(r)
    <3>1. Len(q) + 1 \in DOMAIN r
      BY <1>1
    <3> QED
      BY <3>1, <1>1 DEF Range
  <2>3. ASSUME NEW n \in 1 .. Len(q) PROVE q[n] \in Range(r)
    <3>1. n \in DOMAIN r
      BY <1>1
    <3> QED
      BY <3>1, <1>1 DEF Range
  <2> QED
    BY <2>1, <2>2, <2>3, <1>1 DEF Range
<1> QED
  BY <1>1, <1>2, <1>3, <1>5, <1>6 DEF r

\* The first in line goes.
LEMMA LineMoves ==
  ASSUME NEW S, NEW q \in Seq(S), IsInjective(q), q # << >>
  PROVE  /\ Tail(q) \in Seq(S) /\ IsInjective(Tail(q))
         /\ Head(q) \in S /\ Head(q) \in Range(q)
         /\ Range(Tail(q)) = Range(q) \ {Head(q)}
<1>1. /\ Tail(q) \in Seq(S) /\ Len(Tail(q)) = Len(q) - 1 /\ Head(q) \in S
      /\ \A n \in 1 .. Len(Tail(q)) : Tail(q)[n] = q[n + 1]
      /\ Len(q) \in Nat \ {0} /\ DOMAIN q = 1 .. Len(q) /\ DOMAIN Tail(q) = 1 .. Len(q) - 1
      /\ Head(q) = q[1]
  BY HeadTailProperties, LenProperties
<1> DEFINE t == Tail(q)
<1>2. \A n \in 1 .. Len(q) - 1 : t[n] = q[n + 1]
  BY <1>1
<1> HIDE DEF t
<1>3. IsInjective(t)
  <2> SUFFICES ASSUME NEW a \in 1 .. Len(q) - 1, NEW b \in 1 .. Len(q) - 1, t[a] = t[b]
               PROVE  a = b
    BY <1>1 DEF IsInjective, t
  <2>1. a + 1 \in DOMAIN q /\ b + 1 \in DOMAIN q /\ q[a + 1] = q[b + 1]
    BY <1>1, <1>2
  <2>2. a + 1 = b + 1
    BY <2>1 DEF IsInjective
  <2> QED
    BY <2>2, <1>1
<1>4. Head(q) \in Range(q)
  BY <1>1 DEF Range
<1>5. ASSUME NEW n \in 1 .. Len(q) - 1 PROVE t[n] \in Range(q) \ {Head(q)}
  <2>1. n + 1 \in DOMAIN q /\ 1 \in DOMAIN q /\ n + 1 # 1 /\ t[n] = q[n + 1]
    BY <1>1, <1>2
  <2>2. q[n + 1] # q[1]
    BY <2>1 DEF IsInjective
  <2> QED
    BY <2>1, <2>2, <1>1 DEF Range
<1>6. ASSUME NEW m \in 1 .. Len(q), q[m] # Head(q) PROVE q[m] \in Range(t)
  <2>1. m # 1
    BY <1>6, <1>1
  <2>2. m - 1 \in DOMAIN t /\ t[m - 1] = q[m]
    <3>1. m - 1 \in 1 .. Len(q) - 1 /\ (m - 1) + 1 = m
      BY <2>1, <1>1
    <3> QED
      BY <3>1, <1>1, <1>2 DEF t
  <2> QED
    BY <2>2 DEF Range
<1>7. DOMAIN t = 1 .. Len(q) - 1
  BY <1>1 DEF t
<1>8. Range(t) = Range(q) \ {Head(q)}
  BY <1>5, <1>6, <1>7, <1>1 DEF Range
<1> QED
  BY <1>1, <1>3, <1>4, <1>8 DEF t

LEMMA HeldFinite ==
  ASSUME NEW s \in [held : SUBSET Req, queue : Seq(Req)]
  PROVE  IsFiniteSet(s.held) /\ Cardinality(s.held) \in Nat
BY FS_Subset, FS_CardinalityType, WorkerAssumption

\* acquire()
LEMMA EnterKeeps ==
  ASSUME NEW s, NEW k \in Kind, NEW r \in Req, SemOK(s, k), r \notin Members(s)
  PROVE  /\ SemOK(Enter(s, k, r), k)
         /\ Members(Enter(s, k, r)) = Members(s) \cup {r}
         /\ s.held \subseteq Enter(s, k, r).held
<1>1. /\ s \in [held : SUBSET Req, queue : Seq(Req)]
      /\ s.held \subseteq Req /\ s.queue \in Seq(Req) /\ IsInjective(s.queue)
      /\ IsFiniteSet(s.held) /\ Cardinality(s.held) \in Nat
      /\ r \notin s.held /\ r \notin Range(s.queue)
      /\ s.held \cap Range(s.queue) = {}
  BY HeldFinite DEF SemOK, Members
<1>2. Slots[k] \in Nat
  BY WorkerAssumption
<1>3. CASE Cardinality(s.held) < Slots[k] /\ s.queue = << >>
  <2>1. Enter(s, k, r) = [held |-> s.held \cup {r}, queue |-> s.queue]
    BY <1>1, <1>3 DEF Enter
  <2>0. Cardinality(s.held \cup {r}) = Cardinality(s.held) + 1
    BY <1>1, FS_AddElement
  <2>2. Cardinality(s.held \cup {r}) <= Slots[k]
    BY <2>0, <1>1, <1>2, <1>3
  <2>3. Range(s.queue) = {}
    BY <1>3 DEF Range
  <2> QED
    BY <2>1, <2>2, <2>3, <1>1, <1>3 DEF SemOK, Members
<1>4. CASE ~(Cardinality(s.held) < Slots[k] /\ s.queue = << >>)
  <2> DEFINE q == Append(s.queue, r)
  <2>1. Enter(s, k, r) = [held |-> s.held, queue |-> q]
    BY <1>1, <1>4 DEF Enter
  <2>2. /\ q \in Seq(Req) /\ q # << >> /\ IsInjective(q)
        /\ Range(q) = Range(s.queue) \cup {r}
    BY <1>1, JoinLine
  <2>3. Cardinality(s.held) = Slots[k]
    BY <1>1, <1>2, <1>4 DEF SemOK
  <2> HIDE DEF q
  <2> QED
    BY <2>1, <2>2, <2>3, <1>1, <1>2 DEF SemOK, Members
<1> QED
  BY <1>3, <1>4

\* release(), and a waiter that is cancelled.
LEMMA LeaveKeeps ==
  ASSUME NEW s, NEW k \in Kind, NEW r, SemOK(s, k)
  PROVE  /\ SemOK(Leave(s, r), k)
         /\ Members(Leave(s, r)) = Members(s) \ {r}
         /\ s.held \ {r} \subseteq Leave(s, r).held
<1>1. /\ s \in [held : SUBSET Req, queue : Seq(Req)]
      /\ s.held \subseteq Req /\ s.queue \in Seq(Req) /\ IsInjective(s.queue)
      /\ IsFiniteSet(s.held) /\ Cardinality(s.held) \in Nat
      /\ s.held \cap Range(s.queue) = {}
      /\ Cardinality(s.held) <= Slots[k]
      /\ s.queue # << >> => Cardinality(s.held) = Slots[k]
  BY HeldFinite DEF SemOK
<1>2. Slots[k] \in Nat
  BY WorkerAssumption
<1>3. CASE r \notin s.held
  <2> DEFINE q == OutOf(s.queue, r)
  <2>1. Leave(s, r) = [held |-> s.held, queue |-> q]
    BY <1>1, <1>3 DEF Leave
  <2>2. /\ q \in Seq(Req) /\ IsInjective(q) /\ Range(q) = Range(s.queue) \ {r}
        /\ q # << >> => s.queue # << >>
    BY <1>1, OutOfLine
  <2> HIDE DEF q
  <2> QED
    BY <2>1, <2>2, <1>1, <1>3 DEF SemOK, Members
<1>4. CASE r \in s.held /\ s.queue = << >>
  <2>1. Leave(s, r) = [held |-> s.held \ {r}, queue |-> s.queue]
    BY <1>1, <1>4 DEF Leave
  <2>0. Cardinality(s.held \ {r}) = Cardinality(s.held) - 1
    BY <1>1, <1>4, FS_RemoveElement
  <2>2. Cardinality(s.held \ {r}) <= Slots[k]
    BY <2>0, <1>1, <1>2
  <2>3. Range(s.queue) = {}
    BY <1>4 DEF Range
  <2> QED
    BY <2>1, <2>2, <2>3, <1>1, <1>4 DEF SemOK, Members
<1>5. CASE r \in s.held /\ s.queue # << >>
  <2> DEFINE h == Head(s.queue)
             H == (s.held \ {r}) \cup {h}
             q == Tail(s.queue)
  <2>1. Leave(s, r) = [held |-> H, queue |-> q]
    BY <1>1, <1>5 DEF Leave
  <2>2. /\ q \in Seq(Req) /\ IsInjective(q) /\ h \in Req /\ h \in Range(s.queue)
        /\ Range(q) = Range(s.queue) \ {h}
    BY <1>1, <1>5, LineMoves
  <2> HIDE DEF h, q
  <2>3. h \notin s.held
    BY <2>2, <1>1
  <2>4. /\ IsFiniteSet(s.held \ {r})
        /\ Cardinality(s.held \ {r}) = Cardinality(s.held) - 1
    BY <1>1, <1>5, FS_RemoveElement
  <2>5. Cardinality(H) = Cardinality(s.held \ {r}) + 1
    BY <2>3, <2>4, FS_AddElement
  <2>6. Cardinality(H) = Slots[k]
    BY <2>4, <2>5, <1>1, <1>2, <1>5
  <2>7. r \notin Range(s.queue) /\ r # h
    BY <2>2, <2>3, <1>1, <1>5
  <2> QED
    BY <2>1, <2>2, <2>3, <2>6, <2>7, <1>1, <1>2 DEF SemOK, Members
<1> QED
  BY <1>3, <1>4, <1>5

-----------------------------------------------------------------------------
(* The workers.                                                            *)

\* What a worker answers, and what a post comes to at its client.
Told == {"ok", "4xx", "5xx", "lost", "unread"}
Phases == {"none", "over"} \cup Active

\* Where a request may be that holds or awaits a slot of kind k.
PhasesOf(k) ==
    CASE k = "inference" -> Active
      [] k = "ocr" -> {"ocr"}
      [] k = "llm" -> {"llm", "crops"}

WorkTypes ==
    /\ sem \in [Pod -> [Kind -> [held : SUBSET Req, queue : Seq(Req)]]]
    /\ phase \in [Req -> Phases]
    /\ at \in [Req -> Pod \cup {None}]
    /\ answer \in [Req -> Told \cup {None}]

SlotInv == \A p \in Pod, k \in Kind : SemOK(sem[p][k], k)

\* Who holds or awaits a slot is there and at that work; who works has its
\* inference slot; who was told something is done.
PlaceInv ==
    /\ \A p \in Pod, k \in Kind : \A r \in Members(sem[p][k]) : at[r] = p /\ phase[r] \in PhasesOf(k)
    /\ \A r \in Req : phase[r] \in Active => at[r] \in Pod
    /\ \A r \in Req : phase[r] \in Active \ {"queued"} => r \in sem[at[r]]["inference"].held
    /\ \A r \in Req : phase[r] = "over" => answer[r] \in Told

WorkInv == WorkTypes /\ SlotInv /\ PlaceInv

LEMMA PhasesOfKind ==
  /\ Kind = {"inference", "ocr", "llm"}
  /\ PhasesOf("inference") = {"queued", "ocr", "llm", "crops"}
  /\ PhasesOf("ocr") = {"ocr"} /\ PhasesOf("llm") = {"llm", "crops"}
  /\ \A k \in Kind : PhasesOf(k) \subseteq Active
  /\ Active = {"queued", "ocr", "llm", "crops"}
BY DEF PhasesOf, Kind, Active

\* A step of one request at one Pod: its slots become T, its phase f.
Moves(r, p, T, f) ==
    /\ sem' = [sem EXCEPT ![p] = T]
    /\ phase' = [phase EXCEPT ![r] = f]
    /\ at' = [at EXCEPT ![r] = p]
    /\ answer' \in [Req -> Told \cup {None}]
    /\ \A x \in Req : x # r => answer'[x] = answer[x]
    /\ f = "over" => answer'[r] \in Told
    /\ T \in [Kind -> [held : SUBSET Req, queue : Seq(Req)]]
    /\ \A k \in Kind : /\ SemOK(T[k], k)
                       /\ Members(T[k]) \ {r} \subseteq Members(sem[p][k])
                       /\ sem[p][k].held \ {r} \subseteq T[k].held
                       /\ r \in Members(T[k]) => f \in PhasesOf(k)
    /\ f \in Active \ {"queued"} => r \in T["inference"].held
    /\ \A q \in Pod, k \in Kind : r \in Members(sem[q][k]) => q = p

\* It leaves the others their places.
LEMMA RequestMoves ==
  ASSUME WorkInv, NEW r \in Req, NEW p \in Pod, NEW T, NEW f \in Phases, Moves(r, p, T, f)
  PROVE  WorkInv'
<1> USE DEF Moves
<1>1. WorkTypes'
  <2>1. DOMAIN sem' = Pod /\ \A q \in Pod : sem'[q] = IF q = p THEN T ELSE sem[q]
    BY DEF WorkInv, WorkTypes
  <2>2. phase' \in [Req -> Phases] /\ at' \in [Req -> Pod \cup {None}]
    BY DEF WorkInv, WorkTypes
  <2> QED
    BY <2>1, <2>2 DEF WorkInv, WorkTypes
<1>2. /\ sem'[p] = T /\ \A q \in Pod : q # p => sem'[q] = sem[q]
      /\ phase'[r] = f /\ at'[r] = p
      /\ \A x \in Req : x # r => phase'[x] = phase[x] /\ at'[x] = at[x]
  BY DEF WorkInv, WorkTypes
<1>3. SlotInv'
  <2> SUFFICES ASSUME NEW q \in Pod, NEW k \in Kind PROVE SemOK(sem'[q][k], k)
    BY DEF SlotInv, SemOK
  <2> QED
    BY <1>2 DEF WorkInv, SlotInv
<1>4. ASSUME NEW q \in Pod, NEW k \in Kind, NEW x \in Members(sem'[q][k])
      PROVE  at'[x] = q /\ phase'[x] \in PhasesOf(k)
  <2>0. x \in Req
    BY <1>1 DEF WorkTypes, Members, Range
  <2>1. CASE q # p
    <3>1. x \in Members(sem[q][k]) /\ x # r
      BY <2>1, <1>2, <1>4
    <3> QED
      BY <3>1, <2>0, <1>2 DEF WorkInv, PlaceInv
  <2>2. CASE q = p /\ x = r
    BY <2>2, <1>2, <1>4
  <2>3. CASE q = p /\ x # r
    <3>1. x \in Members(sem[p][k])
      BY <2>3, <1>2, <1>4
    <3> QED
      BY <3>1, <2>0, <2>3, <1>2 DEF WorkInv, PlaceInv
  <2> QED
    BY <2>1, <2>2, <2>3
<1>5. ASSUME NEW x \in Req, phase'[x] \in Active PROVE at'[x] \in Pod
  BY <1>2, <1>5 DEF WorkInv, PlaceInv
<1>6. ASSUME NEW x \in Req, phase'[x] \in Active \ {"queued"} PROVE x \in sem'[at'[x]]["inference"].held
  <2>1. CASE x = r
    BY <2>1, <1>2, <1>6
  <2>2. CASE x # r
    <3>1. x \in sem[at[x]]["inference"].held /\ at[x] \in Pod /\ at'[x] = at[x]
      BY <2>2, <1>2, <1>6 DEF WorkInv, PlaceInv
    <3>2. "inference" \in Kind
      BY DEF Kind
    <3>3. CASE at[x] = p
      <4>1. x \in sem[p]["inference"].held \ {r}
        BY <3>1, <3>3, <2>2
      <4>2. x \in T["inference"].held
        BY <4>1, <3>2
      <4> QED
        BY <4>2, <3>1, <3>3, <1>2
    <3>4. CASE at[x] # p
      BY <3>1, <3>4, <1>2
    <3> QED
      BY <3>3, <3>4
  <2> QED
    BY <2>1, <2>2
<1>7. ASSUME NEW x \in Req, phase'[x] = "over" PROVE answer'[x] \in Told
  BY <1>2, <1>7 DEF WorkInv, PlaceInv
<1>8. PlaceInv'
  BY <1>4, <1>5, <1>6, <1>7 DEF PlaceInv, Members
<1> QED
  BY <1>1, <1>3, <1>8 DEF WorkInv

\* A request that is at work is at its Pod only.
LEMMA OneRequest ==
  ASSUME WorkInv, NEW r \in Req, phase[r] \in Active
  PROVE  /\ at[r] \in Pod
         /\ at = [at EXCEPT ![r] = at[r]]
         /\ \A q \in Pod, k \in Kind : r \in Members(sem[q][k]) => q = at[r]
         /\ sem[at[r]] \in [Kind -> [held : SUBSET Req, queue : Seq(Req)]]
         /\ \A k \in Kind : SemOK(sem[at[r]][k], k)
         /\ \A k \in Kind : r \in Members(sem[at[r]][k]) => phase[r] \in PhasesOf(k)
BY DEF WorkInv, WorkTypes, SlotInv, PlaceInv

\* However a request ends, it leaves every line it stands in.
LEMMA EndsKeeps ==
  ASSUME WorkInv, NEW r \in Req, phase[r] \in Active, NEW a \in Told, Ends(r, a), at' = at
  PROVE  WorkInv'
<1> DEFINE p == at[r]
           T == AllLeft(p, r)
<1>1. /\ p \in Pod /\ at' = [at EXCEPT ![r] = p]
      /\ \A q \in Pod, k \in Kind : r \in Members(sem[q][k]) => q = p
      /\ \A k \in Kind : SemOK(sem[p][k], k)
  BY OneRequest
<1>2. /\ sem' = [sem EXCEPT ![p] = T] /\ phase' = [phase EXCEPT ![r] = "over"]
      /\ answer' = [answer EXCEPT ![r] = a]
  BY DEF Ends
<1>3. answer' \in [Req -> Told \cup {None}] /\ answer'[r] = a /\ \A x \in Req : x # r => answer'[x] = answer[x]
  BY <1>2 DEF WorkInv, WorkTypes
<1>4. ASSUME NEW k \in Kind
      PROVE  /\ SemOK(T[k], k)
             /\ Members(T[k]) = Members(sem[p][k]) \ {r}
             /\ sem[p][k].held \ {r} \subseteq T[k].held
  BY <1>1, LeaveKeeps DEF AllLeft
<1>5. T \in [Kind -> [held : SUBSET Req, queue : Seq(Req)]]
  <2>1. T = [k \in Kind |-> T[k]]
    BY DEF AllLeft
  <2>2. \A k \in Kind : T[k] \in [held : SUBSET Req, queue : Seq(Req)]
    BY <1>4 DEF SemOK
  <2> HIDE DEF T
  <2> QED
    BY <2>1, <2>2
<1>6. "over" \in Phases /\ "over" \notin Active
  BY DEF Phases, Active
<1>7. /\ \A k \in Kind : /\ SemOK(T[k], k)
                         /\ Members(T[k]) \ {r} \subseteq Members(sem[p][k])
                         /\ sem[p][k].held \ {r} \subseteq T[k].held
                         /\ r \in Members(T[k]) => "over" \in PhasesOf(k)
      /\ "over" = "over" => answer'[r] \in Told
      /\ "over" \in Active \ {"queued"} => r \in T["inference"].held
  BY <1>3, <1>4, <1>6
<1> HIDE DEF p, T
<1>8. Moves(r, p, T, "over")
  BY <1>1, <1>2, <1>3, <1>5, <1>7 DEF Moves
<1> QED
  BY <1>1, <1>6, <1>8, RequestMoves

\* A request goes on to the next slot, or out of one and into the next.
LEMMA GoesOnKeeps ==
  ASSUME WorkInv, NEW r \in Req, phase[r] \in Active, NEW T, NEW f \in Active,
         sem' = [sem EXCEPT ![at[r]] = T], phase' = [phase EXCEPT ![r] = f],
         at' = at, answer' = answer,
         \A k \in Kind : \/ T[k] = sem[at[r]][k] /\ (r \in Members(T[k]) => f \in PhasesOf(k))
                         \/ T[k] = Leave(sem[at[r]][k], r)
                         \/ T[k] = Enter(sem[at[r]][k], k, r) /\ f \in PhasesOf(k) /\ phase[r] \notin PhasesOf(k),
         DOMAIN T = Kind, T = [k \in Kind |-> T[k]],
         f # "queued" => T["inference"] = sem[at[r]]["inference"] /\ r \in sem[at[r]]["inference"].held
  PROVE  WorkInv'
<1> DEFINE p == at[r]
<1>1. /\ p \in Pod /\ at' = [at EXCEPT ![r] = p]
      /\ \A q \in Pod, k \in Kind : r \in Members(sem[q][k]) => q = p
      /\ \A k \in Kind : SemOK(sem[p][k], k)
      /\ \A k \in Kind : r \in Members(sem[p][k]) => phase[r] \in PhasesOf(k)
  BY OneRequest
<1>2. answer' \in [Req -> Told \cup {None}] /\ \A x \in Req : x # r => answer'[x] = answer[x]
  BY DEF WorkInv, WorkTypes
<1>4. ASSUME NEW k \in Kind
      PROVE  /\ SemOK(T[k], k)
             /\ Members(T[k]) \ {r} \subseteq Members(sem[p][k])
             /\ sem[p][k].held \ {r} \subseteq T[k].held
             /\ r \in Members(T[k]) => f \in PhasesOf(k)
  <2>1. CASE T[k] = sem[p][k] /\ (r \in Members(T[k]) => f \in PhasesOf(k))
    BY <2>1, <1>1
  <2>2. CASE T[k] = Leave(sem[p][k], r)
    BY <2>2, <1>1, LeaveKeeps
  <2>3. CASE T[k] = Enter(sem[p][k], k, r) /\ f \in PhasesOf(k) /\ phase[r] \notin PhasesOf(k)
    <3>1. r \notin Members(sem[p][k]) /\ SemOK(sem[p][k], k)
      BY <2>3, <1>1
    <3> QED
      BY <3>1, <2>3, EnterKeeps
  <2> QED
    BY <2>1, <2>2, <2>3
<1>5. T \in [Kind -> [held : SUBSET Req, queue : Seq(Req)]]
  <2>2. \A k \in Kind : T[k] \in [held : SUBSET Req, queue : Seq(Req)]
    BY <1>4 DEF SemOK
  <2> QED
    BY <2>2
<1>6. f \in Phases /\ f # "over"
  BY DEF Phases, Active
<1>7. f = "over" => answer'[r] \in Told
  BY <1>6
<1>8. f \in Active \ {"queued"} => r \in T["inference"].held
  OBVIOUS
<1>9. sem' = [sem EXCEPT ![p] = T]
  OBVIOUS
<1> HIDE DEF p
<1>10. Moves(r, p, T, f)
  BY <1>1, <1>2, <1>4, <1>5, <1>7, <1>8, <1>9 DEF Moves
<1> QED
  BY <1>1, <1>6, <1>10, RequestMoves

\* What a worker does by itself takes up no request and gives none back.
Falls ==
    /\ at' = at
    /\ \A x \in Req : phase[x] = "none" <=> phase'[x] = "none"
    /\ \A x \in Req : phase'[x] \in Active => phase[x] \in Active

LEMMA PhaseFalls ==
  ASSUME WorkInv, NEW r \in Req, phase[r] \in Active, NEW f \in Phases \ {"none"},
         phase' = [phase EXCEPT ![r] = f], at' = at
  PROVE  Falls
BY DEF Falls, WorkInv, WorkTypes, Phases, Active

LEMMA NothingMoves ==
  ASSUME WorkInv, UNCHANGED <<sem, phase, at, answer>>
  PROVE  WorkInv' /\ Falls
<1>1. WorkTypes' /\ SlotInv'
  BY DEF WorkInv, WorkTypes, SlotInv, SemOK
<1>2. PlaceInv'
  BY DEF WorkInv, PlaceInv, Members
<1> QED
  BY <1>1, <1>2 DEF WorkInv, Falls

\* infer() and reason_recipe() begin.
LEMMA ArriveKeeps ==
  ASSUME WorkInv, NEW r \in Req, NEW p \in Pod, Arrive(p, r)
  PROVE  WorkInv'
<1> DEFINE T == [sem[p] EXCEPT !["inference"] = Enter(@, "inference", r)]
<1>1. phase[r] = "none" /\ \A q \in Pod, k \in Kind : r \notin Members(sem[q][k])
  BY PhasesOfKind DEF Arrive, WorkInv, PlaceInv
<1>2. /\ sem[p] \in [Kind -> [held : SUBSET Req, queue : Seq(Req)]]
      /\ \A k \in Kind : SemOK(sem[p][k], k)
      /\ "inference" \in Kind
  BY DEF WorkInv, WorkTypes, SlotInv, Kind
<1>3. /\ SemOK(T["inference"], "inference")
      /\ Members(T["inference"]) = Members(sem[p]["inference"]) \cup {r}
      /\ sem[p]["inference"].held \subseteq T["inference"].held
  BY <1>1, <1>2, EnterKeeps
<1>4. /\ \A k \in Kind \ {"inference"} : T[k] = sem[p][k]
      /\ T \in [Kind -> [held : SUBSET Req, queue : Seq(Req)]]
  BY <1>2, <1>3 DEF SemOK
<1>5. sem' = [sem EXCEPT ![p] = T]
  BY DEF Arrive
<1>6. "queued" \in Phases /\ "queued" \in PhasesOf("inference")
  BY PhasesOfKind DEF Phases, Active
<1>7. answer' \in [Req -> Told \cup {None}] /\ answer' = answer
  BY DEF Arrive, WorkInv, WorkTypes
<1> HIDE DEF T
<1>8. ASSUME NEW k \in Kind
      PROVE  /\ SemOK(T[k], k)
             /\ Members(T[k]) \ {r} \subseteq Members(sem[p][k])
             /\ sem[p][k].held \ {r} \subseteq T[k].held
             /\ r \in Members(T[k]) => "queued" \in PhasesOf(k)
  <2>1. CASE k = "inference"
    BY <2>1, <1>3, <1>6
  <2>2. CASE k # "inference"
    BY <2>2, <1>1, <1>2, <1>4
  <2> QED
    BY <2>1, <2>2
<1>9. Moves(r, p, T, "queued")
  BY <1>1, <1>4, <1>5, <1>7, <1>8 DEF Moves, Arrive
<1> QED
  BY <1>6, <1>9, RequestMoves

LEMMA LoadKeeps ==
  ASSUME WorkInv, NEW r \in Req, Load(r)
  PROVE  WorkInv' /\ Falls
<1> DEFINE T == [sem[at[r]] EXCEPT !["ocr"] = Enter(@, "ocr", r)]
<1>1. phase[r] = "queued" /\ phase[r] \in Active /\ "ocr" \in Active /\ "ocr" \in Phases \ {"none"}
  BY DEF Load, Active, Phases
<1>2. at[r] \in Pod /\ sem[at[r]] \in [Kind -> [held : SUBSET Req, queue : Seq(Req)]]
      /\ \A k \in Kind : r \in Members(sem[at[r]][k]) => phase[r] \in PhasesOf(k)
  BY <1>1, OneRequest
<1>3. DOMAIN T = Kind /\ T = [k \in Kind |-> T[k]]
  BY <1>2
<1>4. /\ sem' = [sem EXCEPT ![at[r]] = T] /\ phase' = [phase EXCEPT ![r] = "ocr"]
      /\ at' = at /\ answer' = answer /\ r \in sem[at[r]]["inference"].held
  BY DEF Load, Holds
<1>5. /\ T["ocr"] = Enter(sem[at[r]]["ocr"], "ocr", r)
      /\ T["inference"] = sem[at[r]]["inference"] /\ T["llm"] = sem[at[r]]["llm"]
  BY <1>2 DEF Kind
<1>6. \A k \in Kind : \/ T[k] = sem[at[r]][k] /\ (r \in Members(T[k]) => "ocr" \in PhasesOf(k))
                      \/ T[k] = Enter(sem[at[r]][k], k, r) /\ "ocr" \in PhasesOf(k) /\ phase[r] \notin PhasesOf(k)
  BY <1>1, <1>2, <1>5, PhasesOfKind
<1> HIDE DEF T
<1>7. WorkInv'
  BY <1>1, <1>3, <1>4, <1>5, <1>6, GoesOnKeeps
<1> QED
  BY <1>1, <1>4, <1>7, PhaseFalls

LEMMA AskModelKeeps ==
  ASSUME WorkInv, NEW r \in Req, AskModel(r)
  PROVE  WorkInv' /\ Falls
<1> DEFINE T == [sem[at[r]] EXCEPT !["llm"] = Enter(@, "llm", r)]
<1>1. phase[r] = "queued" /\ phase[r] \in Active /\ "llm" \in Active /\ "llm" \in Phases \ {"none"}
  BY DEF AskModel, Active, Phases
<1>2. at[r] \in Pod /\ sem[at[r]] \in [Kind -> [held : SUBSET Req, queue : Seq(Req)]]
      /\ \A k \in Kind : r \in Members(sem[at[r]][k]) => phase[r] \in PhasesOf(k)
  BY <1>1, OneRequest
<1>3. DOMAIN T = Kind /\ T = [k \in Kind |-> T[k]]
  BY <1>2
<1>4. /\ sem' = [sem EXCEPT ![at[r]] = T] /\ phase' = [phase EXCEPT ![r] = "llm"]
      /\ at' = at /\ answer' = answer /\ r \in sem[at[r]]["inference"].held
  BY DEF AskModel, Holds
<1>5. /\ T["llm"] = Enter(sem[at[r]]["llm"], "llm", r)
      /\ T["inference"] = sem[at[r]]["inference"] /\ T["ocr"] = sem[at[r]]["ocr"]
  BY <1>2 DEF Kind
<1>6. \A k \in Kind : \/ T[k] = sem[at[r]][k] /\ (r \in Members(T[k]) => "llm" \in PhasesOf(k))
                      \/ T[k] = Enter(sem[at[r]][k], k, r) /\ "llm" \in PhasesOf(k) /\ phase[r] \notin PhasesOf(k)
  BY <1>1, <1>2, <1>5, PhasesOfKind
<1> HIDE DEF T
<1>7. WorkInv'
  BY <1>1, <1>3, <1>4, <1>5, <1>6, GoesOnKeeps
<1> QED
  BY <1>1, <1>4, <1>7, PhaseFalls

\* What was read goes to the model.
LEMMA OnToModelKeeps ==
  ASSUME WorkInv, NEW r \in Req, phase[r] = "ocr",
         sem' = [sem EXCEPT ![at[r]] = OnToModel(at[r], r)],
         phase' = [phase EXCEPT ![r] = "llm"], at' = at, answer' = answer
  PROVE  WorkInv' /\ Falls
<1> DEFINE T == OnToModel(at[r], r)
<1>1. phase[r] \in Active /\ "llm" \in Active /\ "llm" \in Phases \ {"none"}
  BY DEF Active, Phases
<1>2. at[r] \in Pod /\ sem[at[r]] \in [Kind -> [held : SUBSET Req, queue : Seq(Req)]]
      /\ \A k \in Kind : r \in Members(sem[at[r]][k]) => phase[r] \in PhasesOf(k)
  BY <1>1, OneRequest
<1>3. DOMAIN T = Kind /\ T = [k \in Kind |-> T[k]]
  BY <1>2 DEF OnToModel
<1>4. r \in sem[at[r]]["inference"].held
  BY <1>1 DEF WorkInv, PlaceInv
<1>5. /\ T["ocr"] = Leave(sem[at[r]]["ocr"], r)
      /\ T["llm"] = Enter(sem[at[r]]["llm"], "llm", r)
      /\ T["inference"] = sem[at[r]]["inference"]
  BY <1>2 DEF Kind, OnToModel
<1>6. \A k \in Kind : \/ T[k] = sem[at[r]][k] /\ (r \in Members(T[k]) => "llm" \in PhasesOf(k))
                      \/ T[k] = Leave(sem[at[r]][k], r)
                      \/ T[k] = Enter(sem[at[r]][k], k, r) /\ "llm" \in PhasesOf(k) /\ phase[r] \notin PhasesOf(k)
  BY <1>2, <1>5, PhasesOfKind
<1> HIDE DEF T
<1>7. WorkInv'
  BY <1>1, <1>3, <1>4, <1>5, <1>6, GoesOnKeeps DEF T
<1> QED
  BY <1>1, <1>7, PhaseFalls

LEMMA DetectKeeps ==
  ASSUME WorkInv, NEW r \in Req, Detect(r)
  PROVE  WorkInv' /\ Falls
<1> DEFINE T == sem[at[r]]
<1>1. phase[r] = "llm" /\ phase[r] \in Active /\ "crops" \in Active /\ "crops" \in Phases \ {"none"}
  BY DEF Detect, Active, Phases
<1>2. at[r] \in Pod /\ T \in [Kind -> [held : SUBSET Req, queue : Seq(Req)]]
      /\ \A k \in Kind : r \in Members(T[k]) => phase[r] \in PhasesOf(k)
  BY <1>1, OneRequest
<1>3. /\ sem' = [sem EXCEPT ![at[r]] = T] /\ phase' = [phase EXCEPT ![r] = "crops"]
      /\ at' = at /\ answer' = answer
  BY DEF Detect, WorkInv, WorkTypes
<1>4. r \in T["inference"].held
  BY <1>1 DEF WorkInv, PlaceInv
<1>5. \A k \in Kind : r \in Members(T[k]) => "crops" \in PhasesOf(k)
  BY <1>1, <1>2, PhasesOfKind
<1>6. DOMAIN T = Kind /\ T = [k \in Kind |-> T[k]]
  BY <1>2
<1>7. WorkInv'
  BY <1>1, <1>3, <1>4, <1>5, <1>6, GoesOnKeeps
<1> QED
  BY <1>1, <1>3, <1>7, PhaseFalls

LEMMA EndingFalls ==
  ASSUME WorkInv, NEW r \in Req, phase[r] \in Active, NEW a \in Told, Ends(r, a), at' = at
  PROVE  WorkInv' /\ Falls
<1>1. "over" \in Phases \ {"none"} /\ phase' = [phase EXCEPT ![r] = "over"]
  BY DEF Phases, Ends
<1> QED
  BY <1>1, EndsKeeps, PhaseFalls

\* Every step of a worker, and asyncio.timeout() of a recipe call.
LEMMA WorkerStepKeeps ==
  ASSUME WorkInv, NEW r \in Req, WorkerStep(r) \/ WorkerFault(r) \/ Timeout(r)
  PROVE  WorkInv' /\ Falls
<1> USE DEF Active
<1>0. "ok" \in Told /\ "4xx" \in Told /\ "5xx" \in Told
  BY DEF Told
<1>1. CASE Load(r)
  BY <1>1, LoadKeeps
<1>2. CASE LoadFails(r)
  <2>1. phase[r] \in Active /\ at' = at /\ \E a \in Told : Ends(r, a)
    BY <1>2, <1>0 DEF LoadFails
  <2> QED
    BY <2>1, EndingFalls
<1>3. CASE Rent(r)
  <2>1. UNCHANGED <<sem, phase, at, answer>>
    BY <1>3 DEF Rent
  <2> QED
    BY <2>1, NothingMoves
<1>4. CASE Read(r)
  <2>1. phase[r] = "ocr" /\ phase[r] \in Active /\ at' = at
    BY <1>4 DEF Read
  <2>2. CASE Ends(r, "ok")
    BY <2>1, <2>2, <1>0, EndingFalls
  <2>3. CASE ~Ends(r, "ok")
    BY <2>1, <2>3, <1>4, OnToModelKeeps DEF Read
  <2> QED
    BY <2>2, <2>3
<1>5. CASE ReadFails(r)
  BY <1>5, <1>0, EndingFalls DEF ReadFails
<1>6. CASE AskModel(r)
  BY <1>6, AskModelKeeps
<1>7. CASE Judge(r)
  BY <1>7, <1>0, EndingFalls DEF Judge
<1>8. CASE JudgeFails(r)
  BY <1>8, <1>0, EndingFalls DEF JudgeFails
<1>9. CASE Detect(r)
  BY <1>9, DetectKeeps
<1>10. CASE CropEnds(r)
  <2>1. CASE phase[r] = "crops" /\ Fewer(crops[r]) = NoCrops
    BY <2>1, <1>10, <1>0, EndingFalls DEF CropEnds
  <2>2. CASE ~(phase[r] = "crops" /\ Fewer(crops[r]) = NoCrops)
    <3>1. UNCHANGED <<sem, phase, at, answer>>
      BY <2>2, <1>10 DEF CropEnds
    <3> QED
      BY <3>1, NothingMoves
  <2> QED
    BY <2>1, <2>2
<1>11. CASE CropFails(r)
  BY <1>11, <1>0, EndingFalls DEF CropFails
<1>12. CASE Timeout(r)
  BY <1>12, <1>0, EndingFalls DEF Timeout
<1> QED
  BY <1>1, <1>2, <1>3, <1>4, <1>5, <1>6, <1>7, <1>8, <1>9, <1>10, <1>11, <1>12
  DEF WorkerStep, WorkerFault

\* The process of a Pod is gone: nobody holds or awaits a slot of it.
LEMMA LostKeeps ==
  ASSUME WorkInv, NEW p \in Pod, Lost(p)
  PROVE  /\ WorkInv' /\ Falls
         /\ \A r \in Req : phase'[r] \in Active => at[r] # p
<1>1. /\ sem' = [sem EXCEPT ![p] = Idle] /\ at' = at
      /\ \A r \in Req : phase'[r] = IF at[r] = p /\ phase[r] \in Active THEN "over" ELSE phase[r]
      /\ \A r \in Req : answer'[r] = IF at[r] = p /\ phase[r] \in Active THEN "lost" ELSE answer[r]
      /\ DOMAIN phase' = Req /\ DOMAIN answer' = Req
      /\ phase' = [r \in Req |-> phase'[r]] /\ answer' = [r \in Req |-> answer'[r]]
  BY DEF Lost
<1>2. /\ DOMAIN sem' = Pod /\ sem'[p] = Idle
      /\ \A q \in Pod \ {p} : sem'[q] = sem[q]
  BY <1>1 DEF WorkInv, WorkTypes
<1>3. "over" \in Phases /\ "lost" \in Told /\ "over" \notin Active
  BY DEF Phases, Told, Active
<1>4. ASSUME NEW k \in Kind PROVE SemOK(Idle[k], k) /\ Members(Idle[k]) = {}
  <2>1. Idle[k] = [held |-> {}, queue |-> << >>]
    BY DEF Idle, Empty
  <2>2. Cardinality({}) = 0 /\ Slots[k] \in Nat
    BY FS_EmptySet, WorkerAssumption
  <2>3. Range(<< >>) = {} /\ IsInjective(<< >>) /\ << >> \in Seq(Req)
    BY DEF Range, IsInjective
  <2> QED
    BY <2>1, <2>2, <2>3 DEF SemOK, Members
<1>5. Idle \in [Kind -> [held : SUBSET Req, queue : Seq(Req)]]
  BY DEF Idle, Empty
<1>6. phase' \in [Req -> Phases] /\ answer' \in [Req -> Told \cup {None}]
  <2>1. \A r \in Req : phase'[r] \in Phases /\ answer'[r] \in Told \cup {None}
    BY <1>1, <1>3 DEF WorkInv, WorkTypes
  <2> QED
    BY <1>1, <2>1
<1>7. WorkTypes'
  BY <1>1, <1>2, <1>5, <1>6 DEF WorkTypes, WorkInv
<1>8. SlotInv'
  BY <1>2, <1>4 DEF SlotInv, WorkInv, SemOK
<1>9. ASSUME NEW q \in Pod, NEW k \in Kind, NEW x \in Members(sem'[q][k])
      PROVE  at'[x] = q /\ phase'[x] \in PhasesOf(k)
  <2>0. x \in Req
    BY <1>7 DEF WorkTypes, Members, Range
  <2>1. q # p
    BY <1>2, <1>4, <1>9
  <2>2. x \in Members(sem[q][k])
    BY <2>1, <1>2, <1>9
  <2>3. at[x] = q /\ phase[x] \in PhasesOf(k)
    BY <2>2 DEF WorkInv, PlaceInv
  <2> QED
    BY <2>0, <2>1, <2>3, <1>1
<1>10. ASSUME NEW r \in Req, phase'[r] \in Active
       PROVE  at'[r] = at[r] /\ at[r] \in Pod /\ at[r] # p /\ phase'[r] = phase[r]
  BY <1>1, <1>3, <1>10 DEF WorkInv, PlaceInv
<1>11. ASSUME NEW r \in Req, phase'[r] \in Active \ {"queued"} PROVE r \in sem'[at'[r]]["inference"].held
  BY <1>2, <1>10, <1>11 DEF WorkInv, PlaceInv
<1>12. ASSUME NEW r \in Req, phase'[r] = "over" PROVE answer'[r] \in Told
  BY <1>1, <1>3, <1>12 DEF WorkInv, PlaceInv
<1>13. PlaceInv'
  BY <1>9, <1>10, <1>11, <1>12 DEF PlaceInv, Members
<1>14. Falls
  <2>1. "none" \notin Active /\ "none" # "over"
    BY DEF Active
  <2> QED
    BY <2>1, <1>1, <1>3, <1>10 DEF Falls
<1> QED
  BY <1>7, <1>8, <1>10, <1>13, <1>14 DEF WorkInv

-----------------------------------------------------------------------------
(* The Pods and the script.                                                *)

Steps == {"idle", "starting", "ready", "migrating", "renaming", "target"}

PodTypes ==
    /\ pod \in [Pod -> [status : Status, version : Nat, ready : BOOLEAN]]
    /\ script \in [step : Steps, of : Pod \cup {None}, target : Pod \cup {None}, tries : Nat]

\* Who is ready runs, and who works is served by a Pod that is ready.
ReadyInv == \A p \in Pod : pod[p].ready => pod[p].status = "RUNNING"
ServeInv == \A r \in Req : phase[r] \in Active => at[r] \in Pod /\ pod[at[r]].ready

\* What the script has seen of its Pods still holds at its next step.
ScriptInv ==
    /\ script.step # "idle" => script.of \in Pod /\ pod[script.of].status # "none"
    /\ script.step = "ready" => pod[script.of].status = "RUNNING"
    /\ script.step \in {"renaming", "target"} =>
        /\ script.target \in Pod \ {script.of}
        /\ pod[script.target].status = "RUNNING"
    /\ script.step = "target" => pod[script.target].version > pod[script.of].version

PodInv == PodTypes /\ ReadyInv /\ ServeInv /\ ScriptInv

\* The Pod a step takes away serves nothing, unless it is the running source of
\* a migration, and is outlived by a newer one that is ready.
Safely ==
    \A p \in Pod : pod[p].status # "gone" /\ pod'[p].status = "gone" =>
        /\ RunsStill(p) \/ \A r \in Req : at[r] = p => phase[r] \notin Active
        /\ \E q \in Pod : pod[q].ready /\ pod[q].version > pod[p].version

\* Nothing changes at the Pods, and the workers take up no request.
LEMMA PodsStand ==
  ASSUME PodInv, UNCHANGED podVars,
         \A r \in Req : phase'[r] \in Active =>
            at'[r] \in Pod /\ ((phase[r] \in Active /\ at'[r] = at[r]) \/ pod[at'[r]].ready)
  PROVE  PodInv' /\ Safely
<1>1. pod' = pod /\ script' = script
  BY DEF podVars
<1>2. PodTypes' /\ ReadyInv' /\ ScriptInv'
  BY <1>1 DEF PodInv, PodTypes, ReadyInv, ScriptInv
<1>3. ServeInv'
  BY <1>1 DEF PodInv, ServeInv
<1> QED
  BY <1>1, <1>2, <1>3 DEF PodInv, Safely

\* After a migration that failed the script begins another one, or ends.
LEMMA NextTryKeeps ==
  ASSUME PodInv, script.step \in {"migrating", "renaming", "target"}, NextTry,
         pod' \in [Pod -> [status : Status, version : Nat, ready : BOOLEAN]],
         pod'[script.of].status # "none"
  PROVE  PodTypes' /\ ScriptInv'
<1> DEFINE n == script.tries + 1
<1>1. /\ script \in [step : Steps, of : Pod \cup {None}, target : Pod \cup {None}, tries : Nat]
      /\ n \in Nat /\ script.of \in Pod
  BY DEF PodInv, PodTypes, ScriptInv
<1>2. \/ script' = [script EXCEPT !.step = "migrating", !.tries = n]
      \/ script' = IdleScript
  BY DEF NextTry
<1> HIDE DEF n
<1>3. CASE script' = [script EXCEPT !.step = "migrating", !.tries = n]
  <2>1. /\ script'.step = "migrating" /\ script'.of = script.of
        /\ script' \in [step : Steps, of : Pod \cup {None}, target : Pod \cup {None}, tries : Nat]
    BY <1>1, <1>3 DEF Steps
  <2> QED
    BY <2>1, <1>1 DEF PodTypes, ScriptInv
<1>4. CASE script' = IdleScript
  BY <1>4 DEF IdleScript, Steps, PodTypes, ScriptInv
<1> QED
  BY <1>2, <1>3, <1>4

\* The script begins, or turns to something else, and touches no Pod.
LEMMA ScriptTurns ==
  ASSUME PodInv,
         \/ \E p \in Pod : StartRunning(p) \/ StartStopped(p)
         \/ StartRefused \/ MigrationFails \/ ScriptDies
  PROVE  PodInv' /\ Safely
<1>1. pod' = pod /\ UNCHANGED workerVars
  BY DEF StartRunning, StartStopped, StartRefused, MigrationFails, ScriptDies
<1>2. ReadyInv' /\ ServeInv' /\ Safely
  BY <1>1 DEF PodInv, ReadyInv, ServeInv, Safely, workerVars
<1>3. PodTypes' /\ ScriptInv'
  <2> USE DEF PodInv, PodTypes, ScriptInv, Steps, IdleScript
  <2>1. ASSUME NEW p \in Pod, StartRunning(p) PROVE PodTypes' /\ ScriptInv'
    BY <2>1, <1>1 DEF StartRunning
  <2>2. ASSUME NEW p \in Pod, StartStopped(p) PROVE PodTypes' /\ ScriptInv'
    BY <2>2, <1>1 DEF StartStopped
  <2>3. CASE StartRefused
    BY <2>3, <1>1 DEF StartRefused, Migrating
  <2>4. CASE MigrationFails
    <3>1. script.step \in {"migrating", "renaming", "target"} /\ NextTry /\ pod' = pod
      BY <2>4, <1>1 DEF MigrationFails
    <3> QED
      BY <3>1, NextTryKeeps
  <2>5. CASE ScriptDies
    BY <2>5, <1>1 DEF ScriptDies
  <2> QED
    BY <2>1, <2>2, <2>3, <2>4, <2>5
<1> QED
  BY <1>2, <1>3 DEF PodInv

\* A Pod is started, migrated to, named or warm: none is less ready than before.
LEMMA PodsRise ==
  ASSUME PodInv, Started \/ StartUnheard \/ Rename \/ (\E t \in Pod : Migrated(t) \/ Warm(t))
  PROVE  PodInv' /\ Safely
<1> USE DEF PodInv, PodTypes, Status, Steps
<1>1. PodTypes' /\ ScriptInv'
  <2> USE DEF ScriptInv
  <2>1. CASE Started
    BY <2>1 DEF Started
  <2>2. CASE Rename
    BY <2>2 DEF Rename
  <2>3. ASSUME NEW t \in Pod, Migrated(t) PROVE PodTypes' /\ ScriptInv'
    BY <2>3 DEF Migrated
  <2>4. ASSUME NEW t \in Pod, Warm(t) PROVE PodTypes' /\ ScriptInv'
    BY <2>4 DEF Warm
  <2>5. CASE StartUnheard
    BY <2>5 DEF StartUnheard, Migrating
  <2> QED
    BY <2>1, <2>2, <2>3, <2>4, <2>5
<1>2. ReadyInv' /\ (\A p \in Pod : pod[p].ready => pod'[p].ready) /\ Safely
  <2> USE DEF ReadyInv, ScriptInv, Safely
  <2>1. CASE Started
    BY <2>1 DEF Started
  <2>2. CASE Rename
    BY <2>2 DEF Rename
  <2>3. ASSUME NEW t \in Pod, Migrated(t) PROVE ReadyInv' /\ (\A p \in Pod : pod[p].ready => pod'[p].ready) /\ Safely
    BY <2>3 DEF Migrated
  <2>4. ASSUME NEW t \in Pod, Warm(t) PROVE ReadyInv' /\ (\A p \in Pod : pod[p].ready => pod'[p].ready) /\ Safely
    BY <2>4 DEF Warm
  <2>5. CASE StartUnheard
    BY <2>5 DEF StartUnheard
  <2> QED
    BY <2>1, <2>2, <2>3, <2>4, <2>5
<1>3. UNCHANGED workerVars
  BY DEF Started, StartUnheard, Rename, Migrated, Warm
<1>4. ServeInv'
  BY <1>2, <1>3 DEF ServeInv, workerVars
<1> QED
  BY <1>1, <1>2, <1>4

\* The container of a Pod is gone: by Stop, by a new image or by itself.
LEMMA PodFalls ==
  ASSUME WorkInv, PodInv, NEW p \in Pod, Stop(p) \/ Deploy(p) \/ Reset(p)
  PROVE  PodInv' /\ Safely
<1>1. Lost(p) /\ script' = script
  BY DEF Stop, Deploy, Reset
<1>2. PodTypes' /\ ReadyInv' /\ ScriptInv' /\ Safely /\ (\A q \in Pod \ {p} : pod'[q] = pod[q])
  <2> USE DEF PodInv, PodTypes, Status, ReadyInv, ScriptInv, Safely
  <2>1. CASE Stop(p)
    BY <2>1 DEF Stop
  <2>2. CASE Deploy(p)
    BY <2>2 DEF Deploy
  <2>3. CASE Reset(p)
    BY <2>3 DEF Reset
  <2> QED
    BY <2>1, <2>2, <2>3
<1>3. ASSUME NEW r \in Req, phase'[r] \in Active PROVE at'[r] \in Pod /\ pod'[at'[r]].ready
  <2>1. phase[r] \in Active /\ at'[r] = at[r] /\ at[r] # p
    BY <1>1, <1>3, LostKeeps DEF Falls
  <2> QED
    BY <2>1, <1>2 DEF PodInv, ServeInv
<1> QED
  BY <1>2, <1>3 DEF PodInv, ServeInv

\* What is left of the Pods when those of S are removed.
LEMMA Removal ==
  ASSUME PodInv, NEW S \in SUBSET Pod, pod' = Without(S)
  PROVE  /\ \A p \in Pod \ S : pod'[p] = pod[p]
         /\ \A p \in S : pod'[p].status = "gone"
         /\ pod' \in [Pod -> [status : Status, version : Nat, ready : BOOLEAN]]
         /\ ReadyInv'
<1>1. /\ \A p \in S : pod'[p] = [pod[p] EXCEPT !.status = "gone", !.ready = FALSE]
      /\ \A p \in Pod \ S : pod'[p] = pod[p]
      /\ pod' \in [Pod -> [status : Status, version : Nat, ready : BOOLEAN]]
  BY DEF Without, PodInv, PodTypes, Status
<1>2. ASSUME NEW p \in Pod, pod'[p].ready PROVE pod'[p].status = "RUNNING"
  <2>1. CASE p \in S
    <3>1. pod'[p].ready = FALSE
      BY <2>1, <1>1 DEF PodInv, PodTypes
    <3> QED
      BY <3>1, <1>2
  <2>2. CASE p \notin S
    BY <2>2, <1>1, <1>2 DEF PodInv, ReadyInv
  <2> QED
    BY <2>1, <2>2
<1>3. \A p \in S : pod'[p].status = "gone"
  BY <1>1 DEF PodInv, PodTypes
<1> QED
  BY <1>1, <1>2, <1>3 DEF ReadyInv

\* Older Pods are removed: nobody works at one that is stopped.
LEMMA PodsGo ==
  ASSUME PodInv, ReadySeen
  PROVE  PodInv' /\ Safely
<1>1. script.of \in Pod /\ pod[script.of].ready /\ script' = IdleScript /\ UNCHANGED workerVars
  BY DEF ReadySeen, PodInv, ScriptInv
<1>2. PICK S \in SUBSET Obsolete(script.of) : pod' = Without(S)
  BY DEF ReadySeen
<1>3. S \in SUBSET Pod
  BY <1>2 DEF Obsolete, Managed
<1>4. ASSUME NEW p \in S PROVE pod[p].status = "EXITED" /\ pod[script.of].version > pod[p].version
  <2>1. p \in Pod /\ pod[p].status = "EXITED" /\ pod[p].version < pod[script.of].version
    BY <1>2 DEF Obsolete, Managed
  <2>2. pod[p].version \in Nat /\ pod[script.of].version \in Nat
    BY <2>1, <1>1 DEF PodInv, PodTypes
  <2> QED
    BY <2>1, <2>2
<1>5. /\ \A p \in Pod \ S : pod'[p] = pod[p]
      /\ pod' \in [Pod -> [status : Status, version : Nat, ready : BOOLEAN]]
      /\ ReadyInv'
  BY <1>2, <1>3, Removal
<1>6. PodTypes' /\ ScriptInv'
  BY <1>1, <1>5 DEF PodTypes, ScriptInv, Steps, IdleScript
<1>7. \A r \in Req : phase[r] \in Active => at[r] \in Pod \ S
  BY <1>4 DEF PodInv, ServeInv, ReadyInv
<1>8. ServeInv'
  BY <1>1, <1>5, <1>7 DEF PodInv, ServeInv, workerVars
<1>9. Safely
  BY <1>1, <1>4, <1>5, <1>7 DEF Safely
<1> QED
  BY <1>5, <1>6, <1>8, <1>9 DEF PodInv

\* The source of a migration is removed, and what it served, if it ran, with it.
LEMMA SourceGoes ==
  ASSUME WorkInv, PodInv, TargetReady \/ TerminateUnheard
  PROVE  PodInv' /\ Safely
<1>1. /\ script.step = "target" /\ pod[script.target].ready
      /\ pod' = Without({script.of}) /\ Lost(script.of)
      /\ script.of \in Pod /\ script.target \in Pod
      /\ pod[script.target].version > pod[script.of].version
  BY DEF TargetReady, TerminateUnheard, Terminated, PodInv, ScriptInv
<1>2. /\ \A p \in Pod \ {script.of} : pod'[p] = pod[p]
      /\ pod'[script.of].status # "none"
      /\ pod' \in [Pod -> [status : Status, version : Nat, ready : BOOLEAN]]
      /\ ReadyInv'
  <2>1. {script.of} \in SUBSET Pod
    BY <1>1
  <2> QED
    BY <2>1, <1>1, Removal
<1>3. PodTypes' /\ ScriptInv'
  <2>1. CASE TargetReady
    BY <2>1, <1>2 DEF TargetReady, PodTypes, ScriptInv, Steps, IdleScript
  <2>2. CASE TerminateUnheard
    BY <2>2, <1>1, <1>2, NextTryKeeps DEF TerminateUnheard
  <2> QED
    BY <2>1, <2>2
<1>4. ASSUME NEW r \in Req, phase'[r] \in Active PROVE at'[r] \in Pod /\ pod'[at'[r]].ready
  <2>1. phase[r] \in Active /\ at'[r] = at[r] /\ at[r] # script.of
    BY <1>1, <1>4, LostKeeps DEF Falls
  <2> QED
    BY <2>1, <1>2 DEF PodInv, ServeInv
<1>5. ASSUME NEW r \in Req, phase[r] \in Active, at[r] = script.of PROVE RunsStill(script.of)
  BY <1>1, <1>5 DEF PodInv, ServeInv, ReadyInv, RunsStill
<1>6. Safely
  BY <1>1, <1>2, <1>5 DEF Safely
<1> QED
  BY <1>2, <1>3, <1>4, <1>6 DEF PodInv, ServeInv

-----------------------------------------------------------------------------
(* The calls.                                                              *)

Seeking == {"lock", "list", "probe", "found"}
Pcs == {"idle", "send", "sent", "wait"} \cup Seeking \cup Ended
Record == [pc : Pcs, url : Pod \cup {None}, force : BOOLEAN, stage : {"first", "second", "final"},
           tries : Nat, cands : Seq(Pod), cures : SUBSET Call]

\* Posts of an attempt before the present one, as its stage counts them.
Before(stage) == CASE stage = "first" -> 0 [] stage = "second" -> 1 [] stage = "final" -> 2

\* A call in state x that posted ps has an address when it posts,
Addressed(x) ==
    /\ x.pc \in {"send", "sent", "wait"} => x.url \in Pod
    /\ x.pc = "found" => x.cands # << >>

\* has posted three times an attempt at most, and a health check never,
Counted(c, x, ps) ==
    /\ x.tries <= RetryCount + 1
    /\ x.pc = "idle" => ps = << >>
    /\ x.pc # "idle" => x.tries >= 1
    /\ x.pc \in Ended => Len(ps) <= 3 * x.tries
    /\ x.pc \notin Ended \cup {"idle"} => Len(ps) <= 3 * (x.tries - 1) + Before(x.stage)
    /\ c \notin Analysis /\ x.pc \notin Ended => ps = << >>
    /\ c \in Health => x.pc \notin {"sent", "wait"}

\* stops at the first answer that is read, posts again in the same attempt only
\* after a connection error or a 5xx,
Stopped(c, x, ps) ==
    /\ x.pc \notin Ended \cup {"idle"} /\ x.stage # "first" => Last(ps) \in {"lost", "5xx"}
    /\ \A i \in 1 .. Len(ps) : ps[i] \in {"ok", "4xx"} => i = Len(ps) /\ x.pc \in {"ok", "bad"}
    /\ c \in Analysis /\ x.pc = "ok" => ps # << >> /\ Last(ps) = "ok"

\* and does not post again before it has seen a worker since its failure.
Cured(c, x, su) ==
    su => \/ x.pc = "lock" /\ x.force
          \/ x.pc \in {"list", "probe"}
          \/ x.pc = "found" /\ c \in x.cures
          \/ x.pc \in Ended

Own(c, x, ps, su) ==
    /\ x \in Record /\ ps \in Seq(Told) /\ su \in BOOLEAN
    /\ Addressed(x) /\ Counted(c, x, ps) /\ Stopped(c, x, ps) /\ Cured(c, x, su)

CallInv == \A c \in Call : Own(c, call[c], posted[c], suspect[c])

NetTypes ==
    /\ fixed \in Pod \cup {None}
    /\ addr \in [Client -> Pod \cup {None}] /\ fresh \in [Client -> BOOLEAN]
    /\ \A k \in Client : fresh[k] => addr[k] \in Pod
    /\ line \in [Client -> Seq(Call)]
    /\ call \in [Call -> Record]
    /\ posted \in [Call -> Seq(Told)]
    /\ suspect \in [Call -> BOOLEAN]

LEMMA PcKinds ==
  /\ Ended = {"ok", "bad", "down"} /\ Seeking = {"lock", "list", "probe", "found"}
  /\ Pcs = {"idle", "send", "sent", "wait", "lock", "list", "probe", "found", "ok", "bad", "down"}
  /\ \A s \in {"first", "second", "final"} : Before(s) \in {0, 1, 2}
  /\ Before("first") = 0 /\ Before("second") = 1 /\ Before("final") = 2
BY DEF Ended, Seeking, Pcs, Before

\* A call on its way stays on its way, and posts nothing.
LEMMA GoesOn ==
  ASSUME NEW c \in Call, NEW x, NEW y, NEW ps, NEW su, NEW sv \in BOOLEAN,
         Own(c, x, ps, su), sv => su,
         x.pc \notin Ended \cup {"idle"},
         y \in Record, y.pc \notin Ended \cup {"idle"},
         y.tries = x.tries, y.stage = x.stage, c \in Health => y.pc \notin {"sent", "wait"},
         Addressed(y), Cured(c, y, sv)
  PROVE  Own(c, y, ps, sv)
<1>1. Counted(c, y, ps) /\ Stopped(c, y, ps)
  BY PcKinds DEF Own, Counted, Stopped
<1> QED
  BY <1>1 DEF Own

\* A call ends without an answer to a post, from wherever it stands.
LEMMA GoesDown ==
  ASSUME NEW c \in Call, NEW x, NEW ps, NEW su, NEW how \in Ended, how = "ok" => c \notin Analysis,
         Own(c, x, ps, su), x.pc \notin Ended \cup {"idle"}
  PROVE  Own(c, [x EXCEPT !.pc = how], ps, su)
<1> DEFINE y == [x EXCEPT !.pc = how]
<1>1. /\ y \in Record /\ y.pc = how /\ y.tries = x.tries /\ y.tries \in Nat
      /\ ps \in Seq(Told) /\ Len(ps) \in Nat /\ x.stage \in {"first", "second", "final"}
  BY PcKinds, LenProperties DEF Own, Record
<1> HIDE DEF y
<1>2. Len(ps) <= 3 * y.tries
  <2>1. Len(ps) <= 3 * (x.tries - 1) + Before(x.stage) /\ Before(x.stage) \in {0, 1, 2}
    BY <1>1, PcKinds DEF Own, Counted
  <2> QED
    BY <2>1, <1>1
<1>3. Counted(c, y, ps)
  BY <1>1, <1>2, PcKinds DEF Own, Counted
<1>4. Addressed(y) /\ Stopped(c, y, ps) /\ Cured(c, y, su)
  BY <1>1, PcKinds DEF Own, Addressed, Stopped, Cured
<1> QED
  BY <1>1, <1>3, <1>4 DEF Own, y

\* An attempt begins: the first one, or one after an attempt that failed.
LEMMA Attempts ==
  ASSUME NEW c \in Call, NEW x, NEW y, NEW ps, NEW su, Own(c, x, ps, su),
         \/ x.pc = "idle" /\ y.tries = 1 /\ ~su
         \/ x.pc = "down" /\ y.tries = x.tries + 1 /\ x.tries <= RetryCount /\ c \in Analysis,
         y \in Record, y.pc \in {"lock", "send"}, y.stage = "first", Addressed(y)
  PROVE  Own(c, y, ps, FALSE)
<1>1. /\ ps \in Seq(Told) /\ Len(ps) \in Nat /\ RetryCount \in Nat /\ y.tries \in Nat
      /\ x.tries \in Nat /\ x.tries <= RetryCount + 1
  BY LenProperties, GraphAssumption DEF Own, Record, Counted
<1>2. Counted(c, y, ps)
  <2>1. CASE x.pc = "idle" /\ y.tries = 1
    <3>1. ps = << >> /\ Len(ps) = 0
      BY <2>1 DEF Own, Counted
    <3> QED
      BY <3>1, <2>1, <1>1, PcKinds DEF Counted
  <2>2. CASE x.pc = "down" /\ y.tries = x.tries + 1 /\ x.tries <= RetryCount /\ c \in Analysis
    <3>1. Len(ps) <= 3 * x.tries /\ y.tries - 1 = x.tries
      BY <2>2, <1>1, PcKinds DEF Own, Counted
    <3> QED
      BY <3>1, <2>2, <1>1, PcKinds DEF Counted
  <2> QED
    BY <2>1, <2>2
<1>3. Stopped(c, y, ps) /\ Cured(c, y, FALSE)
  BY <1>1, PcKinds DEF Own, Stopped, Cured
<1> QED
  BY <1>1, <1>2, <1>3 DEF Own

\* A post came to a: the call ends, or posts again in the same attempt.
LEMMA Answers ==
  ASSUME NEW c \in Call, NEW x, NEW y, NEW ps, NEW su, NEW sv \in BOOLEAN, NEW a \in Told,
         Own(c, x, ps, su), x.pc \in {"send", "sent", "wait"}, sv => su \/ y.pc = "lock",
         y \in Record, y.tries = x.tries,
         \/ /\ y.pc = "lock" /\ y.force /\ c \in Analysis /\ a \in {"lost", "5xx"}
            /\ x.stage # "final" /\ (a = "lost" => x.stage = "first")
            /\ y.stage = IF a = "5xx" THEN "final" ELSE "second"
         \/ y.pc = CASE a = "ok" -> "ok" [] a = "4xx" -> "bad" [] OTHER -> "down"
  PROVE  Own(c, y, Append(ps, a), sv)
<1> DEFINE q == Append(ps, a)
<1>1. /\ ps \in Seq(Told) /\ Len(ps) \in Nat /\ y.tries \in Nat
      /\ x.stage \in {"first", "second", "final"} /\ y.stage \in {"first", "second", "final"}
      /\ y.pc \in Pcs
  BY LenProperties DEF Own, Record
<1>2. /\ q \in Seq(Told) /\ Len(q) = Len(ps) + 1 /\ q # << >> /\ q[Len(q)] = a
      /\ \A i \in 1 .. Len(ps) : q[i] = ps[i]
      /\ Last(q) = q[Len(q)]
  BY <1>1, AppendProperties DEF Last
<1> HIDE DEF q
<1>3. Len(q) <= 3 * (y.tries - 1) + Before(x.stage) + 1
  BY <1>1, <1>2, PcKinds DEF Own, Counted
<1>4. y.pc \in {"lock"} \cup Ended
  BY PcKinds
<1>5. Counted(c, y, q)
  <2>1. CASE y.pc = "lock"
    <3>1. /\ c \in Analysis /\ x.stage # "final"
          /\ y.stage = "final" \/ (y.stage = "second" /\ x.stage = "first")
      BY <2>1 DEF Told
    <3>2. Len(q) <= 3 * (y.tries - 1) + Before(y.stage)
      BY <3>1, <1>1, <1>2, <1>3, PcKinds
    <3> QED
      BY <3>1, <3>2, <2>1, <1>1, <1>2, PcKinds DEF Own, Counted
  <2>2. CASE y.pc \in Ended
    <3>1. Len(q) <= 3 * y.tries
      BY <1>1, <1>2, <1>3, PcKinds
    <3> QED
      BY <3>1, <2>2, <1>1, PcKinds DEF Own, Counted
  <2> QED
    BY <2>1, <2>2, <1>4
<1>6. Stopped(c, y, q)
  <2>1. ASSUME NEW i \in 1 .. Len(q), q[i] \in {"ok", "4xx"} PROVE i = Len(q) /\ y.pc \in {"ok", "bad"}
    <3>1. CASE i \in 1 .. Len(ps)
      <4>1. x.pc \in {"ok", "bad"}
        BY <3>1, <2>1, <1>2 DEF Own, Stopped
      <4> QED
        BY <4>1
    <3>2. CASE i \notin 1 .. Len(ps)
      <4>1. i = Len(q) /\ a \in {"ok", "4xx"}
        BY <3>2, <2>1, <1>1, <1>2
      <4> QED
        BY <4>1
    <3> QED
      BY <3>1, <3>2
  <2>2. y.pc = "ok" => a = "ok"
    OBVIOUS
  <2>3. y.pc \notin Ended \cup {"idle"} => Last(q) \in {"lost", "5xx"}
    BY <1>2, <1>4, PcKinds
  <2> QED
    BY <2>1, <2>2, <2>3, <1>2 DEF Stopped
<1>7. Addressed(y)
  BY <1>4, PcKinds DEF Addressed
<1>8. Cured(c, y, sv)
  <2>1. su => FALSE
    BY PcKinds DEF Own, Cured
  <2> QED
    BY <2>1, <1>4, PcKinds DEF Cured
<1> QED
  BY <1>1, <1>2, <1>5, <1>6, <1>7, <1>8 DEF Own, q

\* The discovery lock of a client: who seeks stands in its line once, and who
\* is past the lock is the first.
LineInv ==
    /\ \A k \in Client : IsInjective(line[k])
    /\ \A k \in Client : \A c \in Call : c \in Range(line[k]) <=> (ClientOf(c) = k /\ call[c].pc \in Seeking)
    /\ \A c \in Call : call[c].pc \in {"list", "probe", "found"} => Head(line[ClientOf(c)]) = c

Others(c) == \A d \in Call : d # c => call'[d] = call[d]

LEMMA ClientIs == \A c \in Call : ClientOf(c) \in Client
BY DEF ClientOf, Client

LEMMA LineJoins ==
  ASSUME NetTypes, LineInv, NEW c \in Call, Others(c), call[c].pc \notin Seeking, call'[c].pc = "lock",
         line' = [line EXCEPT ![ClientOf(c)] = Append(@, c)]
  PROVE  line' \in [Client -> Seq(Call)] /\ LineInv'
<1> DEFINE k == ClientOf(c)
           q == line[k]
<1>1. /\ k \in Client /\ q \in Seq(Call) /\ IsInjective(q) /\ c \notin Range(q)
  BY ClientIs DEF NetTypes, LineInv
<1>2. /\ Append(q, c) \in Seq(Call) /\ IsInjective(Append(q, c))
      /\ Range(Append(q, c)) = Range(q) \cup {c}
      /\ Head(Append(q, c)) = IF q = << >> THEN c ELSE Head(q)
  BY <1>1, JoinLine
<1>3. /\ line' \in [Client -> Seq(Call)]
      /\ line'[k] = Append(q, c) /\ \A j \in Client : j # k => line'[j] = line[j]
  BY <1>1, <1>2 DEF NetTypes
<1> HIDE DEF q
<1>4. \A j \in Client : IsInjective(line'[j])
  BY <1>2, <1>3 DEF LineInv
<1>5. ASSUME NEW j \in Client, NEW d \in Call
      PROVE  d \in Range(line'[j]) <=> (ClientOf(d) = j /\ call'[d].pc \in Seeking)
  <2>1. CASE j # k
    BY <2>1, <1>3 DEF LineInv, Others
  <2>2. CASE j = k /\ d = c
    BY <2>2, <1>2, <1>3 DEF Seeking
  <2>3. CASE j = k /\ d # c
    BY <2>3, <1>2, <1>3 DEF LineInv, Others, q
  <2> QED
    BY <2>1, <2>2, <2>3
<1>6. ASSUME NEW d \in Call, call'[d].pc \in {"list", "probe", "found"}
      PROVE  Head(line'[ClientOf(d)]) = d
  <2>1. d # c /\ call'[d] = call[d] /\ ClientOf(d) \in Client
    BY <1>6, ClientIs DEF Others
  <2>2. Head(line[ClientOf(d)]) = d /\ d \in Range(line[ClientOf(d)])
    BY <1>6, <2>1 DEF LineInv, Seeking
  <2>3. line[ClientOf(d)] # << >>
    BY <2>2 DEF Range
  <2> QED
    BY <2>1, <2>2, <2>3, <1>2, <1>3 DEF q
<1> QED
  BY <1>3, <1>4, <1>5, <1>6 DEF LineInv

LEMMA LineLeaves ==
  ASSUME NetTypes, LineInv, NEW c \in Call, Others(c), call'[c].pc \notin Seeking, line' = Unlocked(c)
  PROVE  line' \in [Client -> Seq(Call)] /\ LineInv'
<1> DEFINE k == ClientOf(c)
           q == line[k]
           r == OutOf(q, c)
<1>1. /\ k \in Client /\ q \in Seq(Call) /\ IsInjective(q)
  BY ClientIs DEF NetTypes, LineInv
<1>2. /\ r \in Seq(Call) /\ IsInjective(r) /\ Range(r) = Range(q) \ {c}
      /\ q # << >> /\ Head(q) # c => r # << >> /\ Head(r) = Head(q)
  BY <1>1, OutOfLine
<1> HIDE DEF r
<1>3. /\ line' \in [Client -> Seq(Call)]
      /\ line'[k] = r /\ \A j \in Client : j # k => line'[j] = line[j]
  BY <1>1, <1>2 DEF NetTypes, Unlocked, r
<1> HIDE DEF q
<1>4. \A j \in Client : IsInjective(line'[j])
  BY <1>2, <1>3 DEF LineInv
<1>5. ASSUME NEW j \in Client, NEW d \in Call
      PROVE  d \in Range(line'[j]) <=> (ClientOf(d) = j /\ call'[d].pc \in Seeking)
  <2>1. CASE j # k
    <3>1. d = c => ClientOf(d) # j
      BY <2>1
    <3>2. line'[j] = line[j]
      BY <2>1, <1>3
    <3> QED
      BY <3>1, <3>2 DEF LineInv, Others
  <2>2. CASE j = k /\ d = c
    BY <2>2, <1>2, <1>3
  <2>3. CASE j = k /\ d # c
    BY <2>3, <1>2, <1>3 DEF LineInv, Others, q
  <2> QED
    BY <2>1, <2>2, <2>3
<1>6. ASSUME NEW d \in Call, call'[d].pc \in {"list", "probe", "found"}
      PROVE  Head(line'[ClientOf(d)]) = d
  <2>1. d # c /\ call'[d] = call[d] /\ ClientOf(d) \in Client
    BY <1>6, ClientIs DEF Others, Seeking
  <2>2. Head(line[ClientOf(d)]) = d /\ d \in Range(line[ClientOf(d)])
    BY <1>6, <2>1 DEF LineInv, Seeking
  <2>3. line[ClientOf(d)] # << >>
    BY <2>2 DEF Range
  <2> QED
    BY <2>1, <2>2, <2>3, <1>2, <1>3 DEF q
<1> QED
  BY <1>3, <1>4, <1>5, <1>6 DEF LineInv

\* Nobody joins or leaves: c goes on under the lock, or outside it.
LEMMA LineStands ==
  ASSUME NetTypes, LineInv, NEW c \in Call, Others(c), line' = line,
         call'[c].pc \in Seeking <=> call[c].pc \in Seeking,
         call'[c].pc \in {"list", "probe", "found"} => Head(line[ClientOf(c)]) = c
  PROVE  line' \in [Client -> Seq(Call)] /\ LineInv'
<1>1. line' \in [Client -> Seq(Call)] /\ \A k \in Client : IsInjective(line'[k])
  BY DEF NetTypes, LineInv
<1>2. ASSUME NEW j \in Client, NEW d \in Call
      PROVE  d \in Range(line'[j]) <=> (ClientOf(d) = j /\ call'[d].pc \in Seeking)
  BY DEF LineInv, Others
<1>3. ASSUME NEW d \in Call, call'[d].pc \in {"list", "probe", "found"}
      PROVE  Head(line'[ClientOf(d)]) = d
  BY <1>3 DEF LineInv, Others
<1> QED
  BY <1>1, <1>2, <1>3 DEF LineInv

\* The time of a recipe call: the worker's ends no later than the caller's.
ClockInv ==
    /\ clock \in [Reasoning -> [caller : Nat, worker : Nat, transit : Nat]]
    /\ \A c \in Reasoning :
        /\ call[c].pc \notin {"wait"} \cup Ended => phase[<<c, 1>>] = "none"
        /\ call[c].pc = "sent" => clock[c].worker + clock[c].transit <= clock[c].caller
        /\ call[c].pc = "wait" /\ Working(c) => clock[c].worker <= clock[c].caller
        /\ call[c].pc \in Ended /\ Working(c) => clock[c].worker = 0

LEMMA ClockStands ==
  ASSUME ClockInv, clock' = clock,
         \A c \in Reasoning : phase[<<c, 1>>] = "none" => phase'[<<c, 1>>] = "none",
         \A c \in Reasoning : Working(c)' => Working(c),
         \A c \in Reasoning :
            \/ call'[c].pc = call[c].pc
            \/ call'[c].pc \notin {"sent", "wait"} \cup Ended /\ call[c].pc \notin {"wait"} \cup Ended
            \/ call'[c].pc \in Ended /\ (Working(c) => clock[c].worker = 0)
  PROVE  ClockInv'
<1> SUFFICES ASSUME NEW c \in Reasoning
             PROVE  /\ call'[c].pc \notin {"wait"} \cup Ended => phase'[<<c, 1>>] = "none"
                    /\ call'[c].pc = "sent" => clock'[c].worker + clock'[c].transit <= clock'[c].caller
                    /\ call'[c].pc = "wait" /\ Working(c)' => clock'[c].worker <= clock'[c].caller
                    /\ call'[c].pc \in Ended /\ Working(c)' => clock'[c].worker = 0
  BY DEF ClockInv
<1>1. CASE call'[c].pc = call[c].pc
  BY <1>1 DEF ClockInv
<1>2. CASE call'[c].pc \notin {"sent", "wait"} \cup Ended /\ call[c].pc \notin {"wait"} \cup Ended
  BY <1>2 DEF ClockInv
<1>3. CASE call'[c].pc \in Ended /\ (Working(c) => clock[c].worker = 0)
  BY <1>3, PcKinds DEF ClockInv
<1> QED
  BY <1>1, <1>2, <1>3

\* A recipe call that is no longer on its way is not at work unless it waits.
LEMMA NotAtWork ==
  ASSUME ClockInv, NEW c \in Reasoning, call[c].pc \notin {"wait"} \cup Ended
  PROVE  ~Working(c)
BY DEF ClockInv, Working, Active

NetInv == NetTypes /\ CallInv /\ LineInv /\ ClockInv

\* A step of call c to the state y.
CallMoves(c, y) ==
    /\ call' = [call EXCEPT ![c] = y]
    /\ posted' \in [Call -> Seq(Told)] /\ suspect' \in [Call -> BOOLEAN]
    /\ \A d \in Call : d # c => posted'[d] = posted[d] /\ (suspect'[d] => suspect[d])
    /\ Own(c, y, posted'[c], suspect'[c])
    /\ fixed' = fixed
    /\ addr' \in [Client -> Pod \cup {None}] /\ fresh' \in [Client -> BOOLEAN]
    /\ \A k \in Client : fresh'[k] => addr'[k] \in Pod
    /\ line' \in [Client -> Seq(Call)]

LEMMA OneCall ==
  ASSUME NetTypes, CallInv, NEW c \in Call, NEW y, CallMoves(c, y)
  PROVE  NetTypes' /\ CallInv'
<1> USE DEF CallMoves
<1>1. call' \in [Call -> Record]
  BY DEF NetTypes, Own
<1>2. NetTypes'
  BY <1>1 DEF NetTypes
<1>3. ASSUME NEW d \in Call PROVE Own(d, call'[d], posted'[d], suspect'[d])
  <2>1. CASE d = c
    BY <2>1 DEF NetTypes
  <2>2. CASE d # c
    <3>1. call'[d] = call[d] /\ posted'[d] = posted[d] /\ suspect'[d] \in BOOLEAN /\ (suspect'[d] => suspect[d])
      BY <2>2 DEF NetTypes
    <3>2. Own(d, call[d], posted[d], suspect[d])
      BY DEF CallInv
    <3> QED
      BY <3>1, <3>2 DEF Own, Cured
  <2> QED
    BY <2>1, <2>2
<1> QED
  BY <1>2, <1>3 DEF CallInv

LEMMA CallFacts ==
  ASSUME NetInv, NEW c \in Call
  PROVE  /\ Own(c, call[c], posted[c], suspect[c])
         /\ call[c] \in Record /\ posted[c] \in Seq(Told) /\ suspect[c] \in BOOLEAN
         /\ ClientOf(c) \in Client
         /\ \A y : call' = [call EXCEPT ![c] = y] => Others(c) /\ call'[c] = y
BY ClientIs DEF NetInv, NetTypes, CallInv, Others

\* The clocks when only call c moves, and is not given up while it is at work.
LEMMA ClockOfOne ==
  ASSUME NetInv, NEW c \in Call, Others(c), clock' = clock, phase' = phase,
         c \in Reasoning =>
            \/ call'[c].pc \notin {"sent", "wait"} \cup Ended /\ call[c].pc \notin {"wait"} \cup Ended
            \/ call'[c].pc \in Ended /\ (Working(c) => clock[c].worker = 0)
  PROVE  ClockInv'
<1>1. \A d \in Reasoning : d \in Call
  BY DEF Call
<1>2. \A d \in Reasoning : Working(d)' => Working(d)
  BY DEF Working
<1>3. ASSUME NEW d \in Reasoning
      PROVE  \/ call'[d].pc = call[d].pc
             \/ call'[d].pc \notin {"sent", "wait"} \cup Ended /\ call[d].pc \notin {"wait"} \cup Ended
             \/ call'[d].pc \in Ended /\ (Working(d) => clock[d].worker = 0)
  <2>1. CASE d = c
    BY <2>1
  <2>2. CASE d # c
    BY <2>2, <1>1 DEF Others
  <2> QED
    BY <2>1, <2>2
<1> QED
  BY <1>2, <1>3, ClockStands DEF NetInv

\* infer(), ready() and reason_recipe() begin, and an attempt is repeated.
LEMMA SeekKeeps ==
  ASSUME NetInv, NEW c \in Call, NEW n \in Nat, Seek(c, [Quiet EXCEPT !.tries = n]),
         \/ call[c].pc = "idle" /\ n = 1
         \/ call[c].pc = "down" /\ n = call[c].tries + 1 /\ call[c].tries <= RetryCount /\ c \in Analysis,
         suspect' = [suspect EXCEPT ![c] = FALSE],
         UNCHANGED <<fixed, addr, fresh, posted, clock, phase>>
  PROVE  NetInv'
<1> DEFINE x == [Quiet EXCEPT !.tries = n]
           k == ClientOf(c)
<1>0. Quiet \in Record
  <2>1. << >> \in Seq(Pod) /\ {} \in SUBSET Call /\ "idle" \in Pcs
    BY PcKinds
  <2> QED
    BY <2>1 DEF Quiet, Record
<1>1. x \in Record /\ x.stage = "first" /\ x.tries = n
  <2>1. Quiet.stage = "first"
    BY DEF Quiet
  <2> QED
    BY <1>0, <2>1 DEF Record
<1> HIDE DEF x
<1>3. PICK y : /\ call' = [call EXCEPT ![c] = y]
               /\ y \in Record /\ y.pc \in {"lock", "send"} /\ y.stage = "first" /\ y.tries = n
               /\ Addressed(y)
               /\ \/ y.pc = "send" /\ line' = line
                  \/ y.pc = "lock" /\ line' = [line EXCEPT ![k] = Append(@, c)]
  <2>1. k \in Client
    BY CallFacts
  <2>2. ASSUME NEW u \in Pod, call' = [call EXCEPT ![c] = [x EXCEPT !.pc = "send", !.url = u]], line' = line
        PROVE  /\ [x EXCEPT !.pc = "send", !.url = u] \in Record
               /\ Addressed([x EXCEPT !.pc = "send", !.url = u])
    <3>1. /\ [x EXCEPT !.pc = "send", !.url = u] \in Record
          /\ [x EXCEPT !.pc = "send", !.url = u].pc = "send" /\ [x EXCEPT !.pc = "send", !.url = u].url = u
      BY <1>1, PcKinds DEF Record
    <3> QED
      BY <3>1 DEF Addressed
  <2>3. CASE fixed # None
    <3> DEFINE y == [x EXCEPT !.pc = "send", !.url = fixed]
    <3>1. fixed \in Pod /\ call' = [call EXCEPT ![c] = y] /\ line' = line
      BY <2>3 DEF Seek, NetInv, NetTypes, x
    <3>2. y \in Record /\ Addressed(y)
      BY <3>1, <2>2
    <3>3. y.pc = "send" /\ y.stage = "first" /\ y.tries = n
      BY <1>1 DEF Record
    <3> QED
      BY <3>1, <3>2, <3>3
  <2>4. CASE fixed = None /\ fresh[k]
    <3> DEFINE y == [x EXCEPT !.pc = "send", !.url = addr[k]]
    <3>1. addr[k] \in Pod /\ call' = [call EXCEPT ![c] = y] /\ line' = line
      BY <2>1, <2>4 DEF Seek, NetInv, NetTypes, x
    <3>2. y \in Record /\ Addressed(y)
      BY <3>1, <2>2
    <3>3. y.pc = "send" /\ y.stage = "first" /\ y.tries = n
      BY <1>1 DEF Record
    <3> QED
      BY <3>1, <3>2, <3>3
  <2>5. CASE fixed = None /\ ~fresh[k]
    <3> DEFINE y == [x EXCEPT !.pc = "lock"]
    <3>1. call' = [call EXCEPT ![c] = y] /\ line' = [line EXCEPT ![k] = Append(@, c)]
      BY <2>1, <2>5 DEF Seek, x
    <3>2. y \in Record /\ Addressed(y) /\ y.pc = "lock" /\ y.stage = "first" /\ y.tries = n
      BY <1>1, PcKinds DEF Record, Addressed
    <3> QED
      BY <3>1, <3>2
  <2> QED
    BY <2>3, <2>4, <2>5
<1>4. Own(c, call[c], posted[c], suspect[c]) /\ Others(c) /\ call'[c] = y
  BY <1>3, CallFacts
<1>5. call[c].pc = "idle" => ~suspect[c]
  BY <1>4, PcKinds DEF Own, Cured
<1>6. Own(c, y, posted[c], FALSE)
  BY <1>3, <1>4, <1>5, Attempts
<1>7. line' \in [Client -> Seq(Call)] /\ LineInv'
  <2>1. call[c].pc \notin Seeking
    BY PcKinds
  <2>2. CASE y.pc = "lock" /\ line' = [line EXCEPT ![k] = Append(@, c)]
    BY <2>1, <2>2, <1>4, LineJoins DEF NetInv
  <2>3. CASE y.pc = "send" /\ line' = line
    <3>1. call'[c].pc \notin Seeking /\ call'[c].pc \notin {"list", "probe", "found"}
      BY <2>3, <1>4, PcKinds
    <3> QED
      BY <3>1, <2>1, <2>3, <1>4, LineStands DEF NetInv
  <2> QED
    BY <2>2, <2>3, <1>3
<1>8. ClockInv'
  <2>1. c \in Reasoning => call[c].pc = "idle"
    BY RemoteAssumption
  <2>2. call'[c].pc \notin {"sent", "wait"} \cup Ended
    BY <1>3, <1>4, PcKinds
  <2> QED
    BY <2>1, <2>2, <1>4, PcKinds, ClockOfOne
<1>9. CallMoves(c, y)
  BY <1>3, <1>6, <1>7 DEF CallMoves, NetInv, NetTypes
<1> QED
  BY <1>7, <1>8, <1>9, OneCall DEF NetInv

\* A call fails, or is cancelled, wherever it stands: it leaves the line.
LEMMA FailsKeeps ==
  ASSUME NetInv, NEW c \in Call, NEW how \in {"bad", "down"}, Fails(c, how),
         call[c].pc \notin Ended \cup {"idle"},
         c \in Reasoning /\ Working(c) => clock[c].worker = 0,
         UNCHANGED <<fixed, addr, fresh, posted, suspect, clock, phase>>
  PROVE  NetInv'
<1> DEFINE y == [call[c] EXCEPT !.pc = how]
<1>1. call' = [call EXCEPT ![c] = y] /\ line' = Unlocked(c)
  BY DEF Fails
<1>2. how \in Ended /\ how # "ok"
  BY PcKinds
<1>3. /\ Own(c, call[c], posted[c], suspect[c]) /\ call[c] \in Record /\ Others(c) /\ call'[c] = y
  BY <1>1, CallFacts
<1>4. Own(c, y, posted[c], suspect[c])
  BY <1>2, <1>3, GoesDown
<1>5. y.pc = how
  BY <1>3 DEF Record
<1> HIDE DEF y
<1>6. line' \in [Client -> Seq(Call)] /\ LineInv'
  <2>1. call'[c].pc \notin Seeking
    BY <1>3, <1>5, PcKinds
  <2> QED
    BY <2>1, <1>1, <1>3, LineLeaves DEF NetInv
<1>7. ClockInv'
  BY <1>2, <1>3, <1>5, ClockOfOne
<1>8. CallMoves(c, y)
  BY <1>1, <1>4, <1>6 DEF CallMoves, NetInv, NetTypes
<1> QED
  BY <1>6, <1>7, <1>8, OneCall DEF NetInv

LEMMA FailingKeeps ==
  ASSUME NetInv, NEW c \in Call, ListFails(c) \/ NoneReady(c) \/ BudgetGone(c) \/ GivesUp(c)
  PROVE  NetInv'
<1>1. UNCHANGED <<fixed, addr, fresh, posted, suspect, clock, phase>>
  BY DEF ListFails, NoneReady, BudgetGone, GivesUp, workerVars
<1>2. \E how \in {"bad", "down"} : Fails(c, how)
  BY DEF ListFails, NoneReady, BudgetGone, GivesUp
<1>3. call[c].pc \notin Ended \cup {"idle"}
  BY PcKinds DEF ListFails, NoneReady, BudgetGone, GivesUp
<1>4. ASSUME c \in Reasoning, Working(c) PROVE clock[c].worker = 0
  <2>1. call[c].pc = "wait"
    BY <1>3, <1>4, NotAtWork DEF NetInv
  <2>2. clock[c].caller = 0
    BY <2>1 DEF ListFails, NoneReady, BudgetGone, GivesUp
  <2>3. clock[c].worker \in Nat /\ clock[c].worker <= clock[c].caller
    BY <2>1, <1>4 DEF NetInv, ClockInv
  <2> QED
    BY <2>2, <2>3
<1> QED
  BY <1>1, <1>2, <1>3, <1>4, FailsKeeps

\* A call goes on, and its post with it: the states of GoesOn.
LEMMA GoesOnCall ==
  ASSUME NetInv, NEW c \in Call, NEW y \in Record,
         call' = [call EXCEPT ![c] = y],
         call[c].pc \notin Ended \cup {"idle"}, y.pc \notin Ended \cup {"idle"},
         c \in Health => y.pc \notin {"sent", "wait"}, y.tries = call[c].tries, y.stage = call[c].stage, Addressed(y), Cured(c, y, suspect'[c]),
         suspect' \in [Call -> BOOLEAN], \A d \in Call : suspect'[d] => suspect[d],
         line' \in [Client -> Seq(Call)],
         addr' \in [Client -> Pod \cup {None}], fresh' \in [Client -> BOOLEAN],
         \A k \in Client : fresh'[k] => addr'[k] \in Pod,
         UNCHANGED <<fixed, posted>>
  PROVE  NetTypes' /\ CallInv'
<1>1. Own(c, call[c], posted[c], suspect[c])
  BY CallFacts
<1>2. suspect'[c] \in BOOLEAN /\ (suspect'[c] => suspect[c])
  OBVIOUS
<1>3. Own(c, y, posted[c], suspect'[c])
  BY <1>1, <1>2, GoesOn
<1>4. CallMoves(c, y)
  BY <1>3 DEF CallMoves, NetInv, NetTypes
<1> QED
  BY <1>4, OneCall DEF NetInv

\* The lock is there: the address is looked at again.
LEMMA AcquireKeeps ==
  ASSUME NetInv, NEW c \in Call, Acquire(c)
  PROVE  NetInv'
<1> DEFINE x == call[c]
           k == ClientOf(c)
<1>1. /\ Own(c, x, posted[c], suspect[c]) /\ x \in Record /\ k \in Client
      /\ suspect \in [Call -> BOOLEAN]
      /\ addr \in [Client -> Pod \cup {None}] /\ fresh \in [Client -> BOOLEAN]
      /\ \A j \in Client : fresh[j] => addr[j] \in Pod
  BY CallFacts DEF NetInv, NetTypes
<1>2. /\ x.pc = "lock" /\ Head(line[k]) = c
      /\ UNCHANGED <<fixed, addr, fresh, posted, suspect, clock, phase>>
  BY DEF Acquire, workerVars
<1>3. suspect[c] => x.force
  BY <1>1, <1>2, PcKinds DEF Own, Cured
<1>4. CASE Settled(c)
  <2> DEFINE y == [x EXCEPT !.pc = "send", !.url = addr[k]]
  <2>1. call' = [call EXCEPT ![c] = y] /\ line' = Unlocked(c)
    BY <1>4 DEF Acquire
  <2>2. fresh[k] /\ ~x.force /\ addr[k] \in Pod
    BY <1>1, <1>4 DEF Settled
  <2>3. /\ y \in Record /\ y.pc = "send" /\ y.url = addr[k] /\ y.tries = x.tries /\ y.stage = x.stage
    BY <1>1, <2>2, PcKinds DEF Record
  <2>4. Others(c) /\ call'[c] = y
    BY <2>1, CallFacts
  <2> HIDE DEF y
  <2>5. Addressed(y) /\ Cured(c, y, suspect'[c])
    BY <2>2, <2>3, <1>2, <1>3 DEF Addressed, Cured
  <2>6. line' \in [Client -> Seq(Call)] /\ LineInv'
    BY <2>1, <2>3, <2>4, PcKinds, LineLeaves DEF NetInv
  <2>7. ClockInv'
    BY <2>3, <2>4, <1>2, PcKinds, ClockOfOne
  <2> QED
    BY <2>1, <2>3, <2>5, <2>6, <2>7, <1>1, <1>2, PcKinds, GoesOnCall DEF NetInv
<1>5. CASE ~Settled(c)
  <2> DEFINE y == [x EXCEPT !.pc = "list"]
  <2>1. call' = [call EXCEPT ![c] = y] /\ line' = line
    BY <1>5 DEF Acquire
  <2>3. /\ y \in Record /\ y.pc = "list" /\ y.tries = x.tries /\ y.stage = x.stage
    BY <1>1, PcKinds DEF Record
  <2>4. Others(c) /\ call'[c] = y
    BY <2>1, CallFacts
  <2> HIDE DEF y
  <2>5. Addressed(y) /\ Cured(c, y, suspect'[c])
    BY <2>3 DEF Addressed, Cured
  <2>6. line' \in [Client -> Seq(Call)] /\ LineInv'
    BY <2>1, <2>3, <2>4, <1>2, PcKinds, LineStands DEF NetInv
  <2>7. ClockInv'
    BY <2>3, <2>4, <1>2, PcKinds, ClockOfOne
  <2> QED
    BY <2>1, <2>3, <2>5, <2>6, <2>7, <1>1, <1>2, PcKinds, GoesOnCall DEF NetInv
<1> QED
  BY <1>4, <1>5

\* The listing is there: its candidates are asked one after the other.
LEMMA ListKeeps ==
  ASSUME NetInv, NEW c \in Call, List(c)
  PROVE  NetInv'
<1> DEFINE x == call[c]
<1>1. /\ Own(c, x, posted[c], suspect[c]) /\ x \in Record
      /\ suspect \in [Call -> BOOLEAN]
      /\ addr \in [Client -> Pod \cup {None}] /\ fresh \in [Client -> BOOLEAN]
      /\ \A j \in Client : fresh[j] => addr[j] \in Pod
  BY CallFacts DEF NetInv, NetTypes
<1>2. /\ x.pc = "list" /\ UNCHANGED <<fixed, addr, fresh, posted, suspect, clock, phase>>
  BY DEF List, workerVars
<1>3. CASE SameVersion
  <2>1. Fails(c, "down")
    BY <1>3 DEF List
  <2>2. c \in Reasoning => ~Working(c)
    BY <1>2, PcKinds, NotAtWork DEF NetInv
  <2> QED
    BY <2>1, <2>2, <1>2, PcKinds, FailsKeeps
<1>4. CASE ~SameVersion
  <2>1. PICK s \in [1 .. Cardinality(Listed) -> Listed] :
          call' = [call EXCEPT ![c].pc = "probe", ![c].cands = s] /\ line' = line
    BY <1>4 DEF List
  <2>2. s \in Seq(Pod)
    <3>1. Listed \subseteq Pod
      BY DEF Listed, Managed
    <3>2. IsFiniteSet(Listed) /\ Cardinality(Listed) \in Nat
      BY <3>1, WorkerAssumption, FS_Subset, FS_CardinalityType
    <3>3. s \in [1 .. Cardinality(Listed) -> Pod]
      BY <3>1
    <3> QED
      BY <3>2, <3>3, IsASeq
  <2> DEFINE y == [x EXCEPT !.pc = "probe", !.cands = s]
  <2>3. call' = [call EXCEPT ![c] = y]
    BY <2>1
  <2>4. /\ y \in Record /\ y.pc = "probe" /\ y.tries = x.tries /\ y.stage = x.stage
    BY <1>1, <2>2, PcKinds DEF Record
  <2>5. Others(c) /\ call'[c] = y
    BY <2>3, CallFacts
  <2> HIDE DEF y
  <2>6. Addressed(y) /\ Cured(c, y, suspect'[c])
    BY <2>4 DEF Addressed, Cured
  <2>7. Head(line[ClientOf(c)]) = c
    BY <1>2 DEF NetInv, LineInv
  <2>8. line' \in [Client -> Seq(Call)] /\ LineInv'
    <3>1. call'[c].pc \in Seeking <=> call[c].pc \in Seeking
      BY <2>4, <2>5, <1>2, PcKinds
    <3>2. line' = line
      BY <2>1
    <3> QED
      BY <3>1, <3>2, <2>5, <2>7, LineStands DEF NetInv
  <2>9. ClockInv'
    BY <2>4, <2>5, <1>2, PcKinds, ClockOfOne
  <2> QED
    BY <2>3, <2>4, <2>6, <2>8, <2>9, <1>1, <1>2, PcKinds, GoesOnCall DEF NetInv
<1> QED
  BY <1>3, <1>4

\* A candidate answers: it is ready, or the next one is asked.
LEMMA ProbeKeeps ==
  ASSUME NetInv, NEW c \in Call, Probe(c)
  PROVE  NetInv'
<1> DEFINE x == call[c]
           ready == pod[Head(x.cands)].ready
           cures == {d \in Call : suspect[d] /\ ClientOf(d) = ClientOf(c)}
           pc == IF ready THEN "found" ELSE "probe"
           cands == IF ready THEN x.cands ELSE Tail(x.cands)
           y == [x EXCEPT !.pc = pc, !.cands = cands, !.cures = cures]
<1>1. /\ x \in Record /\ x.cands \in Seq(Pod)
      /\ suspect \in [Call -> BOOLEAN]
      /\ addr \in [Client -> Pod \cup {None}] /\ fresh \in [Client -> BOOLEAN]
      /\ \A j \in Client : fresh[j] => addr[j] \in Pod
  BY CallFacts DEF NetInv, NetTypes, Record
<1>2. /\ x.pc = "probe" /\ x.cands # << >> /\ line' = line
      /\ UNCHANGED <<fixed, addr, fresh, posted, suspect, clock, phase>>
  BY DEF Probe, workerVars
<1>3. /\ pc \in {"found", "probe"} /\ cands \in Seq(Pod) /\ (pc = "found" => cands # << >>)
      /\ cures \in SUBSET Call /\ (suspect[c] => c \in cures)
  <2>1. Tail(x.cands) \in Seq(Pod)
    BY <1>1, <1>2, HeadTailProperties
  <2> QED
    BY <1>1, <1>2, <2>1
<1>4. call' = [call EXCEPT ![c] = y]
  BY <1>1 DEF Probe, NetInv, NetTypes
<1> HIDE DEF pc, cands, cures
<1>5. /\ y \in Record /\ y.pc = pc /\ y.cands = cands /\ y.cures = cures
      /\ y.tries = x.tries /\ y.stage = x.stage
  BY <1>1, <1>3, PcKinds DEF Record
<1>6. Others(c) /\ call'[c] = y
  BY <1>4, CallFacts
<1> HIDE DEF y
<1>7. Addressed(y) /\ Cured(c, y, suspect'[c])
  BY <1>2, <1>3, <1>5 DEF Addressed, Cured
<1>8. line' \in [Client -> Seq(Call)] /\ LineInv'
  <2>1. Head(line[ClientOf(c)]) = c
    BY <1>2 DEF NetInv, LineInv
  <2>2. call'[c].pc \in Seeking <=> call[c].pc \in Seeking
    BY <1>2, <1>3, <1>5, <1>6, PcKinds
  <2> QED
    BY <2>1, <2>2, <1>2, <1>6, LineStands DEF NetInv
<1>9. ClockInv'
  BY <1>2, <1>3, <1>5, <1>6, PcKinds, ClockOfOne
<1>10. y.pc \notin Ended \cup {"idle", "sent", "wait"} /\ x.pc \notin Ended \cup {"idle"}
  BY <1>2, <1>3, <1>5, PcKinds
<1> QED
  BY <1>1, <1>2, <1>4, <1>5, <1>7, <1>8, <1>9, <1>10, GoesOnCall DEF NetInv

\* The answer of the one that is ready arrives: whoever had failed is cured.
LEMMA FoundKeeps ==
  ASSUME NetInv, NEW c \in Call, Found(c)
  PROVE  NetInv'
<1> DEFINE x == call[c]
           k == ClientOf(c)
           p == Head(x.cands)
           y == [x EXCEPT !.pc = "send", !.url = p]
<1>1. /\ x \in Record /\ x.cands \in Seq(Pod) /\ k \in Client
      /\ Own(c, x, posted[c], suspect[c])
      /\ suspect \in [Call -> BOOLEAN]
      /\ addr \in [Client -> Pod \cup {None}] /\ fresh \in [Client -> BOOLEAN]
      /\ \A j \in Client : fresh[j] => addr[j] \in Pod
  BY CallFacts DEF NetInv, NetTypes, Record
<1>2. /\ x.pc = "found" /\ line' = Unlocked(c)
      /\ UNCHANGED <<fixed, posted, clock, phase>>
      /\ addr' = [addr EXCEPT ![k] = p] /\ fresh' = [fresh EXCEPT ![k] = TRUE]
      /\ suspect' = [d \in Call |-> suspect[d] /\ d \notin x.cures]
      /\ call' = [call EXCEPT ![c] = y]
  BY DEF Found, workerVars
<1>3. p \in Pod
  <2>1. x.cands # << >>
    BY <1>1, <1>2 DEF Own, Addressed
  <2> QED
    BY <1>1, <2>1, HeadTailProperties
<1>4. suspect[c] => c \in x.cures
  BY <1>1, <1>2, PcKinds DEF Own, Cured
<1> HIDE DEF p
<1>5. /\ y \in Record /\ y.pc = "send" /\ y.url = p /\ y.tries = x.tries /\ y.stage = x.stage
  BY <1>1, <1>3, PcKinds DEF Record
<1>6. Others(c) /\ call'[c] = y
  BY <1>2, CallFacts
<1> HIDE DEF y
<1>7. /\ suspect' \in [Call -> BOOLEAN] /\ ~suspect'[c]
      /\ \A d \in Call : suspect'[d] => suspect[d]
  BY <1>1, <1>2, <1>4
<1>8. Addressed(y) /\ Cured(c, y, suspect'[c])
  BY <1>3, <1>5, <1>7 DEF Addressed, Cured
<1>9. line' \in [Client -> Seq(Call)] /\ LineInv'
  BY <1>2, <1>5, <1>6, PcKinds, LineLeaves DEF NetInv
<1>10. ClockInv'
  BY <1>2, <1>5, <1>6, PcKinds, ClockOfOne
<1>11. y.pc \notin Ended \cup {"idle"} /\ x.pc \notin Ended \cup {"idle"}
  BY <1>2, <1>5, PcKinds
<1>12. /\ addr' \in [Client -> Pod \cup {None}] /\ fresh' \in [Client -> BOOLEAN]
       /\ \A j \in Client : fresh'[j] => addr'[j] \in Pod
  BY <1>1, <1>2, <1>3
<1> QED
  BY <1>2, <1>5, <1>7, <1>8, <1>9, <1>10, <1>11, <1>12, GoesOnCall DEF NetInv

\* Nothing of a call changes, and no request is taken up.
LEMMA NetStands ==
  ASSUME NetInv, UNCHANGED <<fixed, line, call, posted, suspect, clock>>,
         addr' \in [Client -> Pod \cup {None}], fresh' \in [Client -> BOOLEAN],
         \A k \in Client : fresh'[k] => addr'[k] \in Pod,
         \A r \in Req : phase[r] = "none" => phase'[r] = "none",
         \A r \in Req : phase'[r] \in Active => phase[r] \in Active
  PROVE  NetInv'
<1>1. NetTypes' /\ CallInv'
  BY DEF NetInv, NetTypes, CallInv
<1>2. LineInv'
  BY DEF NetInv, LineInv
<1>3. \A c \in Reasoning : <<c, 1>> \in Req
  BY RemoteAssumption
<1>4. ClockInv'
  BY <1>3, ClockStands DEF NetInv, Working
<1> QED
  BY <1>1, <1>2, <1>4 DEF NetInv

LEMMA TtlKeeps ==
  ASSUME NetInv, NEW k \in Client, TtlPasses(k)
  PROVE  NetInv'
<1>1. /\ UNCHANGED <<fixed, addr, line, call, posted, suspect, clock, phase>>
      /\ fresh' = [fresh EXCEPT ![k] = FALSE]
  BY DEF TtlPasses, workerVars
<1>2. /\ addr' \in [Client -> Pod \cup {None}] /\ fresh' \in [Client -> BOOLEAN]
      /\ \A j \in Client : fresh'[j] => addr'[j] \in Pod
  BY <1>1 DEF NetInv, NetTypes
<1> QED
  BY <1>1, <1>2, NetStands

\* The budget of the worker is fixed: it and the way there fit into the caller's.
LEMMA AssignKeeps ==
  ASSUME NetInv, NEW c \in Call, Assign(c)
  PROVE  NetInv'
<1> DEFINE x == call[c]
           y == [x EXCEPT !.pc = "sent"]
           b == WorkerBudget(c)
<1>1. /\ x \in Record /\ Own(c, x, posted[c], suspect[c])
      /\ suspect \in [Call -> BOOLEAN] /\ posted \in [Call -> Seq(Told)]
      /\ addr \in [Client -> Pod \cup {None}] /\ fresh \in [Client -> BOOLEAN]
      /\ \A j \in Client : fresh[j] => addr[j] \in Pod
  BY CallFacts DEF NetInv, NetTypes
<1>2. /\ x.pc = "send" /\ c \in Reasoning /\ b > 0 /\ line' = line
      /\ UNCHANGED <<fixed, addr, fresh, posted, suspect, phase>>
      /\ call' = [call EXCEPT ![c] = y]
      /\ clock' = [clock EXCEPT ![c].worker = b, ![c].transit = Margin]
  BY DEF Assign, workerVars
<1>3. /\ y \in Record /\ y.pc = "sent" /\ y.url = x.url /\ y.tries = x.tries /\ y.stage = x.stage
  BY <1>1, PcKinds DEF Record
<1>4. Others(c) /\ call'[c] = y
  BY <1>2, CallFacts
<1> HIDE DEF y
<1>5. Addressed(y) /\ Cured(c, y, suspect'[c])
  BY <1>1, <1>2, <1>3, PcKinds DEF Own, Addressed, Cured
<1>6. line' \in [Client -> Seq(Call)] /\ LineInv'
  <2>1. call'[c].pc \in Seeking <=> call[c].pc \in Seeking
    BY <1>2, <1>3, <1>4, PcKinds
  <2>2. call'[c].pc \notin {"list", "probe", "found"}
    BY <1>3, <1>4
  <2> QED
    BY <2>1, <2>2, <1>2, <1>4, LineStands DEF NetInv
<1>7. ClockInv'
  <2>1. /\ clock \in [Reasoning -> [caller : Nat, worker : Nat, transit : Nat]]
        /\ clock[c] \in [caller : Nat, worker : Nat, transit : Nat]
    BY <1>2 DEF NetInv, ClockInv
  <2>2. b = clock[c].caller - Margin /\ Margin \in Nat /\ clock[c].caller \in Nat
    BY <2>1, RemoteAssumption DEF WorkerBudget
  <2> HIDE DEF b
  <2>3. b \in Nat /\ b + Margin = clock[c].caller
    BY <2>2, <1>2
  <2>4. /\ clock' \in [Reasoning -> [caller : Nat, worker : Nat, transit : Nat]]
        /\ clock'[c].worker + clock'[c].transit <= clock'[c].caller
        /\ \A d \in Reasoning : d # c => clock'[d] = clock[d]
    <3>1. clock'[c] = [clock[c] EXCEPT !.worker = b, !.transit = Margin]
      BY <2>1, <1>2
    <3>2. clock'[c] = [caller |-> clock[c].caller, worker |-> b, transit |-> Margin]
      BY <3>1, <2>1
    <3>3. \A d \in Reasoning : d # c => clock'[d] = clock[d]
      BY <2>1, <1>2
    <3>4. clock' = [d \in Reasoning |-> clock'[d]]
      BY <2>1, <1>2
    <3>5. clock'[c].worker + clock'[c].transit = b + Margin /\ clock'[c].caller = clock[c].caller
      BY <3>2
    <3>6. clock'[c].worker + clock'[c].transit <= clock'[c].caller
      BY <3>5, <2>2, <2>3
    <3>7. \A d \in Reasoning : clock'[d] \in [caller : Nat, worker : Nat, transit : Nat]
      BY <3>2, <3>3, <2>1, <2>2, <2>3
    <3> QED
      BY <3>3, <3>4, <3>6, <3>7
  <2>5. call[c].pc \notin {"wait"} \cup Ended /\ call'[c].pc \notin {"wait"} \cup Ended
    BY <1>2, <1>3, <1>4, PcKinds
  <2> SUFFICES ASSUME NEW d \in Reasoning
               PROVE  /\ call'[d].pc \notin {"wait"} \cup Ended => phase'[<<d, 1>>] = "none"
                      /\ call'[d].pc = "sent" => clock'[d].worker + clock'[d].transit <= clock'[d].caller
                      /\ call'[d].pc = "wait" /\ Working(d)' => clock'[d].worker <= clock'[d].caller
                      /\ call'[d].pc \in Ended /\ Working(d)' => clock'[d].worker = 0
    BY <2>4 DEF ClockInv
  <2>6. CASE d = c
    BY <2>4, <2>5, <2>6, <1>2 DEF NetInv, ClockInv
  <2>7. CASE d # c
    <3>1. d \in Call /\ call'[d] = call[d] /\ clock'[d] = clock[d] /\ (Working(d)' <=> Working(d))
      BY <2>4, <2>7, <1>2, <1>4 DEF Others, Call, Working
    <3> QED
      BY <3>1, <1>2 DEF NetInv, ClockInv
  <2> QED
    BY <2>6, <2>7
<1>8. y.pc \notin Ended \cup {"idle"} /\ x.pc \notin Ended \cup {"idle"} /\ c \notin Health
  BY <1>2, <1>3, PcKinds, RemoteAssumption
<1> QED
  BY <1>1, <1>2, <1>3, <1>5, <1>6, <1>7, <1>8, GoesOnCall DEF NetInv

\* ready() is answered.
LEMMA HealthKeeps ==
  ASSUME NetInv, NEW c \in Call, HealthAnswer(c)
  PROVE  NetInv'
<1> DEFINE x == call[c]
           how == IF pod[x.url].ready THEN "ok" ELSE "down"
           y == [x EXCEPT !.pc = how]
<1>1. /\ x \in Record /\ Own(c, x, posted[c], suspect[c])
  BY CallFacts
<1>2. /\ x.pc = "send" /\ c \in Health /\ line' = line
      /\ UNCHANGED <<fixed, addr, fresh, posted, suspect, clock, phase>>
      /\ call' = [call EXCEPT ![c] = y]
  BY DEF HealthAnswer, workerVars
<1>3. how \in Ended /\ c \notin Analysis /\ c \notin Reasoning
  BY <1>2, PcKinds, RemoteAssumption
<1> HIDE DEF how
<1>4. y.pc = how /\ Own(c, y, posted[c], suspect[c])
  <2>1. x.pc \notin Ended \cup {"idle"}
    BY <1>2, PcKinds
  <2>2. Own(c, y, posted[c], suspect[c])
    BY <2>1, <1>1, <1>3, GoesDown
  <2> QED
    BY <2>2, <1>1 DEF Record
<1>5. Others(c) /\ call'[c] = y
  BY <1>2, CallFacts
<1> HIDE DEF y
<1>6. line' \in [Client -> Seq(Call)] /\ LineInv'
  <2>1. call'[c].pc \in Seeking <=> call[c].pc \in Seeking
    BY <1>2, <1>3, <1>4, <1>5, PcKinds
  <2>2. call'[c].pc \notin {"list", "probe", "found"}
    BY <1>3, <1>4, <1>5, PcKinds
  <2> QED
    BY <2>1, <2>2, <1>2, <1>5, LineStands DEF NetInv
<1>7. ClockInv'
  BY <1>2, <1>3, <1>5, ClockOfOne
<1>8. CallMoves(c, y)
  BY <1>2, <1>4, <1>6 DEF CallMoves, NetInv, NetTypes
<1> QED
  BY <1>6, <1>7, <1>8, OneCall DEF NetInv

\* What a call posts is one of the requests a Pod may receive.
LEMMA PostIsRequest ==
  ASSUME NetInv, NEW c \in Call, c \notin Health, call[c].pc \in {"send", "sent", "wait"}
  PROVE  /\ Post(c) \in Req /\ call[c].url \in Pod
         /\ c \in Reasoning => Post(c) = <<c, 1>>
<1> DEFINE x == call[c]
           n == Len(posted[c])
<1>1. /\ x \in Record /\ Own(c, x, posted[c], suspect[c]) /\ x.tries \in Nat /\ n \in Nat
      /\ x.stage \in {"first", "second", "final"}
  BY CallFacts, LenProperties DEF Record
<1>2. x.pc \notin Ended \cup {"idle"}
  BY PcKinds
<1>3. x.url \in Pod
  BY <1>1 DEF Own, Addressed
<1>4. CASE c \in Analysis
  <2>1. n <= 3 * (x.tries - 1) + Before(x.stage) /\ x.tries <= RetryCount + 1 /\ Before(x.stage) \in {0, 1, 2}
    BY <1>1, <1>2, PcKinds DEF Own, Counted
  <2>2. RetryCount \in Nat /\ MaxPosts = 3 * (RetryCount + 1)
    BY GraphAssumption
  <2> HIDE DEF n, x
  <2>3. n + 1 \in 1 .. MaxPosts
    BY <2>1, <2>2, <1>1
  <2>4. Post(c) = <<c, n + 1>> /\ c \notin Reasoning
    BY <1>4, RemoteAssumption DEF Post, n
  <2>5. <<c, n + 1>> \in Analysis \X (1 .. MaxPosts)
    BY <1>4, <2>3
  <2> QED
    BY <1>3, <2>4, <2>5, RemoteAssumption DEF x
<1>5. CASE c \in Reasoning
  <2>1. posted[c] = << >>
    BY <1>1, <1>2, <1>5, RemoteAssumption DEF Own, Counted
  <2>2. Post(c) = <<c, 1>>
    BY <2>1 DEF Post
  <2> QED
    BY <1>3, <1>5, <2>2, RemoteAssumption
<1> QED
  BY <1>4, <1>5 DEF Call

\* The post is there: a recipe call is at work for no longer than its caller waits.
LEMMA DeliverKeeps ==
  ASSUME NetInv, WorkInv, NEW c \in Call, Deliver(c)
  PROVE  NetInv'
<1> DEFINE x == call[c]
           y == [x EXCEPT !.pc = "wait"]
<1>1. /\ x \in Record /\ Own(c, x, posted[c], suspect[c])
      /\ suspect \in [Call -> BOOLEAN]
      /\ addr \in [Client -> Pod \cup {None}] /\ fresh \in [Client -> BOOLEAN]
      /\ \A j \in Client : fresh[j] => addr[j] \in Pod
  BY CallFacts DEF NetInv, NetTypes
<1>2. /\ x.pc \in {"send", "sent"} /\ (c \in Reasoning => x.pc = "sent") /\ c \notin Health /\ line' = line
      /\ UNCHANGED <<fixed, addr, fresh, posted, suspect, clock>>
      /\ call' = [call EXCEPT ![c] = y]
      /\ phase' = [phase EXCEPT ![Post(c)] = "queued"]
  BY DEF Deliver, Sends, Arrive
<1>3. Post(c) \in Req /\ x.url \in Pod /\ (c \in Reasoning => Post(c) = <<c, 1>>)
  BY <1>2, PostIsRequest
<1>4. /\ y \in Record /\ y.pc = "wait" /\ y.url = x.url /\ y.tries = x.tries /\ y.stage = x.stage
  BY <1>1, PcKinds DEF Record
<1>5. Others(c) /\ call'[c] = y
  BY <1>2, CallFacts
<1> HIDE DEF y
<1>6. Addressed(y) /\ Cured(c, y, suspect'[c])
  BY <1>1, <1>2, <1>3, <1>4, PcKinds DEF Own, Addressed, Cured
<1>7. line' \in [Client -> Seq(Call)] /\ LineInv'
  <2>1. call'[c].pc \in Seeking <=> call[c].pc \in Seeking
    BY <1>2, <1>4, <1>5, PcKinds
  <2>2. call'[c].pc \notin {"list", "probe", "found"}
    BY <1>4, <1>5
  <2> QED
    BY <2>1, <2>2, <1>2, <1>5, LineStands DEF NetInv
<1>8. ClockInv'
  <2> SUFFICES ASSUME NEW d \in Reasoning
               PROVE  /\ call'[d].pc \notin {"wait"} \cup Ended => phase'[<<d, 1>>] = "none"
                      /\ call'[d].pc = "sent" => clock'[d].worker + clock'[d].transit <= clock'[d].caller
                      /\ call'[d].pc = "wait" /\ Working(d)' => clock'[d].worker <= clock'[d].caller
                      /\ call'[d].pc \in Ended /\ Working(d)' => clock'[d].worker = 0
    BY <1>2 DEF NetInv, ClockInv
  <2>1. CASE d = c
    <3>1. /\ clock[c] \in [caller : Nat, worker : Nat, transit : Nat]
          /\ clock[c].worker + clock[c].transit <= clock[c].caller
      BY <2>1, <1>2 DEF NetInv, ClockInv
    <3>2. clock[c].worker <= clock[c].caller
      BY <3>1
    <3>3. call'[d].pc = "wait" /\ "wait" \notin Ended
      BY <2>1, <1>4, <1>5, PcKinds
    <3> QED
      BY <3>1, <3>2, <3>3, <2>1, <1>2
  <2>2. CASE d # c
    <3>1. <<d, 1>> # Post(c) /\ <<d, 1>> \in Req
      BY <2>2, RemoteAssumption DEF Post
    <3>2. phase'[<<d, 1>>] = phase[<<d, 1>>]
      BY <3>1, <1>2, <1>3 DEF WorkInv, WorkTypes
    <3>3. call'[d] = call[d] /\ (Working(d)' <=> Working(d))
      BY <2>2, <3>2, <1>5 DEF Others, Call, Working
    <3> QED
      BY <3>2, <3>3, <1>2 DEF NetInv, ClockInv
  <2> QED
    BY <2>1, <2>2
<1>9. y.pc \notin Ended \cup {"idle"} /\ x.pc \notin Ended \cup {"idle"}
  BY <1>2, <1>4, PcKinds
<1> QED
  BY <1>1, <1>2, <1>4, <1>6, <1>7, <1>8, <1>9, GoesOnCall DEF NetInv

\* A post came to a: the call ends, or goes back to the lock.
LEMMA OutcomeKeeps ==
  ASSUME NetInv, NEW c \in Call, NEW a \in Told, Outcome(c, a), phase' = phase,
         call[c].pc \in {"send", "sent", "wait"}, c \in Reasoning => ~Working(c)
  PROVE  NetInv'
<1> DEFINE x == call[c]
           k == ClientOf(c)
           repeats == a \in {"lost", "5xx"} /\ c \in Analysis /\ Repeats(c, a)
           how == CASE a = "ok" -> "ok" [] a = "4xx" -> "bad" [] OTHER -> "down"
           stage == IF a = "5xx" THEN "final" ELSE "second"
           y == IF repeats THEN [x EXCEPT !.force = TRUE, !.stage = stage, !.pc = "lock"]
                           ELSE [x EXCEPT !.pc = how]
<1>1. /\ x \in Record /\ Own(c, x, posted[c], suspect[c]) /\ k \in Client
      /\ suspect \in [Call -> BOOLEAN] /\ posted \in [Call -> Seq(Told)]
      /\ addr \in [Client -> Pod \cup {None}] /\ fresh \in [Client -> BOOLEAN]
      /\ \A j \in Client : fresh[j] => addr[j] \in Pod
  BY CallFacts DEF NetInv, NetTypes
<1>2. posted' = [posted EXCEPT ![c] = Append(@, a)] /\ fixed' = fixed /\ clock' = clock
  BY DEF Outcome
<1>3. /\ repeats => /\ addr' = [addr EXCEPT ![k] = None] /\ fresh' = [fresh EXCEPT ![k] = FALSE]
                    /\ suspect' = [suspect EXCEPT ![c] = TRUE]
                    /\ line' = [line EXCEPT ![k] = Append(@, c)]
                    /\ call' = [call EXCEPT ![c] = y]
      /\ ~repeats => UNCHANGED <<addr, fresh, line, suspect>> /\ call' = [call EXCEPT ![c] = y]
  BY DEF Outcome, Invalidated, Again
<1>4. repeats => a \in {"lost", "5xx"} /\ c \in Analysis /\ x.stage # "final" /\ (a = "lost" => x.stage = "first")
  BY DEF Repeats
<1>5. /\ how \in Ended /\ stage \in {"first", "second", "final"}
      /\ how = CASE a = "ok" -> "ok" [] a = "4xx" -> "bad" [] OTHER -> "down"
  BY PcKinds DEF Told
<1>6. /\ y \in Record /\ y.tries = x.tries
      /\ repeats => y.pc = "lock" /\ y.force /\ y.stage = stage
      /\ ~repeats => y.pc = how
  BY <1>1, <1>5, PcKinds DEF Record
<1>7. call' = [call EXCEPT ![c] = y] /\ Others(c) /\ call'[c] = y
  BY <1>3, CallFacts
<1> HIDE DEF y, how, repeats
<1>8. /\ suspect' \in [Call -> BOOLEAN] /\ (suspect'[c] => suspect[c] \/ y.pc = "lock")
      /\ \A d \in Call : d # c => suspect'[d] = suspect[d]
  BY <1>1, <1>3, <1>6
<1>9. Own(c, y, Append(posted[c], a), suspect'[c])
  <2>1. CASE repeats
    BY <2>1, <1>1, <1>4, <1>6, <1>8, Answers
  <2>2. CASE ~repeats
    BY <2>2, <1>1, <1>5, <1>6, <1>8, Answers
  <2> QED
    BY <2>1, <2>2
<1>10. posted' \in [Call -> Seq(Told)] /\ posted'[c] = Append(posted[c], a)
       /\ \A d \in Call : d # c => posted'[d] = posted[d]
  BY <1>1, <1>2, AppendProperties
<1>11. call[c].pc \notin Seeking
  BY PcKinds
<1>12. line' \in [Client -> Seq(Call)] /\ LineInv'
  <2>1. CASE repeats
    BY <2>1, <1>3, <1>6, <1>7, <1>11, LineJoins DEF NetInv
  <2>2. CASE ~repeats
    <3>1. call'[c].pc \notin Seeking /\ call'[c].pc \notin {"list", "probe", "found"}
      BY <2>2, <1>5, <1>6, <1>7, PcKinds
    <3> QED
      BY <3>1, <2>2, <1>3, <1>7, <1>11, LineStands DEF NetInv
  <2> QED
    BY <2>1, <2>2
<1>13. ClockInv'
  <2>1. c \in Reasoning => ~repeats
    BY <1>4, RemoteAssumption
  <2> QED
    BY <2>1, <1>2, <1>5, <1>6, <1>7, ClockOfOne
<1>14. /\ addr' \in [Client -> Pod \cup {None}] /\ fresh' \in [Client -> BOOLEAN]
       /\ \A j \in Client : fresh'[j] => addr'[j] \in Pod
  <2>1. CASE repeats
    BY <2>1, <1>1, <1>3
  <2>2. CASE ~repeats
    BY <2>2, <1>1, <1>3
  <2> QED
    BY <2>1, <2>2
<1>15. CallMoves(c, y)
  BY <1>2, <1>7, <1>8, <1>9, <1>10, <1>12, <1>14 DEF CallMoves
<1> QED
  BY <1>12, <1>13, <1>15, OneCall DEF NetInv

LEMMA PostingKeeps ==
  ASSUME NetInv, WorkInv, NEW c \in Call, NoWorker(c) \/ Answered(c) \/ Unreadable(c) \/ Impatient(c)
  PROVE  NetInv'
<1>1. phase' = phase
  BY DEF NoWorker, Answered, Unreadable, Impatient, workerVars
<1>2. CASE NoWorker(c)
  <2>1. /\ call[c].pc \in {"send", "sent"} /\ (c \in Reasoning => call[c].pc = "sent")
        /\ \E a \in Told : Outcome(c, a)
    BY <1>2 DEF NoWorker, Sends, Told
  <2>2. c \in Reasoning => ~Working(c)
    BY <2>1, PcKinds, NotAtWork DEF NetInv
  <2> QED
    BY <2>1, <2>2, <1>1, OutcomeKeeps
<1>3. CASE Answered(c) \/ Unreadable(c)
  <2>1. call[c].pc = "wait" /\ phase[Post(c)] = "over"
    BY <1>3 DEF Answered, Unreadable
  <2>2. c \notin Health
    <3>1. Own(c, call[c], posted[c], suspect[c])
      BY CallFacts
    <3> QED
      BY <3>1, <2>1 DEF Own, Counted
  <2>3. Post(c) \in Req /\ (c \in Reasoning => Post(c) = <<c, 1>>)
    BY <2>1, <2>2, PostIsRequest
  <2>4. answer[Post(c)] \in Told
    BY <2>1, <2>3 DEF WorkInv, PlaceInv
  <2>5. \E a \in Told : Outcome(c, a)
    <3>1. "lost" \in Told /\ "5xx" \in Told /\ "unread" \in Told
      BY DEF Told
    <3> QED
      BY <3>1, <2>4, <1>3 DEF Answered, Unreadable
  <2>6. c \in Reasoning => ~Working(c)
    BY <2>1, <2>3 DEF Working, Active
  <2> QED
    BY <2>1, <2>5, <2>6, <1>1, OutcomeKeeps
<1>4. CASE Impatient(c)
  <2>1. call[c].pc = "wait" /\ c \notin Reasoning /\ Outcome(c, "lost") /\ "lost" \in Told
    BY <1>4, RemoteAssumption DEF Impatient, Told
  <2> QED
    BY <2>1, <1>1, OutcomeKeeps
<1> QED
  BY <1>2, <1>3, <1>4

\* A tick of the clocks: none of them is due.
LEMMA TickKeeps ==
  ASSUME NetInv, Tick
  PROVE  NetInv'
<1>1. /\ UNCHANGED <<fixed, addr, fresh, line, call, posted, suspect, phase>>
      /\ \A c \in Reasoning : ~Due(c)
      /\ clock' = [c \in Reasoning |->
            [caller  |-> IF Running(c) THEN clock[c].caller - 1 ELSE clock[c].caller,
             worker  |-> IF Working(c) THEN clock[c].worker - 1 ELSE clock[c].worker,
             transit |-> IF call[c].pc = "sent" THEN clock[c].transit - 1 ELSE clock[c].transit]]
  BY DEF Tick, workerVars
<1>2. NetTypes' /\ CallInv' /\ LineInv'
  BY <1>1 DEF NetInv, NetTypes, CallInv, LineInv
<1>3. ASSUME NEW c \in Reasoning
      PROVE  /\ clock'[c] \in [caller : Nat, worker : Nat, transit : Nat]
             /\ call'[c].pc \notin {"wait"} \cup Ended => phase'[<<c, 1>>] = "none"
             /\ call'[c].pc = "sent" => clock'[c].worker + clock'[c].transit <= clock'[c].caller
             /\ call'[c].pc = "wait" /\ Working(c)' => clock'[c].worker <= clock'[c].caller
             /\ call'[c].pc \in Ended /\ Working(c)' => clock'[c].worker = 0
  <2> DEFINE u == clock[c].caller
             w == clock[c].worker
             t == clock[c].transit
             u1 == IF Running(c) THEN u - 1 ELSE u
             w1 == IF Working(c) THEN w - 1 ELSE w
             t1 == IF call[c].pc = "sent" THEN t - 1 ELSE t
  <2>1. u \in Nat /\ w \in Nat /\ t \in Nat
    BY DEF NetInv, ClockInv
  <2>2. /\ Running(c) => u # 0
        /\ Working(c) => w # 0
        /\ call[c].pc = "sent" => t # 0
    BY <1>1 DEF Due
  <2>3. clock'[c] = [caller |-> u1, worker |-> w1, transit |-> t1]
    BY <1>1
  <2>4. /\ call[c].pc \notin {"wait"} \cup Ended => phase[<<c, 1>>] = "none"
        /\ call[c].pc = "sent" => w + t <= u
        /\ call[c].pc = "wait" /\ Working(c) => w <= u
        /\ call[c].pc \in Ended /\ Working(c) => w = 0
    BY DEF NetInv, ClockInv
  <2>5. call'[c] = call[c] /\ phase'[<<c, 1>>] = phase[<<c, 1>>] /\ (Working(c)' <=> Working(c))
    BY <1>1 DEF Working
  <2> HIDE DEF u, w, t
  <2>6. u1 \in Nat /\ w1 \in Nat /\ t1 \in Nat
    BY <2>1, <2>2
  <2>7. CASE call[c].pc = "sent"
    <3>1. Running(c) /\ ~Working(c)
      BY <2>7, PcKinds, NotAtWork DEF Running, NetInv
    <3>2. w1 + t1 <= u1
      BY <3>1, <2>1, <2>4, <2>7
    <3> QED
      BY <3>1, <3>2, <2>3, <2>4, <2>5, <2>6, <2>7, PcKinds
  <2>8. CASE call[c].pc = "wait"
    <3>1. Running(c)
      BY <2>8, PcKinds DEF Running
    <3>2. Working(c) => w1 <= u1
      BY <3>1, <2>1, <2>4, <2>8
    <3> QED
      BY <3>1, <3>2, <2>3, <2>4, <2>5, <2>6, <2>8, PcKinds
  <2>9. CASE call[c].pc \notin {"sent", "wait"}
    <3>1. call[c].pc \in Ended => ~Working(c)
      BY <2>2, <2>4
    <3> QED
      BY <3>1, <2>3, <2>4, <2>5, <2>6, <2>9
  <2> QED
    BY <2>7, <2>8, <2>9
<1>4. ClockInv'
  <2>1. clock' = [c \in Reasoning |-> clock'[c]]
    BY <1>1
  <2> QED
    BY <1>3, <2>1 DEF ClockInv
<1> QED
  BY <1>2, <1>4 DEF NetInv

-----------------------------------------------------------------------------
(* The whole.                                                              *)

IInv == WorkInv /\ PodInv /\ NetInv

LEMMA InitKeeps == Init => IInv
<1> SUFFICES ASSUME Init PROVE IInv
  OBVIOUS
<1>1. scene \in Scene /\ fixed = scene.fixed /\ pod = scene.pods /\ script = IdleScript /\ RemoteInit /\ WorkerInit
  BY DEF Init
<1>2. /\ scene.fixed \in Pod \cup {None}
      /\ scene.pods \in [Pod -> [status : Status, version : Nat, ready : BOOLEAN]]
      /\ \A p \in Pod : scene.pods[p].ready => scene.pods[p].status = "RUNNING"
  BY <1>1, SceneAssumption
<1>3. \A r \in Req : phase[r] = "none"
  BY <1>1 DEF WorkerInit
<1>4. "none" \in Phases /\ "none" \notin Active /\ "none" # "over"
  BY DEF Phases, Active
<1>5. WorkInv
  <2>1. ASSUME NEW k \in Kind PROVE SemOK(Idle[k], k) /\ Members(Idle[k]) = {}
    <3>1. Idle[k] = [held |-> {}, queue |-> << >>]
      BY DEF Idle, Empty
    <3>2. Cardinality({}) = 0 /\ Slots[k] \in Nat
      BY FS_EmptySet, WorkerAssumption
    <3>3. Range(<< >>) = {} /\ IsInjective(<< >>) /\ << >> \in Seq(Req)
      BY DEF Range, IsInjective
    <3> QED
      BY <3>1, <3>2, <3>3 DEF SemOK, Members
  <2>2. Idle \in [Kind -> [held : SUBSET Req, queue : Seq(Req)]]
    BY DEF Idle, Empty
  <2>3. WorkTypes
    BY <1>1, <1>4, <2>2 DEF WorkTypes, WorkerInit
  <2>4. \A p \in Pod : sem[p] = Idle
    BY <1>1 DEF WorkerInit
  <2>5. SlotInv /\ PlaceInv
    BY <1>3, <1>4, <2>1, <2>4 DEF SlotInv, PlaceInv
  <2> QED
    BY <2>3, <2>5 DEF WorkInv
<1>6. PodInv
  <2>1. PodTypes
    BY <1>1, <1>2 DEF PodTypes, IdleScript, Steps
  <2>2. ReadyInv /\ ServeInv
    BY <1>1, <1>2, <1>3, <1>4 DEF ReadyInv, ServeInv
  <2>3. ScriptInv
    BY <1>1 DEF ScriptInv, IdleScript
  <2> QED
    BY <2>1, <2>2, <2>3 DEF PodInv
<1>7. NetInv
  <2>1. Quiet \in Record /\ Quiet.pc = "idle" /\ Quiet.tries = 0
    <3>1. << >> \in Seq(Pod) /\ {} \in SUBSET Call /\ "idle" \in Pcs
      BY PcKinds
    <3> QED
      BY <3>1 DEF Quiet, Record
  <2>2. /\ call = [c \in Call |-> Quiet] /\ posted = [c \in Call |-> << >>]
        /\ suspect = [c \in Call |-> FALSE] /\ line = [k \in Client |-> << >>]
        /\ addr = [k \in Client |-> None] /\ fresh = [k \in Client |-> FALSE]
        /\ clock = [c \in Reasoning |-> [caller |-> Budget, worker |-> 0, transit |-> 0]]
    BY <1>1 DEF RemoteInit
  <2>3. << >> \in Seq(Told) /\ << >> \in Seq(Call)
    OBVIOUS
  <2>4. NetTypes
    BY <2>1, <2>2, <2>3, <1>1, <1>2 DEF NetTypes
  <2>5. \A c \in Call : Own(c, Quiet, << >>, FALSE)
    <3>1. Addressed(Quiet) /\ \A c \in Call : Cured(c, Quiet, FALSE)
      BY <2>1 DEF Addressed, Cured
    <3>2. RetryCount \in Nat /\ "idle" \notin Ended
      BY GraphAssumption, PcKinds
    <3>3. \A c \in Call : Counted(c, Quiet, << >>)
      BY <2>1, <3>2 DEF Counted
    <3>4. \A c \in Call : Stopped(c, Quiet, << >>)
      BY <2>1 DEF Stopped
    <3> QED
      BY <2>1, <2>3, <3>1, <3>3, <3>4 DEF Own
  <2>6. CallInv
    BY <2>2, <2>5 DEF CallInv
  <2>7. LineInv
    <3>1. Range(<< >>) = {} /\ IsInjective(<< >>) /\ "idle" \notin Seeking
      BY DEF Range, IsInjective, Seeking
    <3>2. \A k \in Client : line[k] = << >>
      BY <2>2
    <3>3. \A c \in Call : call[c].pc = "idle"
      BY <2>1, <2>2
    <3> QED
      BY <3>1, <3>2, <3>3 DEF LineInv
  <2>8. ClockInv
    <3>1. Budget \in Nat
      BY RemoteAssumption
    <3>2. clock \in [Reasoning -> [caller : Nat, worker : Nat, transit : Nat]]
      BY <2>2, <3>1
    <3>3. ASSUME NEW c \in Reasoning PROVE call[c].pc = "idle" /\ phase[<<c, 1>>] = "none"
      BY <2>1, <2>2, <1>3, RemoteAssumption DEF Call
    <3>4. "idle" \notin Ended
      BY PcKinds
    <3> QED
      BY <3>2, <3>3, <3>4 DEF ClockInv
  <2> QED
    BY <2>4, <2>6, <2>7, <2>8 DEF NetInv
<1> QED
  BY <1>5, <1>6, <1>7 DEF IInv

\* A step of the calls alone.
LEMMA Quietly ==
  ASSUME IInv, NetInv', UNCHANGED <<podVars, workerVars>>
  PROVE  IInv' /\ Safely
<1>1. UNCHANGED <<sem, phase, at, answer>> /\ UNCHANGED podVars
  BY DEF workerVars
<1>2. WorkInv'
  BY <1>1, NothingMoves DEF IInv
<1>3. \A r \in Req : phase'[r] \in Active => at'[r] \in Pod /\ phase[r] \in Active /\ at'[r] = at[r]
  BY <1>1 DEF IInv, PodInv, ServeInv
<1>4. PodInv' /\ Safely
  BY <1>1, <1>3, PodsStand DEF IInv
<1> QED
  BY <1>2, <1>4 DEF IInv

LEMMA DeliverHolds ==
  ASSUME IInv, NEW c \in Call, Deliver(c)
  PROVE  IInv' /\ Safely
<1> DEFINE r == Post(c)
           p == call[c].url
<1>1. r \in Req /\ p \in Pod
  BY PostIsRequest DEF IInv, Deliver, Sends
<1>2. Arrive(p, r) /\ pod[p].ready /\ UNCHANGED podVars
  BY DEF Deliver
<1> HIDE DEF r, p
<1>3. WorkInv'
  BY <1>1, <1>2, ArriveKeeps DEF IInv
<1>4. NetInv'
  BY DeliverKeeps DEF IInv
<1>5. /\ at' = [at EXCEPT ![r] = p] /\ phase' = [phase EXCEPT ![r] = "queued"]
      /\ at \in [Req -> Pod \cup {None}] /\ phase \in [Req -> Phases]
  BY <1>2 DEF Arrive, IInv, WorkInv, WorkTypes
<1>6. ASSUME NEW x \in Req, phase'[x] \in Active
      PROVE  at'[x] \in Pod /\ ((phase[x] \in Active /\ at'[x] = at[x]) \/ pod[at'[x]].ready)
  <2>1. CASE x = r
    BY <2>1, <1>1, <1>2, <1>5
  <2>2. CASE x # r
    BY <2>2, <1>5, <1>6 DEF IInv, PodInv, ServeInv
  <2> QED
    BY <2>1, <2>2
<1>7. PodInv' /\ Safely
  BY <1>2, <1>6, PodsStand DEF IInv
<1> QED
  BY <1>3, <1>4, <1>7 DEF IInv

LEMMA BeginKeeps ==
  ASSUME NetInv, NEW c \in Call, Begin(c) \/ Retry(c)
  PROVE  NetInv'
<1>1. /\ Own(c, call[c], posted[c], suspect[c]) /\ call[c] \in Record /\ suspect \in [Call -> BOOLEAN]
  BY CallFacts DEF NetInv, NetTypes
<1>2. CASE Begin(c)
  <2>1. call[c].pc = "idle" /\ Seek(c, [Quiet EXCEPT !.tries = 1])
        /\ UNCHANGED <<fixed, addr, fresh, posted, suspect, clock, phase>>
    BY <1>2 DEF Begin, workerVars
  <2>2. ~suspect[c]
    BY <2>1, <1>1, PcKinds DEF Own, Cured
  <2>3. suspect' = [suspect EXCEPT ![c] = FALSE]
    BY <2>1, <2>2, <1>1
  <2> QED
    BY <2>1, <2>3, SeekKeeps
<1>3. CASE Retry(c)
  <2> DEFINE n == call[c].tries + 1
  <2>1. /\ call[c].pc = "down" /\ call[c].tries <= RetryCount /\ c \in Analysis
        /\ Seek(c, [Quiet EXCEPT !.tries = n]) /\ suspect' = [suspect EXCEPT ![c] = FALSE]
        /\ UNCHANGED <<fixed, addr, fresh, posted, clock, phase>>
    BY <1>3 DEF Retry, MayRetry, workerVars
  <2>2. n \in Nat /\ n = call[c].tries + 1
    BY <1>1 DEF Record
  <2> HIDE DEF n
  <2> QED
    BY <2>1, <2>2, SeekKeeps
<1> QED
  BY <1>2, <1>3

\* Every step of a call.
LEMMA CallStepKeeps ==
  ASSUME IInv, NEW c \in Call, CallStep(c) \/ ListFails(c) \/ Impatient(c) \/ Unreadable(c)
  PROVE  IInv' /\ Safely
<1>0. NetInv /\ WorkInv
  BY DEF IInv
<1>1. CASE Begin(c) \/ Retry(c)
  <2>1. UNCHANGED <<podVars, workerVars>>
    BY <1>1 DEF Begin, Retry
  <2> QED
    BY <2>1, <1>0, <1>1, BeginKeeps, Quietly
<1>2. CASE ListFails(c) \/ NoneReady(c) \/ BudgetGone(c) \/ GivesUp(c)
  <2>1. UNCHANGED <<podVars, workerVars>>
    BY <1>2 DEF ListFails, NoneReady, BudgetGone, GivesUp
  <2> QED
    BY <2>1, <1>0, <1>2, FailingKeeps, Quietly
<1>3. CASE Acquire(c)
  <2>1. UNCHANGED <<podVars, workerVars>>
    BY <1>3 DEF Acquire
  <2> QED
    BY <2>1, <1>0, <1>3, AcquireKeeps, Quietly
<1>4. CASE List(c)
  <2>1. UNCHANGED <<podVars, workerVars>>
    BY <1>4 DEF List
  <2> QED
    BY <2>1, <1>0, <1>4, ListKeeps, Quietly
<1>5. CASE Probe(c)
  <2>1. UNCHANGED <<podVars, workerVars>>
    BY <1>5 DEF Probe
  <2> QED
    BY <2>1, <1>0, <1>5, ProbeKeeps, Quietly
<1>6. CASE Found(c)
  <2>1. UNCHANGED <<podVars, workerVars>>
    BY <1>6 DEF Found
  <2> QED
    BY <2>1, <1>0, <1>6, FoundKeeps, Quietly
<1>7. CASE Assign(c)
  <2>1. UNCHANGED <<podVars, workerVars>>
    BY <1>7 DEF Assign
  <2> QED
    BY <2>1, <1>0, <1>7, AssignKeeps, Quietly
<1>8. CASE HealthAnswer(c)
  <2>1. UNCHANGED <<podVars, workerVars>>
    BY <1>8 DEF HealthAnswer
  <2> QED
    BY <2>1, <1>0, <1>8, HealthKeeps, Quietly
<1>9. CASE NoWorker(c) \/ Answered(c) \/ Unreadable(c) \/ Impatient(c)
  <2>1. UNCHANGED <<podVars, workerVars>>
    BY <1>9 DEF NoWorker, Answered, Unreadable, Impatient, Outcome
  <2> QED
    BY <2>1, <1>0, <1>9, PostingKeeps, Quietly
<1>10. CASE Deliver(c)
  BY <1>10, DeliverHolds
<1> QED
  BY <1>1, <1>2, <1>3, <1>4, <1>5, <1>6, <1>7, <1>8, <1>9, <1>10 DEF CallStep

\* Every step of a worker.
LEMMA WorkStepHolds ==
  ASSUME IInv, NEW r \in Req, WorkerStep(r) \/ WorkerFault(r) \/ Timeout(r), UNCHANGED <<netVars, podVars>>
  PROVE  IInv' /\ Safely
<1>1. WorkInv' /\ Falls
  BY WorkerStepKeeps DEF IInv
<1>2. /\ UNCHANGED <<fixed, addr, fresh, line, call, posted, suspect, clock>>
      /\ UNCHANGED podVars
  BY DEF netVars
<1>3. NetInv'
  <2>1. /\ addr' \in [Client -> Pod \cup {None}] /\ fresh' \in [Client -> BOOLEAN]
        /\ \A k \in Client : fresh'[k] => addr'[k] \in Pod
    BY <1>2 DEF IInv, NetInv, NetTypes
  <2> QED
    BY <2>1, <1>1, <1>2, NetStands DEF IInv, Falls
<1>4. \A x \in Req : phase'[x] \in Active => at'[x] \in Pod /\ phase[x] \in Active /\ at'[x] = at[x]
  BY <1>1 DEF Falls, IInv, PodInv, ServeInv
<1>5. PodInv' /\ Safely
  BY <1>2, <1>4, PodsStand DEF IInv
<1> QED
  BY <1>1, <1>3, <1>5 DEF IInv

\* Every step of the script and of RunPod.
LEMMA PodStepHolds ==
  ASSUME IInv, UNCHANGED netVars,
         \/ ScriptStep \/ ScriptTrouble
         \/ \E p \in Pod : Warm(p) \/ StartRunning(p) \/ StartStopped(p) \/ Stop(p) \/ Deploy(p) \/ Reset(p)
  PROVE  IInv' /\ Safely
<1>1. ASSUME PodInv', Safely, WorkInv', Falls PROVE IInv' /\ Safely
  <2>1. UNCHANGED <<fixed, addr, fresh, line, call, posted, suspect, clock>>
    BY DEF netVars
  <2>2. /\ addr' \in [Client -> Pod \cup {None}] /\ fresh' \in [Client -> BOOLEAN]
        /\ \A k \in Client : fresh'[k] => addr'[k] \in Pod
    BY <2>1 DEF IInv, NetInv, NetTypes
  <2>3. NetInv'
    BY <2>1, <2>2, <1>1, NetStands DEF IInv, Falls
  <2> QED
    BY <2>3, <1>1 DEF IInv
<1>2. ASSUME UNCHANGED workerVars PROVE WorkInv' /\ Falls
  BY <1>2, NothingMoves DEF IInv, workerVars
<1>3. CASE \/ \E p \in Pod : StartRunning(p) \/ StartStopped(p)
           \/ StartRefused \/ MigrationFails \/ ScriptDies
  <2>1. UNCHANGED workerVars
    BY <1>3 DEF StartRunning, StartStopped, StartRefused, MigrationFails, ScriptDies
  <2> QED
    BY <2>1, <1>1, <1>2, <1>3, ScriptTurns DEF IInv
<1>4. CASE Started \/ StartUnheard \/ Rename \/ \E t \in Pod : Migrated(t) \/ Warm(t)
  <2>1. UNCHANGED workerVars
    BY <1>4 DEF Started, StartUnheard, Rename, Migrated, Warm
  <2> QED
    BY <2>1, <1>1, <1>2, <1>4, PodsRise DEF IInv
<1>5. CASE ReadySeen
  <2>1. UNCHANGED workerVars
    BY <1>5 DEF ReadySeen
  <2> QED
    BY <2>1, <1>1, <1>2, <1>5, PodsGo DEF IInv
<1>6. ASSUME NEW p \in Pod, Stop(p) \/ Deploy(p) \/ Reset(p) PROVE IInv' /\ Safely
  <2>1. Lost(p)
    BY <1>6 DEF Stop, Deploy, Reset
  <2>2. WorkInv' /\ Falls
    BY <2>1, LostKeeps DEF IInv
  <2> QED
    BY <2>2, <1>1, <1>6, PodFalls DEF IInv
<1>7. CASE TargetReady \/ TerminateUnheard
  <2>1. Lost(script.of) /\ script.of \in Pod
    BY <1>7 DEF TargetReady, TerminateUnheard, Terminated, IInv, PodInv, ScriptInv
  <2>2. WorkInv' /\ Falls
    BY <2>1, LostKeeps DEF IInv
  <2> QED
    BY <2>2, <1>1, <1>7, SourceGoes DEF IInv
<1> QED
  BY <1>3, <1>4, <1>5, <1>6, <1>7 DEF ScriptStep, ScriptTrouble

LEMMA TickHolds ==
  ASSUME IInv, Tick
  PROVE  IInv' /\ Safely
<1>1. UNCHANGED <<podVars, workerVars>>
  BY DEF Tick
<1> QED
  BY <1>1, TickKeeps, Quietly DEF IInv

LEMMA StepKeeps ==
  ASSUME IInv, [Next]_allVars
  PROVE  IInv' /\ Safely
<1>1. CASE System
  <2>1. ASSUME NEW c \in Call, CallStep(c) PROVE IInv' /\ Safely
    BY <2>1, CallStepKeeps
  <2>2. CASE Tick
    BY <2>2, TickHolds
  <2>3. ASSUME NEW c \in Reasoning, BudgetEnds(c) PROVE IInv' /\ Safely
    <3>1. <<c, 1>> \in Req /\ Timeout(<<c, 1>>) /\ UNCHANGED <<netVars, podVars>>
      BY <2>3, RemoteAssumption DEF BudgetEnds
    <3> QED
      BY <3>1, WorkStepHolds
  <2>4. ASSUME NEW r \in Req, WorkerStep(r), UNCHANGED <<netVars, podVars>> PROVE IInv' /\ Safely
    BY <2>4, WorkStepHolds
  <2> QED
    BY <2>1, <2>2, <2>3, <2>4, <1>1 DEF System
<1>2. ASSUME ScriptStep \/ ScriptTrouble, UNCHANGED netVars PROVE IInv' /\ Safely
  BY <1>2, PodStepHolds
<1>3. ASSUME NEW p \in Pod, UNCHANGED netVars,
             Warm(p) \/ StartRunning(p) \/ StartStopped(p) \/ Stop(p) \/ Deploy(p) \/ Reset(p)
      PROVE  IInv' /\ Safely
  BY <1>3, PodStepHolds
<1>4. ASSUME NEW k \in Client, TtlPasses(k) PROVE IInv' /\ Safely
  <2>1. UNCHANGED <<podVars, workerVars>>
    BY <1>4 DEF TtlPasses
  <2> QED
    BY <2>1, <1>4, TtlKeeps, Quietly DEF IInv
<1>5. ASSUME NEW c \in Call, ListFails(c) \/ Impatient(c) \/ Unreadable(c) PROVE IInv' /\ Safely
  BY <1>5, CallStepKeeps
<1>6. ASSUME NEW r \in Req, WorkerFault(r), UNCHANGED <<netVars, podVars>> PROVE IInv' /\ Safely
  BY <1>6, WorkStepHolds
<1>7. CASE UNCHANGED allVars
  <2>1. UNCHANGED <<netVars, podVars, workerVars>>
    BY <1>7 DEF allVars, remoteVars
  <2>2. /\ UNCHANGED <<fixed, addr, fresh, line, call, posted, suspect, clock>> /\ phase' = phase
    BY <2>1 DEF netVars, workerVars
  <2>3. NetInv'
    BY <2>2, NetStands DEF IInv, NetInv, NetTypes
  <2> QED
    BY <2>1, <2>3, Quietly
<1> QED
  BY <1>1, <1>2, <1>3, <1>4, <1>5, <1>6, <1>7 DEF Next

-----------------------------------------------------------------------------
(* The theorems.                                                           *)

THEOREM InferenceInv == Spec => []IInv
<1>1. IInv /\ [Next]_allVars => IInv'
  BY StepKeeps
<1> QED
  BY InitKeeps, <1>1, PTL DEF Spec

\* The slots of every worker go with the work (engine.py): whoever has ended,
\* was cancelled or was lost holds and awaits nothing, and no slot lies idle
\* while somebody waits for it.
THEOREM SlotsSpec == Spec => []SlotsFollowWork
<1>1. IInv => SlotsFollowWork
  <2> SUFFICES ASSUME IInv, NEW p \in Pod, NEW k \in Kind
               PROVE  LET s == sem[p][k] IN
                      /\ Cardinality(s.held) <= Slots[k]
                      /\ s.queue # << >> => Cardinality(s.held) = Slots[k]
                      /\ \A r \in s.held \cup Range(s.queue) :
                          /\ at[r] = p
                          /\ CASE k = "inference" -> phase[r] \in Active
                               [] k = "ocr" -> phase[r] = "ocr"
                               [] k = "llm" -> phase[r] \in {"llm", "crops"}
                          /\ phase[r] \in Active \ {"queued"} => r \in sem[p]["inference"].held
    BY DEF SlotsFollowWork
  <2>1. SemOK(sem[p][k], k)
    BY DEF IInv, WorkInv, SlotInv
  <2>2. ASSUME NEW r \in Members(sem[p][k])
        PROVE  r \in Req /\ at[r] = p /\ phase[r] \in PhasesOf(k)
    <3>1. sem[p][k] \in [held : SUBSET Req, queue : Seq(Req)]
      BY <2>1 DEF SemOK
    <3>2. r \in Req
      BY <3>1, <2>2 DEF Members, Range
    <3> QED
      BY <3>2, <2>2 DEF IInv, WorkInv, PlaceInv
  <2>3. ASSUME NEW r \in Members(sem[p][k]), phase[r] \in Active \ {"queued"}
        PROVE  r \in sem[p]["inference"].held
    BY <2>2, <2>3 DEF IInv, WorkInv, PlaceInv
  <2>4. k \in {"inference", "ocr", "llm"}
    BY DEF Kind
  <2> QED
    BY <2>1, <2>2, <2>3, <2>4, PhasesOfKind DEF SemOK, Members
<1> QED
  BY <1>1, InferenceInv, PTL

\* A recipe call that its caller has given up keeps no slot of a worker any
\* longer than asyncio.timeout() takes to fire (remote_inference.py).
THEOREM ReasoningSpec == Spec => []ReasoningEndsFirst
<1>1. IInv => ReasoningEndsFirst
  BY DEF IInv, NetInv, ClockInv, ReasoningEndsFirst
<1> QED
  BY <1>1, InferenceInv, PTL

\* A post is repeated only after a connection error, a timeout, a 5xx or a body
\* that could not be read, and after the last in a new attempt alone; at most
\* three times an attempt; and an analysis that ends well ends with the answer
\* to its last post (remote_inference.py, analysis_graph.py).
THEOREM RepeatsSpec == Spec => []RepeatsAreJustified
<1>1. IInv => RepeatsAreJustified
  <2> SUFFICES ASSUME IInv, NEW c \in Call
               PROVE  /\ Len(posted[c]) <= 3 * call[c].tries
                      /\ Running(c) /\ call[c].stage # "first" => Last(posted[c]) \in {"lost", "5xx"}
                      /\ \A i \in 1 .. Len(posted[c]) : posted[c][i] \in {"ok", "4xx"} =>
                          i = Len(posted[c]) /\ call[c].pc \in {"ok", "bad"}
                      /\ c \in Analysis /\ call[c].pc = "ok" => Last(posted[c]) = "ok"
    BY DEF RepeatsAreJustified
  <2>1. /\ Own(c, call[c], posted[c], suspect[c])
        /\ call[c].tries \in Nat /\ call[c].stage \in {"first", "second", "final"}
        /\ Len(posted[c]) \in Nat
    BY CallFacts, LenProperties DEF IInv, Record
  <2>2. Len(posted[c]) <= 3 * call[c].tries
    <3>1. CASE call[c].pc = "idle"
      <4>1. posted[c] = << >> /\ Len(posted[c]) = 0
        BY <2>1, <3>1 DEF Own, Counted
      <4> QED
        BY <4>1, <2>1
    <3>2. CASE call[c].pc \in Ended
      BY <2>1, <3>2 DEF Own, Counted
    <3>3. CASE call[c].pc \notin Ended \cup {"idle"}
      <4>1. Len(posted[c]) <= 3 * (call[c].tries - 1) + Before(call[c].stage)
            /\ Before(call[c].stage) \in {0, 1, 2}
        BY <2>1, <3>3, PcKinds DEF Own, Counted
      <4> QED
        BY <4>1, <2>1
    <3> QED
      BY <3>1, <3>2, <3>3
  <2> QED
    BY <2>1, <2>2 DEF Own, Stopped, Running
<1> QED
  BY <1>1, InferenceInv, PTL

\* A post that failed is not repeated before a worker was seen ready after it.
THEOREM RepostSpec == Spec => []RepostIsRediscovered
<1>1. IInv => RepostIsRediscovered
  <2> SUFFICES ASSUME IInv, NEW c \in Call, call[c].pc = "send", suspect[c] PROVE FALSE
    BY DEF RepostIsRediscovered
  <2>1. Own(c, call[c], posted[c], suspect[c])
    BY CallFacts DEF IInv
  <2> QED
    BY <2>1, PcKinds DEF Own, Cured
<1> QED
  BY <1>1, InferenceInv, PTL

\* The script removes a Pod only once a newer one answers as ready, and only if
\* it serves nothing; the one exception is the source of a migration that runs
\* all the same (control_runpod.py).
THEOREM RemovalSpec == Spec => RemovalLosesNothing
<1>1. IInv /\ [Next]_allVars => [Safely]_allVars
  BY StepKeeps
<1> QED
  BY <1>1, InferenceInv, PTL DEF Spec, RemovalLosesNothing, Safely

\* Of the callers of one client one at a time lists and asks the workers, and
\* it is the first in the lock's line; the others wait in theirs.
DiscoveryIsExclusive ==
    \A c, d \in Call :
        /\ call[c].pc \in {"list", "probe", "found"} => line[ClientOf(c)] # << >> /\ Head(line[ClientOf(c)]) = c
        /\ /\ call[c].pc \in {"list", "probe", "found"} /\ call[d].pc \in {"list", "probe", "found"}
           /\ ClientOf(c) = ClientOf(d)
           => c = d

\* The discovery lock excludes, however a call under it ends (remote_inference.py).
THEOREM DiscoverySpec == Spec => []DiscoveryIsExclusive
<1>1. IInv => DiscoveryIsExclusive
  <2> SUFFICES ASSUME IInv PROVE DiscoveryIsExclusive
    OBVIOUS
  <2>1. ASSUME NEW c \in Call, call[c].pc \in {"list", "probe", "found"}
        PROVE  line[ClientOf(c)] # << >> /\ Head(line[ClientOf(c)]) = c
    <3>1. c \in Range(line[ClientOf(c)]) /\ Head(line[ClientOf(c)]) = c
      BY <2>1, ClientIs DEF IInv, NetInv, LineInv, Seeking
    <3> QED
      BY <3>1 DEF Range
  <2> QED
    BY <2>1 DEF DiscoveryIsExclusive
<1> QED
  BY <1>1, InferenceInv, PTL
=============================================================================
