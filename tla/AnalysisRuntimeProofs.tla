----------------------- MODULE AnalysisRuntimeProofs -----------------------
(* Proofs about AnalysisRuntime, for any number of ids, requests,          *)
(* consumers, handlers and any limits.                                     *)
EXTENDS AnalysisRuntime, FiniteSetTheorems, WellFoundedInduction, TLAPS

(***************************************************************************)
(* The store's operators.                                                  *)
(***************************************************************************)

\* prune() only removes records.
LEMMA KeptSubset ==
    ASSUME NEW S, NEW O, NEW T
    PROVE  Kept(S, O, T) \subseteq S
BY DEF Kept

\* prune() never removes a record that is neither terminal nor expired.
LEMMA KeptLive ==
    ASSUME NEW S, NEW O, NEW T, NEW a \in S, a \notin T, a \notin expired
    PROVE  a \in Kept(S, O, T)
BY DEF Kept, Evicted

\* move_to_end() reorders records of the table only.
LEMMA MovedType ==
    ASSUME NEW S \in SUBSET AnalysisId, NEW a,
           NEW O \in SUBSET (AnalysisId \X AnalysisId)
    PROVE  Moved(a, S, O) \in SUBSET (AnalysisId \X AnalysisId)
BY DEF Moved

\* Removing index entries leaves an index.
LEMMA WithoutIndexType ==
    ASSUME NEW gone, NEW req,
           NEW I \in [RequestId -> AnalysisId \cup {None}]
    PROVE  WithoutIndex(gone, I, req) \in [RequestId -> AnalysisId \cup {None}]
BY DEF WithoutIndex

\* The table a store call leaves is well typed.
LEMMA TableTyped ==
    ASSUME NEW K \in SUBSET AnalysisId, NEW O, NEW gone, NEW req,
           NEW I \in [RequestId -> AnalysisId \cup {None}],
           expired \in SUBSET AnalysisId,
           TableBecomes(K, O, gone, I, req)
    PROVE  /\ stored' \in SUBSET AnalysisId
           /\ older' \in SUBSET (AnalysisId \X AnalysisId)
           /\ index' \in [RequestId -> AnalysisId \cup {None}]
           /\ expired' \in SUBSET AnalysisId
BY WithoutIndexType DEF TableBecomes

(***************************************************************************)
(* Types.                                                                  *)
(***************************************************************************)

\* What an action that only reads the table through get_record() or prune()
\* does to the types of the store.
LEMMA ReadTyped ==
    ASSUME StoreTypeOK, NEW a
    PROVE  /\ GetRecord(a) /\ UNCHANGED <<request, status>> => StoreTypeOK'
           /\ GetRecord(a) /\ UNCHANGED request =>
                 /\ stored' \in SUBSET AnalysisId
                 /\ older' \in SUBSET (AnalysisId \X AnalysisId)
                 /\ index' \in [RequestId -> AnalysisId \cup {None}]
                 /\ expired' \in SUBSET AnalysisId
           /\ Prune => StoreTypeOK'
<1> DEFINE K == Kept(stored, older, Finished)
<1>1. K \in SUBSET AnalysisId
  BY KeptSubset DEF StoreTypeOK
<1>2. GetRecord(a) =>
                 /\ stored' \in SUBSET AnalysisId
                 /\ older' \in SUBSET (AnalysisId \X AnalysisId)
                 /\ index' \in [RequestId -> AnalysisId \cup {None}]
                 /\ expired' \in SUBSET AnalysisId
  BY <1>1, TableTyped DEF GetRecord, StoreTypeOK
<1>3. Prune => StoreTypeOK'
  BY <1>1, TableTyped DEF Prune, StoreTypeOK
<1>4. QED
  BY <1>2, <1>3 DEF StoreTypeOK

\* The same for the calls that create, remove, finish or claim a record.
LEMMA WriteTyped ==
    ASSUME StoreTypeOK, NEW a \in AnalysisId, NEW q \in Request
    PROVE  /\ Create(a, q) => StoreTypeOK'
           /\ CreateAndRemove(a, q) => StoreTypeOK'
           /\ Expire(a) => StoreTypeOK'
<1> USE StoreAssumption
<1>1. IdOf[q] \in RequestId
  OBVIOUS
<1>2. [index EXCEPT ![IdOf[q]] = a] \in [RequestId -> AnalysisId \cup {None}]
  BY <1>1 DEF StoreTypeOK
<1>3. ASSUME Create(a, q) PROVE StoreTypeOK'
  <2> DEFINE S == stored \cup {a}
             K == Kept(S, Moved(a, S, older), Finished)
  <2>1. K \in SUBSET AnalysisId
    BY KeptSubset DEF StoreTypeOK
  <2>2. TableBecomes(K, Moved(a, S, older), S \ K,
                     [index EXCEPT ![IdOf[q]] = a], request')
    BY <1>3 DEF Create
  <2>3. request' \in [AnalysisId -> Request \cup {None}]
    BY <1>3 DEF Create, StoreTypeOK
  <2>4. status' \in [AnalysisId -> Status]
    BY <1>3 DEF Create, StoreTypeOK, Status
  <2> HIDE DEF K
  <2>5. /\ stored' \in SUBSET AnalysisId
        /\ older' \in SUBSET (AnalysisId \X AnalysisId)
        /\ index' \in [RequestId -> AnalysisId \cup {None}]
        /\ expired' \in SUBSET AnalysisId
    BY <1>2, <2>1, <2>2, TableTyped DEF StoreTypeOK
  <2>6. QED
    BY <2>3, <2>4, <2>5 DEF StoreTypeOK
<1>4. ASSUME CreateAndRemove(a, q) PROVE StoreTypeOK'
  <2> DEFINE S == stored \cup {a}
             K == Kept(S, Moved(a, S, older), Finished)
  <2>1. K \ {a} \in SUBSET AnalysisId
    BY KeptSubset DEF StoreTypeOK
  <2>2. TableBecomes(K \ {a}, Moved(a, S, older), (S \ K) \cup {a},
                     [index EXCEPT ![IdOf[q]] = a], [request EXCEPT ![a] = q])
    BY <1>4 DEF CreateAndRemove
  <2>3. UNCHANGED <<request, status>>
    BY <1>4 DEF CreateAndRemove
  <2> HIDE DEF K
  <2>5. /\ stored' \in SUBSET AnalysisId
        /\ older' \in SUBSET (AnalysisId \X AnalysisId)
        /\ index' \in [RequestId -> AnalysisId \cup {None}]
        /\ expired' \in SUBSET AnalysisId
    BY <1>2, <2>1, <2>2, TableTyped DEF StoreTypeOK
  <2>6. QED
    BY <2>3, <2>5 DEF StoreTypeOK
<1>6. Expire(a) => StoreTypeOK'
  BY DEF Expire, StoreTypeOK
<1>7. QED
  BY <1>3, <1>4, <1>6

LEMMA FinishTyped ==
    ASSUME StoreTypeOK, NEW a \in AnalysisId, NEW s \in Final, CompleteOrFail(a, s)
    PROVE  StoreTypeOK'
<1>1. TableAtFinish(a) \in SUBSET AnalysisId
  BY KeptSubset DEF TableAtFinish, StoreTypeOK
<1>2. \E O : TableBecomes(TableAtFinish(a), O, stored \ TableAtFinish(a),
                          index, request)
  BY DEF CompleteOrFail
<1>3. status' \in [AnalysisId -> Status] /\ request' = request
  BY DEF CompleteOrFail, StoreTypeOK, Status, Final
<1>4. /\ stored' \in SUBSET AnalysisId
      /\ older' \in SUBSET (AnalysisId \X AnalysisId)
      /\ index' \in [RequestId -> AnalysisId \cup {None}]
      /\ expired' \in SUBSET AnalysisId
  BY <1>1, <1>2, TableTyped DEF StoreTypeOK
<1>5. QED
  BY <1>3, <1>4 DEF StoreTypeOK

LEMMA InitTyped == Init => TypeOK
BY StoreAssumption DEF Init, StoreInit, TypeOK, StoreTypeOK, ConsumerState, Status

\* Deciding the channel of an analysis keeps the types.
LEMMA RouteTyped ==
    ASSUME TypeOK, NEW c \in Consumer, job[c] \in AnalysisId, Route(c)
    PROVE  /\ pc' \in [Consumer -> ConsumerState]
           /\ job' \in [Consumer -> AnalysisId \cup {None}]
           /\ pending' \subseteq AnalysisId
           /\ kafkaIds' \subseteq AnalysisId
           /\ waiting' \in [Task -> AnalysisId \cup {None}]
           /\ answer' \in [Task -> AnalysisId \cup {None}]
           /\ route' \in [AnalysisId -> {"none", "kafka", "http"}]
BY DEF TypeOK, Route, ConsumerState

\* A consumer that is past queue.get() holds an analysis.
HoldsJob ==
    \A c \in Consumer :
        pc[c] \in {"analyzing", "saving", "saved", "calling"} => job[c] \in AnalysisId

\* One step keeps the types: Kafka's calls...
LEMMA KafkaTyped ==
    ASSUME TypeOK, NEW t \in Task, KafkaCall(t)
    PROVE  TypeOK'
<1> USE DEF TypeOK
<1>1. ASSUME NEW q \in Request, ClaimExisting(q)
      PROVE  StoreTypeOK' /\ kafkaIds' \subseteq AnalysisId
  <2> DEFINE O == Moved(Existing(q), stored, older)
             K == Kept(stored, O, Finished)
  <2>1. K \in SUBSET AnalysisId
    BY KeptSubset DEF StoreTypeOK
  <2>2. TableBecomes(K, O, stored \ K, index, request)
    BY <1>1 DEF ClaimExisting
  <2> HIDE DEF K, O
  <2>3. /\ stored' \in SUBSET AnalysisId
        /\ older' \in SUBSET (AnalysisId \X AnalysisId)
        /\ index' \in [RequestId -> AnalysisId \cup {None}]
        /\ expired' \in SUBSET AnalysisId
    BY <2>1, <2>2, TableTyped DEF StoreTypeOK
  <2>4. QED
    BY <1>1, <2>3 DEF ClaimExisting, StoreTypeOK
<1>2. ASSUME NEW q \in Request, NEW a \in AnalysisId, KafkaNew(t, a, q)
      PROVE  TypeOK'
  BY <1>2, WriteTyped DEF KafkaNew, Enqueue
<1>3. ASSUME NEW q \in Request, KafkaHitDone(t, q) PROVE TypeOK'
  <2>1. Existing(q) \in AnalysisId
    BY <1>3 DEF KafkaHitDone, Finished
  <2>2. QED
    BY <1>1, <1>3, <2>1 DEF KafkaHitDone
<1>4. ASSUME NEW q \in Request, KafkaHitWaits(t, q) PROVE TypeOK'
  <2>1. Existing(q) \in AnalysisId
    BY <1>4 DEF KafkaHitWaits, ClaimExisting, Hit, StoreTypeOK
  <2>2. QED
    BY <1>1, <1>4, <2>1 DEF KafkaHitWaits
<1>5. ASSUME NEW q \in Request, KafkaHitExpired(t, q) PROVE TypeOK'
  BY <1>1, <1>5 DEF KafkaHitExpired
<1>6. ASSUME TaskDone(t) \/ TaskCancelled(t) PROVE TypeOK'
  BY <1>6 DEF TaskDone, TaskCancelled, StoreTypeOK
<1>7. QED
  BY <1>2, <1>3, <1>4, <1>5, <1>6 DEF KafkaCall

\* ...HTTP clients...
LEMMA ClientTyped ==
    ASSUME TypeOK, Client
    PROVE  TypeOK'
<1> USE DEF TypeOK
<1>1. ASSUME NEW q \in Request, NEW a \in AnalysisId, HttpNew(a, q)
      PROVE  TypeOK'
  BY <1>1, WriteTyped DEF HttpNew, Enqueue
<1>5. ASSUME NEW q \in Request, NEW a \in AnalysisId, QueueFull(a, q)
      PROVE  TypeOK'
  BY <1>5, WriteTyped DEF QueueFull, runtimeVars
<1>2. ASSUME NEW q \in Request, HttpHit(q) PROVE TypeOK'
  BY <1>2, MovedType DEF HttpHit, TouchExisting, StoreTypeOK, runtimeVars
<1>3. ASSUME NEW a \in AnalysisId, Read(a) PROVE TypeOK'
  BY <1>3, ReadTyped DEF Read, runtimeVars
<1>4. QED
  BY <1>1, <1>2, <1>3, <1>5 DEF Client

\* ...consumers...
LEMMA ConsumeTyped ==
    ASSUME TypeOK, HoldsJob, NEW c \in Consumer, Consume(c)
    PROVE  TypeOK'
<1> USE DEF TypeOK
<1>1. CASE Take(c)
  <2> DEFINE a == Head(queue)
  <2>1. a \in AnalysisId /\ Tail(queue) \in Seq(AnalysisId)
    BY <1>1 DEF Take
  <2>2. GetRecord(a) /\ UNCHANGED request
    BY <1>1 DEF Take
  <2>3. status' \in [AnalysisId -> Status]
    BY <1>1, <2>1 DEF Take, StoreTypeOK, Status
  <2>4. StoreTypeOK'
    BY <2>2, <2>3, ReadTyped DEF StoreTypeOK
  <2>5. pc' \in [Consumer -> ConsumerState]
    BY <1>1 DEF Take, ConsumerState
  <2>6. QED
    BY <1>1, <2>1, <2>4, <2>5 DEF Take
<1>2. CASE SetStage(c)
  BY <1>2, ReadTyped DEF SetStage, runtimeVars
<1>3. ASSUME NEW s \in Final, Finish(c, s) PROVE TypeOK'
  <2>1. job[c] \in AnalysisId
    BY <1>3 DEF Finish, HoldsJob
  <2>2. StoreTypeOK'
    BY <1>3, <2>1, FinishTyped DEF Finish
  <2>3. CASE Route(c)
    BY <1>3, <2>1, <2>2, <2>3, RouteTyped DEF Finish
  <2>4. CASE ~Route(c)
    BY <1>3, <2>2, <2>4 DEF Finish, ConsumerState
  <2>5. QED
    BY <2>3, <2>4
<1>4. CASE HistoryCommit(c)
  BY <1>4, StoreAssumption DEF HistoryCommit, HoldsJob, StoreTypeOK, ConsumerState
<1>5. CASE AfterSave(c)
  BY <1>5, RouteTyped DEF AfterSave, HoldsJob, StoreTypeOK
<1>6. CASE CallbackReturns(c)
  BY <1>6 DEF CallbackReturns, StoreTypeOK, ConsumerState
<1>7. QED
  BY <1>1, <1>2, <1>3, <1>4, <1>5, <1>6 DEF Consume

\* ...and the environment.
LEMMA EnvironmentTyped ==
    ASSUME TypeOK, Environment
    PROVE  TypeOK'
<1> USE DEF TypeOK
<1>1. CASE Janitor
  BY <1>1, ReadTyped DEF Janitor, runtimeVars
<1>2. ASSUME NEW a \in AnalysisId, TtlPasses(a) PROVE TypeOK'
  BY <1>2 DEF TtlPasses, Expire, StoreTypeOK, runtimeVars
<1>3. CASE Stop
  BY <1>3 DEF Stop, StoreTypeOK, ConsumerState
<1>4. CASE Restart
  <2>1. StoreTypeOK'
    BY <1>4 DEF Restart, StoreTypeOK, Status
  <2>2. <<>> \in Seq(AnalysisId)
    OBVIOUS
  <2>3. QED
    BY <1>4, <2>1, <2>2 DEF Restart, ConsumerState
<1>5. QED
  BY <1>1, <1>2, <1>3, <1>4 DEF Environment

(***************************************************************************)
(* The inductive invariant.                                                *)
(***************************************************************************)

\* The table holds the live analyses and some of the finished ones; only
\* finished ones may have expired.
TableInv ==
    /\ \A a \in stored : request[a] \in Request /\ status[a] \in Live \cup Final
    /\ LiveIds \subseteq stored
    /\ expired \subseteq stored \cap Finished
    /\ IndexExact

\* Who holds the work: what is queued or held is distinct, and a stopped
\* process has no running consumer.
WorkInv ==
    /\ WorkIsStored
    /\ HoldsJob
    /\ Len(queue) <= QueueMax
    /\ \A c \in Saving : status[job[c]] \in Final
    /\ \A c, d \in Saving : job[c] = job[d] => c = d
    /\ ~accepting => \A c \in Consumer : pc[c] = "stopped"

\* Completions still to be routed, and the claims on them.
RouteInv ==
    /\ kafkaIds \subseteq pending
    /\ \A a \in pending : status[a] # "NONE" /\ route[a] = "none"
    /\ \A a \in AnalysisId : status[a] = "NONE" => route[a] = "none"
    /\ Queued \subseteq pending
    /\ \A c \in Analyzing \cup Saving : job[c] \in pending

IInv == TypeOK /\ TableInv /\ WorkInv /\ RouteInv

LEMMA InitInv == Init => IInv
<1>1. Init => TypeOK
  BY InitTyped
<1>2. Init => TableInv
  BY StoreAssumption
  DEF Init, StoreInit, TableInv, LiveIds, Live, IndexExact
<1>3. Init => WorkInv
  BY RuntimeAssumption DEF Init, StoreInit, WorkInv, WorkIsStored, HoldsJob,
     LiveIds, Live, Queued, Analyzing, Saving
<1>4. Init => RouteInv
  BY DEF Init, StoreInit, RouteInv, Queued, Analyzing, Saving
<1>5. QED
  BY <1>1, <1>2, <1>3, <1>4 DEF IInv

(***************************************************************************)
(* The table.                                                              *)
(***************************************************************************)

\* Removing records other than the live ones, with their index entries,
\* keeps the table consistent.
LEMMA ShrinkKeepsTable ==
    ASSUME StoreTypeOK, TableInv,
           NEW K \in SUBSET stored, NEW O,
           TableBecomes(K, O, stored \ K, index, request),
           request' = request,
           \A b \in K : status'[b] \in Live \cup Final,
           LiveIds' \subseteq K,
           Finished \subseteq Finished'
    PROVE  TableInv'
<1> USE StoreAssumption
<1>1. stored' = K /\ expired' = expired \cap K
  BY DEF TableBecomes
<1>2. IndexExact'
  <2> SUFFICES ASSUME NEW r \in RequestId, NEW a \in AnalysisId
               PROVE  index'[r] = a <=> a \in K /\ IdOf[request[a]] = r
    BY <1>1 DEF IndexExact
  <2>1. index'[r] = IF \E b \in stored \ K : IdOf[request[b]] = r
                    THEN None ELSE index[r]
    BY DEF TableBecomes, WithoutIndex
  <2>2. \A b \in AnalysisId : index[r] = b <=> b \in stored /\ IdOf[request[b]] = r
    BY DEF TableInv, IndexExact
  <2>3. QED
    BY <2>1, <2>2 DEF StoreTypeOK
<1>3. QED
  BY <1>1, <1>2 DEF TableInv

\* What prune() keeps from the table as it is.
LEMMA KeptTable ==
    ASSUME StoreTypeOK, TableInv, NEW O
    PROVE  /\ Kept(stored, O, Finished) \subseteq stored
           /\ LiveIds \subseteq Kept(stored, O, Finished)
<1>1. ASSUME NEW a \in LiveIds PROVE a \in Kept(stored, O, Finished)
  <2>1. a \in stored /\ a \notin Finished /\ a \notin expired
    BY DEF LiveIds, TableInv, Finished, Live, Final
  <2>2. QED
    BY <2>1, KeptLive
<1>2. QED
  BY <1>1, KeptSubset

\* get_record(), set_stage(), prune(): nothing but the pruning happens.
LEMMA PruningKeepsTable ==
    ASSUME StoreTypeOK, TableInv, NEW O, NEW P,
           TableBecomes(Kept(stored, P, Finished), O,
                        stored \ Kept(stored, P, Finished), index, request),
           request' = request,
           LiveIds' = LiveIds,
           Finished' = Finished
    PROVE  TableInv'
<1> DEFINE K == Kept(stored, P, Finished)
<1>1. K \in SUBSET stored /\ LiveIds \subseteq K
  BY KeptTable
<1>2. \A b \in K : status'[b] \in Live \cup Final
  <2>1. \A b \in AnalysisId :
           (status'[b] \in Live \cup Final) <=> (status[b] \in Live \cup Final)
    BY DEF LiveIds, Finished
  <2>2. QED
    BY <1>1, <2>1 DEF TableInv, StoreTypeOK
<1>3. QED
  <2> HIDE DEF K
  <2>1. TableBecomes(K, O, stored \ K, index, request)
    BY DEF K
  <2>2. QED
    BY <1>1, <1>2, <2>1, ShrinkKeepsTable

LEMMA ReadKeepsTable ==
    ASSUME StoreTypeOK, TableInv, NEW a, request' = request,
           LiveIds' = LiveIds, Finished' = Finished,
           GetRecord(a)
    PROVE  TableInv'
BY PruningKeepsTable DEF GetRecord

\* A new record enters the table and the index, and never is what the
\* pruning around it removes.
LEMMA CreateKeepsTable ==
    ASSUME StoreTypeOK, TableInv,
           NEW a \in AnalysisId, NEW q \in Request,
           Absent(q), Fresh(a), Create(a, q)
    PROVE  TableInv' /\ LiveIds' = LiveIds \cup {a} /\ Finished' = Finished
<1> USE StoreAssumption
<1> DEFINE S == stored \cup {a}
           O == Moved(a, S, older)
           K == Kept(S, O, Finished)
           I == [index EXCEPT ![IdOf[q]] = a]
<1>1. /\ request' = [request EXCEPT ![a] = q]
      /\ status' = [status EXCEPT ![a] = "QUEUED"]
      /\ TableBecomes(K, O, S \ K, I, request')
  BY DEF Create
<1>2. a \notin stored /\ a \notin expired /\ a \notin Finished
  BY DEF Fresh, TableInv, Live, Final, Finished
<1>3. K \subseteq S /\ a \in K
  BY <1>2, KeptSubset, KeptLive
<1>4. LiveIds' = LiveIds \cup {a} /\ Finished' = Finished
  BY <1>1 DEF LiveIds, Finished, Live, Final, Fresh, StoreTypeOK
<1>5. LiveIds \subseteq K
  <2> SUFFICES ASSUME NEW b \in LiveIds PROVE b \in K
    OBVIOUS
  <2>1. b \in S /\ b \notin Finished /\ b \notin expired
    BY DEF LiveIds, TableInv, Finished, Live, Final
  <2>2. QED
    BY <2>1, KeptLive
<1> HIDE DEF K, O
<1>6. stored' = K /\ expired' = expired \cap K
  BY <1>1 DEF TableBecomes
<1>7. \A b \in stored : request'[b] = request[b] /\ status'[b] = status[b]
  BY <1>1, <1>2 DEF StoreTypeOK
<1>8. \A b \in stored : IdOf[request[b]] # IdOf[q]
  BY DEF Absent, Existing, TableInv, IndexExact, StoreTypeOK
<1>9. request'[a] = q /\ status'[a] = "QUEUED"
  BY <1>1 DEF StoreTypeOK
<1>10. IndexExact'
  <2> SUFFICES ASSUME NEW r \in RequestId, NEW b \in AnalysisId
               PROVE  index'[r] = b <=> b \in K /\ IdOf[request'[b]] = r
    BY <1>6 DEF IndexExact
  <2>1. index'[r] = IF \E d \in S \ K : IdOf[request'[d]] = r
                    THEN None ELSE I[r]
    BY <1>1 DEF TableBecomes, WithoutIndex
  <2>2. \A d \in AnalysisId : index[r] = d <=> d \in stored /\ IdOf[request[d]] = r
    BY DEF TableInv, IndexExact
  <2>3. S \ K \subseteq stored
    BY <1>3
  <2>4. CASE r = IdOf[q]
    <3>1. index'[r] = a
      BY <1>7, <1>8, <2>1, <2>3, <2>4 DEF StoreTypeOK
    <3>2. b # a => ~(b \in K /\ IdOf[request'[b]] = r)
      BY <1>3, <1>7, <1>8, <2>4
    <3>3. QED
      BY <1>3, <1>9, <2>4, <3>1, <3>2
  <2>5. CASE r # IdOf[q]
    <3>1. I[r] = index[r]
      BY <2>5 DEF StoreTypeOK
    <3>2. b = a => ~(index[r] = b)
      BY <1>2, <2>2
    <3>3. CASE b = a
      BY <1>9, <2>1, <2>5, <3>1, <3>2, <3>3
    <3>4. CASE b # a
      <4>1. b \in K => b \in stored
        BY <1>3, <3>4
      <4>2. \A d \in S \ K : request'[d] = request[d] /\ d \in stored
        BY <1>7, <2>3
      <4>3. QED
        BY <1>7, <2>1, <2>2, <2>3, <3>1, <4>1, <4>2 DEF StoreTypeOK
    <3>5. QED
      BY <3>3, <3>4
  <2>6. QED
    BY <2>4, <2>5
<1>11. \A b \in stored' : request'[b] \in Request /\ status'[b] \in Live \cup Final
  BY <1>3, <1>6, <1>7, <1>9 DEF TableInv, Live
<1>12. QED
  BY <1>3, <1>4, <1>5, <1>6, <1>10, <1>11 DEF TableInv

\* A submission refused because the queue is full leaves no trace of its own
\* in the table or the index.
LEMMA RefusalKeepsTable ==
    ASSUME StoreTypeOK, TableInv,
           NEW a \in AnalysisId, NEW q \in Request,
           Absent(q), Fresh(a), CreateAndRemove(a, q)
    PROVE  TableInv' /\ LiveIds' = LiveIds /\ Finished' = Finished
<1> USE StoreAssumption
<1> DEFINE S == stored \cup {a}
           O == Moved(a, S, older)
           K == Kept(S, O, Finished)
           I == [index EXCEPT ![IdOf[q]] = a]
           req == [request EXCEPT ![a] = q]
           gone == (S \ K) \cup {a}
<1>1. /\ UNCHANGED <<request, status>>
      /\ TableBecomes(K \ {a}, O, gone, I, req)
  BY DEF CreateAndRemove
<1>2. a \notin stored
  BY DEF Fresh, TableInv, Live, Final
<1>3. K \ {a} \subseteq stored
  BY KeptSubset
<1>4. LiveIds' = LiveIds /\ Finished' = Finished
  BY <1>1 DEF LiveIds, Finished
<1>5. LiveIds \subseteq K \ {a}
  <2> SUFFICES ASSUME NEW b \in LiveIds PROVE b \in K \ {a}
    OBVIOUS
  <2>1. b \in S /\ b \notin Finished /\ b \notin expired /\ b # a
    BY <1>2 DEF LiveIds, TableInv, Finished, Live, Final
  <2>2. QED
    BY <2>1, KeptLive
<1>6. stored' = K \ {a} /\ expired' = expired \cap (K \ {a})
  BY <1>1 DEF TableBecomes
<1>7. \A b \in stored : req[b] = request[b]
  BY <1>2 DEF StoreTypeOK
<1>8. \A b \in stored : IdOf[request[b]] # IdOf[q]
  BY DEF Absent, Existing, TableInv, IndexExact, StoreTypeOK
<1>9. req[a] = q
  BY DEF StoreTypeOK
<1>10. S \ K \subseteq stored \cup {a}
  OBVIOUS
<1> HIDE DEF K, O
<1>11. IndexExact'
  <2> SUFFICES ASSUME NEW r \in RequestId, NEW b \in AnalysisId
               PROVE  index'[r] = b <=> b \in K \ {a} /\ IdOf[request[b]] = r
    BY <1>1, <1>6 DEF IndexExact
  <2>1. index'[r] = IF \E d \in gone : IdOf[req[d]] = r THEN None ELSE I[r]
    BY <1>1 DEF TableBecomes, WithoutIndex
  <2>2. \A d \in AnalysisId : index[r] = d <=> d \in stored /\ IdOf[request[d]] = r
    BY DEF TableInv, IndexExact
  <2>3. CASE r = IdOf[q]
    <3>1. index'[r] = None
      BY <1>9, <2>1, <2>3
    <3>2. QED
      BY <1>3, <1>8, <2>3, <3>1
  <2>4. CASE r # IdOf[q]
    <3>1. I[r] = index[r]
      BY <2>4 DEF StoreTypeOK
    <3>2. (\E d \in gone : IdOf[req[d]] = r)
             <=> (\E d \in stored \ (K \ {a}) : IdOf[request[d]] = r)
      BY <1>2, <1>7, <1>9, <2>4
    <3>3. QED
      BY <1>3, <2>1, <2>2, <3>1, <3>2 DEF StoreTypeOK
  <2>5. QED
    BY <2>3, <2>4
<1>12. QED
  BY <1>1, <1>3, <1>4, <1>5, <1>6, <1>11 DEF TableInv

\* Finishing an analysis keeps the table consistent, even when the record
\* that just finished is itself pruned.
LEMMA FinishKeepsTable ==
    ASSUME StoreTypeOK, TableInv,
           NEW a \in LiveIds, NEW s \in Final, CompleteOrFail(a, s)
    PROVE  TableInv' /\ LiveIds' = LiveIds \ {a} /\ Finished' = Finished \cup {a}
<1> DEFINE K == Kept(stored, older, Finished)
           L == TableAtFinish(a)
<1>1. /\ request' = request
      /\ status' = [status EXCEPT ![a] = s]
      /\ TableBecomes(L, Moved(a, K, older), stored \ L, index, request)
  BY DEF CompleteOrFail
<1>2. a \in AnalysisId
  BY DEF LiveIds
<1>3. LiveIds' = LiveIds \ {a} /\ Finished' = Finished \cup {a}
  BY <1>1, <1>2 DEF LiveIds, Finished, Live, Final, StoreTypeOK
<1>4. K \subseteq stored /\ LiveIds \subseteq K
  BY KeptTable
<1>5. L \subseteq K
  BY KeptSubset DEF TableAtFinish
<1>6. LiveIds \ {a} \subseteq L
  <2> SUFFICES ASSUME NEW b \in LiveIds, b # a PROVE b \in L
    OBVIOUS
  <2>1. b \in K /\ b \notin Finished \cup {a} /\ b \notin expired
    BY <1>4 DEF LiveIds, TableInv, Finished, Live, Final
  <2> HIDE DEF K
  <2>2. b \in Kept(K, Moved(a, K, older), Finished \cup {a})
    BY <2>1, KeptLive
  <2>3. QED
    BY <2>2 DEF TableAtFinish, K
<1>7. \A b \in L : status'[b] \in Live \cup Final
  BY <1>1, <1>4, <1>5 DEF TableInv, StoreTypeOK
<1> HIDE DEF L, K
<1>8. QED
  BY <1>1, <1>3, <1>4, <1>5, <1>6, <1>7, ShrinkKeepsTable

\* Counting a finite set by the elements in T and those outside it.
LEMMA SplitCardinality ==
    ASSUME NEW S, NEW T, IsFiniteSet(S)
    PROVE  Cardinality(S) = Cardinality(S \cap T) + Cardinality(S \ T)
<1>1. IsFiniteSet(S \cap T) /\ IsFiniteSet(S \ T)
  BY FS_Subset
<1>2. Cardinality((S \cap T) \cup (S \ T))
         = Cardinality(S \cap T) + Cardinality(S \ T)
              - Cardinality((S \cap T) \cap (S \ T))
  BY <1>1, FS_Union
<1>3. (S \cap T) \cup (S \ T) = S /\ (S \cap T) \cap (S \ T) = {}
  OBVIOUS
<1>4. Cardinality(S) = Cardinality(S \cap T) + Cardinality(S \ T) - Cardinality({})
  BY <1>2, <1>3
<1>5. Cardinality({}) = 0 /\ Cardinality(S \cap T) \in Nat
      /\ Cardinality(S \ T) \in Nat
  BY <1>1, FS_EmptySet, FS_CardinalityType
<1>6. QED
  BY <1>4, <1>5

\* The heart of the sizing argument: when the unfinished analyses alone fit
\* in the table, the record that just finished is the youngest terminal one
\* and the pruning behind complete() or fail() spares it.
LEMMA FinishedRecordSurvives ==
    ASSUME StoreTypeOK, TableInv, NEW a \in LiveIds,
           Cardinality(LiveIds) <= MaxEntries
    PROVE  a \in TableAtFinish(a)
<1> USE StoreAssumption, FiniteIds
<1> DEFINE K == Kept(stored, older, Finished)
           T == Finished \cup {a}
           L == K \ expired
           O == Moved(a, K, older)
<1>1. K \subseteq stored /\ LiveIds \subseteq K
  BY KeptTable
<1>2. a \in L
  BY <1>1 DEF TableInv, Finished, LiveIds, Live, Final
<1>3. UpTo(a, L, O, T) = L \cap T
  <2>1. \A b \in L : b # a => <<b, a>> \in O
    <3>1. ASSUME NEW b \in L, b # a PROVE <<b, a>> \in O
      <4> HIDE DEF K
      <4>1. <<b, a>> \in K \X K /\ <<b, a>>[2] = a /\ <<b, a>>[1] # a
        BY <1>2, <3>1
      <4>2. QED
        BY <4>1 DEF Moved
    <3>2. QED
      BY <3>1
  <2>2. QED
    BY <1>2, <2>1 DEF UpTo
<1>4. IsFiniteSet(L) /\ IsFiniteSet(L \cap T) /\ IsFiniteSet(L \ T)
      /\ IsFiniteSet(LiveIds)
  <2>1. L \in SUBSET AnalysisId /\ L \cap T \in SUBSET AnalysisId
        /\ L \ T \in SUBSET AnalysisId /\ LiveIds \in SUBSET AnalysisId
    BY <1>1 DEF StoreTypeOK, LiveIds
  <2> HIDE DEF L, T
  <2>2. QED
    BY <2>1, FS_Subset
<1>5. Cardinality(L) = Cardinality(L \cap T) + Cardinality(L \ T)
  <2>1. IsFiniteSet(L)
    BY <1>4
  <2> HIDE DEF L, T
  <2>2. QED
    BY <2>1, SplitCardinality
<1>6. L \ T \subseteq LiveIds \ {a}
  BY <1>1 DEF TableInv, StoreTypeOK, Finished, LiveIds
<1>7. Cardinality(L \ T) <= Cardinality(LiveIds) - 1
  <2>1. Cardinality(LiveIds \ {a}) = Cardinality(LiveIds) - 1
        /\ IsFiniteSet(LiveIds \ {a})
    BY <1>4, FS_RemoveElement
  <2> HIDE DEF L, T
  <2>2. QED
    BY <1>6, <2>1, FS_Subset
<1>8. a \notin Evicted(L, O, T)
  <2>1. Cardinality(L \cap T) \in Nat /\ Cardinality(L \ T) \in Nat
        /\ Cardinality(LiveIds) \in Nat
    BY <1>4, FS_CardinalityType
  <2> HIDE DEF L, T, O, K
  <2>2. ~(Cardinality(UpTo(a, L, O, T)) <= Cardinality(L) - MaxEntries)
    BY <1>3, <1>5, <1>7, <2>1
  <2>3. QED
    BY <2>2 DEF Evicted
<1>9. QED
  BY <1>2, <1>8 DEF TableAtFinish, Kept

(***************************************************************************)
(* One step keeps the inductive invariant.                                 *)
(***************************************************************************)

\* A step that leaves the statuses, the queue and the consumers alone.
LEMMA QuietKeepsInv ==
    ASSUME IInv, TypeOK', TableInv',
           UNCHANGED <<status, accepting, queue, pc, job, pending, route>>,
           kafkaIds' \subseteq pending
    PROVE  IInv'
<1>1. WorkInv'
  BY DEF IInv, TableInv, WorkInv, WorkIsStored, HoldsJob, LiveIds, Queued,
         Analyzing, Saving
<1>2. RouteInv'
  BY DEF IInv, RouteInv, Queued, Analyzing, Saving
<1>3. QED
  BY <1>1, <1>2 DEF IInv

\* A new analysis joins the queue.
LEMMA EnqueueKeepsInv ==
    ASSUME IInv, TypeOK', NEW a \in AnalysisId, NEW q \in Request, Enqueue(a, q),
           UNCHANGED <<accepting, pc, job, route>>,
           kafkaIds' \subseteq kafkaIds \cup {a}
    PROVE  IInv'
<1>1. TableInv' /\ LiveIds' = LiveIds \cup {a} /\ Finished' = Finished
  BY CreateKeepsTable DEF IInv, TypeOK, Enqueue
<1>2. /\ queue \in Seq(AnalysisId)
      /\ queue' = Append(queue, a)
      /\ Len(queue) < QueueMax
      /\ accepting
      /\ pending' = pending \cup {a}
      /\ status[a] = "NONE"
      /\ status' = [status EXCEPT ![a] = "QUEUED"]
  BY DEF Enqueue, IInv, TypeOK, Create, Fresh
<1>3. status'[a] = "QUEUED" /\ \A b \in AnalysisId \ {a} : status'[b] = status[b]
  BY <1>2 DEF IInv, TypeOK, StoreTypeOK
<1>4. /\ Len(queue') = Len(queue) + 1
      /\ DOMAIN queue = 1 .. Len(queue)
      /\ DOMAIN queue' = 1 .. Len(queue) + 1
      /\ \A i \in DOMAIN queue : queue'[i] = queue[i] /\ queue[i] \in AnalysisId
      /\ queue'[Len(queue) + 1] = a
  BY <1>2
<1>5. Queued' = Queued \cup {a}
  BY <1>4 DEF Queued
<1>6. \A i \in DOMAIN queue : status[queue[i]] = "QUEUED" /\ queue[i] # a
  BY <1>2 DEF IInv, WorkInv, WorkIsStored
<1>7. \A c \in Analyzing \cup Saving : job[c] \in AnalysisId \ {a}
  BY <1>2 DEF IInv, WorkInv, WorkIsStored, HoldsJob, Analyzing, Saving, Final
<1>8. Analyzing' = Analyzing /\ Saving' = Saving
  BY DEF Analyzing, Saving
<1>9. WorkIsStored'
  <2>1. \A i \in DOMAIN queue' : status'[queue'[i]] = "QUEUED"
    BY <1>3, <1>4, <1>6
  <2>2. \A i, j \in DOMAIN queue' : queue'[i] = queue'[j] => i = j
    BY <1>4, <1>6 DEF IInv, WorkInv, WorkIsStored
  <2>3. \A c \in Analyzing : status'[job[c]] = "PROCESSING"
    BY <1>3, <1>7 DEF IInv, WorkInv, WorkIsStored
  <2>4. LiveIds' = Queued' \cup {job[c] : c \in Analyzing}
    BY <1>1, <1>2, <1>5 DEF IInv, WorkInv, WorkIsStored
  <2>5. QED
    BY <1>1, <1>8, <2>1, <2>2, <2>3, <2>4 DEF WorkIsStored, TableInv, IInv, WorkInv
<1>10. WorkInv'
  <2>1. \A c \in Saving : status'[job[c]] \in Final
    BY <1>3, <1>7 DEF IInv, WorkInv
  <2>2. Len(queue') <= QueueMax
    BY <1>2, <1>4, RuntimeAssumption
  <2>3. QED
    BY <1>2, <1>8, <1>9, <2>1, <2>2 DEF WorkInv, IInv, HoldsJob
<1>11. RouteInv'
  BY <1>2, <1>3, <1>5, <1>8 DEF IInv, RouteInv, TypeOK
<1>12. QED
  BY <1>1, <1>10, <1>11 DEF IInv

\* HTTP clients...
LEMMA ClientKeepsInv ==
    ASSUME IInv, Client
    PROVE  IInv'
<1>1. TypeOK'
  BY ClientTyped DEF IInv
<1>2. ASSUME NEW q \in Request, NEW a \in AnalysisId, HttpNew(a, q)
      PROVE  IInv'
  BY <1>1, <1>2, EnqueueKeepsInv DEF HttpNew
<1>3. ASSUME NEW q \in Request, NEW a \in AnalysisId, QueueFull(a, q)
      PROVE  IInv'
  <2>1. TableInv' /\ UNCHANGED status
    BY <1>3, RefusalKeepsTable DEF QueueFull, IInv, TypeOK, CreateAndRemove
  <2>2. QED
    BY <1>1, <1>3, <2>1, QuietKeepsInv DEF QueueFull, runtimeVars, IInv, RouteInv
<1>4. ASSUME NEW q \in Request, HttpHit(q) PROVE IInv'
  <2>1. TableInv' /\ UNCHANGED status
    BY <1>4 DEF HttpHit, TouchExisting, IInv, TableInv, LiveIds, Finished, IndexExact
  <2>2. QED
    BY <1>1, <1>4, <2>1, QuietKeepsInv DEF HttpHit, runtimeVars, IInv, RouteInv
<1>5. ASSUME NEW a \in AnalysisId, Read(a) PROVE IInv'
  <2>1. LiveIds' = LiveIds /\ Finished' = Finished
    BY <1>5 DEF Read, LiveIds, Finished
  <2>2. TableInv'
    BY <1>5, <2>1, ReadKeepsTable DEF Read, IInv, TypeOK
  <2>3. QED
    BY <1>1, <1>5, <2>2, QuietKeepsInv DEF Read, runtimeVars, IInv, RouteInv
<1>6. QED
  BY <1>2, <1>3, <1>4, <1>5 DEF Client

\* ...Kafka handlers...
LEMMA KafkaKeepsInv ==
    ASSUME IInv, NEW t \in Task, KafkaCall(t)
    PROVE  IInv'
<1>1. TypeOK'
  BY KafkaTyped DEF IInv
<1>2. ASSUME NEW q \in Request, NEW a \in AnalysisId, KafkaNew(t, a, q)
      PROVE  IInv'
  BY <1>1, <1>2, EnqueueKeepsInv DEF KafkaNew
<1>3. ASSUME NEW q \in Request, ClaimExisting(q)
      PROVE  TableInv' /\ UNCHANGED status /\ kafkaIds' \subseteq pending
  <2> DEFINE O == Moved(Existing(q), stored, older)
  <2>1. UNCHANGED <<request, status>>
    BY <1>3 DEF ClaimExisting
  <2>2. LiveIds' = LiveIds /\ Finished' = Finished
    BY <2>1 DEF LiveIds, Finished
  <2>3. TableBecomes(Kept(stored, O, Finished), O,
                     stored \ Kept(stored, O, Finished), index, request)
    BY <1>3 DEF ClaimExisting
  <2> HIDE DEF O
  <2>4. TableInv'
    BY <2>1, <2>2, <2>3, PruningKeepsTable DEF IInv, TypeOK
  <2>5. QED
    BY <1>3, <2>1, <2>4 DEF ClaimExisting, IInv, RouteInv
<1>4. ASSUME NEW q \in Request,
             KafkaHitDone(t, q) \/ KafkaHitWaits(t, q) \/ KafkaHitExpired(t, q)
      PROVE  IInv'
  <2>1. /\ ClaimExisting(q)
        /\ UNCHANGED <<accepting, queue, pc, job, pending, route>>
    BY <1>4 DEF KafkaHitDone, KafkaHitWaits, KafkaHitExpired
  <2>2. QED
    BY <1>1, <1>3, <2>1, QuietKeepsInv
<1>5. ASSUME TaskDone(t) \/ TaskCancelled(t) PROVE IInv'
  <2>1. UNCHANGED <<request, status, stored, older, index, expired, accepting,
                    queue, pc, job, pending, kafkaIds, route>>
    BY <1>5 DEF TaskDone, TaskCancelled
  <2>2. TableInv'
    BY <2>1 DEF IInv, TableInv, LiveIds, Finished, IndexExact
  <2>3. QED
    BY <1>1, <2>1, <2>2, QuietKeepsInv DEF IInv, RouteInv
<1>6. QED
  BY <1>2, <1>4, <1>5 DEF KafkaCall

\* ...the start of an analysis: the record is still there...
LEMMA TakeFinds ==
    ASSUME IInv, NEW c \in Consumer, Take(c)
    PROVE  /\ accepting
           /\ Head(queue) \in AnalysisId
           /\ status[Head(queue)] = "QUEUED"
           /\ Head(queue) \in LiveIds
           /\ Found(Head(queue))
<1>1. queue \in Seq(AnalysisId) /\ queue # <<>> /\ pc[c] = "idle"
  BY DEF Take, IInv, TypeOK
<1>2. Head(queue) = queue[1] /\ 1 \in DOMAIN queue /\ queue[1] \in AnalysisId
  BY <1>1
<1>3. status[Head(queue)] = "QUEUED"
  BY <1>2 DEF IInv, WorkInv, WorkIsStored
<1>4. Head(queue) \in LiveIds
  BY <1>2, <1>3 DEF LiveIds, Live
<1>5. Found(Head(queue))
  BY <1>4, KeptTable DEF Found, IInv, TypeOK
<1>6. QED
  BY <1>1, <1>2, <1>3, <1>4, <1>5 DEF IInv, WorkInv

LEMMA TakeKeepsInv ==
    ASSUME IInv, TypeOK', NEW c \in Consumer, Take(c)
    PROVE  IInv'
<1> DEFINE a == Head(queue)
<1>1. /\ accepting /\ a \in AnalysisId /\ status[a] = "QUEUED" /\ a \in LiveIds
      /\ Found(a)
  BY TakeFinds
<1>2. /\ pc[c] = "idle"
      /\ queue' = Tail(queue)
      /\ job' = [job EXCEPT ![c] = a]
      /\ GetRecord(a)
      /\ status' = [status EXCEPT ![a] = "PROCESSING"]
      /\ pc' = [pc EXCEPT ![c] = "analyzing"]
      /\ UNCHANGED <<request, accepting, pending, kafkaIds, route>>
  BY <1>1 DEF Take
<1>3. queue \in Seq(AnalysisId) /\ queue # <<>>
  BY DEF Take, IInv, TypeOK
<1>4. /\ DOMAIN queue = 1 .. Len(queue) /\ Len(queue) \in Nat \ {0}
      /\ DOMAIN queue' = 1 .. Len(queue) - 1
      /\ Len(queue') = Len(queue) - 1
      /\ \A i \in DOMAIN queue' : queue'[i] = queue[i + 1] /\ i + 1 \in DOMAIN queue
      /\ a = queue[1]
      /\ \A i \in DOMAIN queue : queue[i] \in AnalysisId
  BY <1>2, <1>3
<1>5. /\ \A i \in DOMAIN queue : status[queue[i]] = "QUEUED"
      /\ \A i, j \in DOMAIN queue : queue[i] = queue[j] => i = j
  BY DEF IInv, WorkInv, WorkIsStored
<1>6. Queued = Queued' \cup {a} /\ a \notin Queued'
  <2>1. \A i \in DOMAIN queue' : queue'[i] # a /\ queue'[i] \in Queued
    BY <1>4, <1>5 DEF Queued
  <2>2. ASSUME NEW i \in DOMAIN queue, i # 1
        PROVE  i - 1 \in DOMAIN queue' /\ queue'[i - 1] = queue[i]
    BY <1>4, <2>2
  <2>3. \A i \in DOMAIN queue : i # 1 => queue[i] \in Queued'
    BY <2>2 DEF Queued
  <2>4. a \in Queued /\ (\A b \in Queued' : b \in Queued /\ b # a)
    <3>1. 1 \in DOMAIN queue
      BY <1>4
    <3>2. QED
      BY <1>4, <2>1, <3>1 DEF Queued
  <2>5. \A b \in Queued : b = a \/ b \in Queued'
    BY <1>4, <2>3 DEF Queued
  <2>6. QED
    BY <2>4, <2>5
<1> HIDE DEF a
<1>7. status'[a] = "PROCESSING" /\ \A b \in AnalysisId \ {a} : status'[b] = status[b]
  BY <1>1, <1>2 DEF IInv, TypeOK, StoreTypeOK
<1>8. LiveIds' = LiveIds /\ Finished' = Finished
  BY <1>1, <1>7 DEF LiveIds, Finished, Live, Final
<1>9. TableInv'
  BY <1>2, <1>8, ReadKeepsTable DEF IInv, TypeOK
<1>10. /\ Analyzing' = Analyzing \cup {c} /\ c \notin Analyzing
       /\ Saving' = Saving
       /\ job'[c] = a /\ \A d \in Consumer \ {c} : job'[d] = job[d]
       /\ c \notin Saving
  BY <1>2 DEF IInv, TypeOK, Analyzing, Saving
<1>11. /\ \A d \in Analyzing \cup Saving : job[d] \in AnalysisId \ {a}
       /\ Analyzing \subseteq Consumer /\ Saving \subseteq Consumer
  BY <1>1 DEF IInv, WorkInv, WorkIsStored, HoldsJob, Analyzing, Saving, Final
<1>12. WorkIsStored'
  <2>1. \A i \in DOMAIN queue' : status'[queue'[i]] = "QUEUED"
    <3>1. \A i \in DOMAIN queue' : queue'[i] \in AnalysisId \ {a}
      BY <1>4, <1>6 DEF Queued
    <3>2. QED
      BY <1>4, <1>5, <1>7, <3>1
  <2>2. \A i, j \in DOMAIN queue' : queue'[i] = queue'[j] => i = j
    BY <1>4, <1>5
  <2>3. \A d \in Analyzing' : status'[job'[d]] = "PROCESSING"
    BY <1>7, <1>10, <1>11 DEF IInv, WorkInv, WorkIsStored
  <2>4. \A d, e \in Analyzing' : job'[d] = job'[e] => d = e
    BY <1>10, <1>11 DEF IInv, WorkInv, WorkIsStored
  <2>5. LiveIds' = Queued' \cup {job'[d] : d \in Analyzing'}
    <3>1. {job'[d] : d \in Analyzing'} = {job[d] : d \in Analyzing} \cup {a}
      BY <1>10, <1>11
    <3>2. LiveIds = Queued \cup {job[d] : d \in Analyzing}
      BY <1>1 DEF IInv, WorkInv, WorkIsStored
    <3>3. QED
      BY <1>6, <1>8, <3>1, <3>2
  <2>6. QED
    BY <1>9, <2>1, <2>2, <2>3, <2>4, <2>5 DEF WorkIsStored, TableInv
<1>13. WorkInv'
  <2>1. HoldsJob'
    BY <1>1, <1>2, <1>10 DEF IInv, TypeOK, WorkInv, HoldsJob
  <2>2. \A d \in Saving : status'[job'[d]] \in Final
    BY <1>7, <1>10, <1>11 DEF IInv, WorkInv
  <2>3. \A d, e \in Saving : job'[d] = job'[e] => d = e
    BY <1>10, <1>11 DEF IInv, WorkInv
  <2>4. Len(queue') <= QueueMax
    BY <1>4, RuntimeAssumption DEF IInv, WorkInv
  <2>5. QED
    BY <1>1, <1>2, <1>10, <1>12, <2>1, <2>2, <2>3, <2>4 DEF WorkInv
<1>14. RouteInv'
  <2>1. a \in pending
    BY <1>6 DEF IInv, RouteInv
  <2>2. \A d \in Analyzing' \cup Saving' : job'[d] \in pending'
    BY <1>2, <1>10, <1>11, <2>1 DEF IInv, RouteInv
  <2>3. \A b \in pending' : status'[b] # "NONE"
    BY <1>2, <1>7 DEF IInv, RouteInv, TypeOK
  <2>4. \A b \in AnalysisId : status'[b] = "NONE" => route'[b] = "none"
    BY <1>2, <1>7 DEF IInv, RouteInv
  <2>5. QED
    BY <1>2, <1>6, <2>2, <2>3, <2>4 DEF IInv, RouteInv
<1>15. QED
  BY <1>9, <1>13, <1>14 DEF IInv

\* ...its end, with or without the routing behind it...
LEMMA FinishKeepsInv ==
    ASSUME IInv, TypeOK', NEW c \in Consumer, NEW s \in Final, Finish(c, s)
    PROVE  IInv'
<1> DEFINE a == job[c]
<1>1. /\ pc[c] = "analyzing" /\ c \in Analyzing /\ a \in AnalysisId
      /\ status[a] = "PROCESSING" /\ a \in LiveIds /\ accepting
  BY DEF Finish, IInv, WorkInv, WorkIsStored, HoldsJob, Analyzing, LiveIds, Live
<1>2. CompleteOrFail(a, s) /\ UNCHANGED <<accepting, queue, history>>
  BY DEF Finish
<1>3. TableInv' /\ LiveIds' = LiveIds \ {a} /\ Finished' = Finished \cup {a}
  BY <1>1, <1>2, FinishKeepsTable DEF IInv, TypeOK
<1>4. status' = [status EXCEPT ![a] = s]
  BY <1>2 DEF CompleteOrFail
<1>5. status'[a] = s /\ \A b \in AnalysisId \ {a} : status'[b] = status[b]
  BY <1>1, <1>4 DEF IInv, TypeOK, StoreTypeOK
<1>6. /\ pc'[c] \in {"idle", "calling", "saving", "dead"}
      /\ \A d \in Consumer \ {c} : pc'[d] = pc[d] /\ job'[d] = job[d]
      /\ pc'[c] \in {"saving", "calling", "dead"} => job'[c] = a
      /\ pc'[c] = "saving" =>
            UNCHANGED <<pending, kafkaIds, route>>
      /\ \/ UNCHANGED <<pending, kafkaIds, route>>
         \/ /\ pending' = pending \ {a} /\ kafkaIds' = kafkaIds \ {a}
            /\ route' = [route EXCEPT ![a] = "kafka"]
                  \/ route' = [route EXCEPT ![a] = "http"]
  BY DEF Finish, Route, IInv, TypeOK
<1>7. /\ Queued' = Queued /\ a \notin Queued /\ Queued \subseteq AnalysisId
  BY <1>1, <1>2 DEF Queued, IInv, TypeOK, WorkInv, WorkIsStored
<1>8. /\ Analyzing' = Analyzing \ {c}
      /\ Saving' = Saving \/ (Saving' = Saving \cup {c} /\ pc'[c] = "saving")
      /\ c \notin Saving /\ Analyzing \subseteq Consumer /\ Saving \subseteq Consumer
  BY <1>1, <1>6 DEF Analyzing, Saving
<1>9. \A d \in (Analyzing \ {c}) \cup Saving :
         d \in Consumer \ {c} /\ job'[d] = job[d] /\ job[d] \in AnalysisId \ {a}
  <2>1. \A d \in Analyzing \ {c} : job[d] # a
    BY <1>1 DEF IInv, WorkInv, WorkIsStored
  <2>2. \A d \in Saving : job[d] # a
    BY <1>1 DEF IInv, WorkInv, Final
  <2>3. QED
    BY <1>6, <1>8, <2>1, <2>2 DEF IInv, WorkInv, HoldsJob, Analyzing, Saving
<1> HIDE DEF a
<1>10. WorkIsStored'
  <2>1. \A i \in DOMAIN queue' : status'[queue'[i]] = "QUEUED"
    <3>1. \A i \in DOMAIN queue : queue[i] \in AnalysisId \ {a}
      BY <1>7 DEF Queued
    <3>2. QED
      BY <1>2, <1>5, <3>1 DEF IInv, WorkInv, WorkIsStored
  <2>2. \A d \in Analyzing' : status'[job'[d]] = "PROCESSING"
    BY <1>5, <1>8, <1>9 DEF IInv, WorkInv, WorkIsStored
  <2>3. \A d, e \in Analyzing' : job'[d] = job'[e] => d = e
    BY <1>8, <1>9 DEF IInv, WorkInv, WorkIsStored
  <2>4. LiveIds' = Queued' \cup {job'[d] : d \in Analyzing'}
    <3>1. LiveIds = Queued \cup {job[d] : d \in Analyzing}
      BY <1>1 DEF IInv, WorkInv, WorkIsStored
    <3>2. {job'[d] : d \in Analyzing'} = {job[d] : d \in Analyzing \ {c}}
      BY <1>8, <1>9
    <3>3. {job[d] : d \in Analyzing} = {job[d] : d \in Analyzing \ {c}} \cup {a}
      BY <1>1 DEF a
    <3>4. a \notin {job[d] : d \in Analyzing \ {c}}
      BY <1>9
    <3>5. QED
      BY <1>3, <1>7, <3>1, <3>2, <3>3, <3>4
  <2>5. QED
    BY <1>2, <1>3, <2>1, <2>2, <2>3, <2>4
    DEF WorkIsStored, TableInv, IInv, WorkInv
<1>11. WorkInv'
  <2>1. HoldsJob'
    BY <1>1, <1>6 DEF IInv, WorkInv, HoldsJob, a
  <2>2. \A d \in Saving' : status'[job'[d]] \in Final
    BY <1>1, <1>5, <1>6, <1>8, <1>9 DEF IInv, WorkInv
  <2>3. \A d, e \in Saving' : job'[d] = job'[e] => d = e
    BY <1>6, <1>8, <1>9 DEF IInv, WorkInv
  <2>4. QED
    BY <1>1, <1>2, <1>10, <2>1, <2>2, <2>3 DEF IInv, WorkInv
<1>12. RouteInv'
  <2>1. kafkaIds' \subseteq pending'
    BY <1>6 DEF IInv, RouteInv
  <2>2. \A b \in pending' : status'[b] # "NONE" /\ route'[b] = "none"
    <3>1. \A b \in pending' : b \in pending /\ route'[b] = route[b]
      BY <1>6 DEF IInv, TypeOK
    <3>2. \A b \in pending' : status'[b] # "NONE"
      BY <1>5, <3>1 DEF IInv, RouteInv, Final, TypeOK
    <3>3. QED
      BY <3>1, <3>2 DEF IInv, RouteInv
  <2>3. \A b \in AnalysisId : status'[b] = "NONE" => route'[b] = "none"
    <3>1. ASSUME NEW b \in AnalysisId, status'[b] = "NONE"
          PROVE  route'[b] = "none"
      <4>1. b # a /\ status[b] = "NONE"
        BY <1>5, <3>1 DEF Final
      <4>2. route'[b] = route[b]
        BY <1>6, <4>1 DEF IInv, TypeOK
      <4>3. QED
        BY <4>1, <4>2 DEF IInv, RouteInv
    <3>2. QED
      BY <3>1
  <2>4. Queued' \subseteq pending'
    BY <1>6, <1>7 DEF IInv, RouteInv
  <2>5. \A d \in Analyzing' \cup Saving' : job'[d] \in pending'
    <3>1. \A d \in (Analyzing \ {c}) \cup Saving : job'[d] \in pending'
      BY <1>6, <1>9 DEF IInv, RouteInv
    <3>2. pc'[c] = "saving" => job'[c] \in pending'
      BY <1>1, <1>6 DEF IInv, RouteInv, a
    <3>3. QED
      BY <1>8, <3>1, <3>2
  <2>6. QED
    BY <2>1, <2>2, <2>3, <2>4, <2>5 DEF RouteInv
<1>13. QED
  BY <1>3, <1>11, <1>12 DEF IInv

\* ...and what follows the end.
LEMMA AfterSaveKeepsInv ==
    ASSUME IInv, TypeOK', NEW c \in Consumer, AfterSave(c)
    PROVE  IInv'
<1> DEFINE a == job[c]
<1>1. c \in Saving /\ a \in AnalysisId /\ status[a] \in Final /\ c \notin Analyzing
  BY DEF AfterSave, IInv, WorkInv, HoldsJob, Saving, Analyzing
<1>2. /\ UNCHANGED <<request, status, stored, older, index, expired, accepting,
                     queue>>
      /\ pending' = pending \ {a} /\ kafkaIds' = kafkaIds \ {a}
      /\ \/ route' = [route EXCEPT ![a] = "kafka"]
         \/ route' = [route EXCEPT ![a] = "http"]
      /\ pc'[c] \in {"idle", "calling"}
      /\ pc'[c] = "calling" => job'[c] = a
      /\ \A d \in Consumer \ {c} : pc'[d] = pc[d] /\ job'[d] = job[d]
  BY DEF AfterSave, Route, IInv, TypeOK
<1>3. TableInv'
  BY <1>2 DEF IInv, TableInv, LiveIds, Finished, IndexExact
<1>4. /\ Analyzing' = Analyzing /\ Saving' = Saving \ {c}
      /\ Analyzing \subseteq Consumer \ {c} /\ Saving \subseteq Consumer
  BY <1>1, <1>2 DEF Analyzing, Saving
<1>5. Queued' = Queued /\ LiveIds' = LiveIds /\ a \notin Queued
  BY <1>1, <1>2 DEF Queued, LiveIds, IInv, WorkInv, WorkIsStored, Final
<1>6. /\ \A d \in Analyzing \cup Saving' : job'[d] = job[d]
      /\ \A d \in Analyzing \cup Saving' : job[d] # a
  <2>1. \A d \in Analyzing : job[d] # a
    BY <1>1 DEF IInv, WorkInv, WorkIsStored, Final
  <2>2. \A d \in Saving \ {c} : job[d] # a
    BY <1>1 DEF IInv, WorkInv
  <2>3. QED
    BY <1>2, <1>4, <2>1, <2>2
<1> HIDE DEF a
<1>7. WorkIsStored'
  <2>1. {job'[d] : d \in Analyzing'} = {job[d] : d \in Analyzing}
    BY <1>4, <1>6
  <2>2. QED
    BY <1>2, <1>3, <1>4, <1>5, <1>6, <2>1
    DEF IInv, WorkInv, WorkIsStored, TableInv
<1>8. WorkInv'
  <2>1. HoldsJob'
    BY <1>1, <1>2 DEF IInv, WorkInv, HoldsJob
  <2>2. accepting
    BY <1>1 DEF IInv, WorkInv, Saving
  <2>3. QED
    BY <1>2, <1>4, <1>6, <1>7, <2>1, <2>2 DEF IInv, WorkInv
<1>9. RouteInv'
  <2>1. \A b \in AnalysisId \ {a} : route'[b] = route[b]
    BY <1>2 DEF IInv, TypeOK
  <2>2. \A b \in pending' : status'[b] # "NONE" /\ route'[b] = "none"
    BY <1>2, <2>1 DEF IInv, RouteInv, TypeOK
  <2>3. \A b \in AnalysisId : status'[b] = "NONE" => route'[b] = "none"
    BY <1>1, <1>2, <2>1 DEF IInv, RouteInv, Final
  <2>4. \A d \in Analyzing' \cup Saving' : job'[d] \in pending'
    BY <1>2, <1>4, <1>6 DEF IInv, RouteInv
  <2>5. QED
    BY <1>2, <1>5, <2>2, <2>3, <2>4 DEF IInv, RouteInv
<1>10. QED
  BY <1>3, <1>8, <1>9 DEF IInv

LEMMA ConsumeKeepsInv ==
    ASSUME IInv, NEW c \in Consumer, Consume(c)
    PROVE  IInv'
<1>1. TypeOK'
  BY ConsumeTyped DEF IInv, WorkInv
<1>2. CASE Take(c)
  BY <1>1, <1>2, TakeKeepsInv
<1>3. CASE SetStage(c)
  <2>1. LiveIds' = LiveIds /\ Finished' = Finished
    BY <1>3 DEF SetStage, LiveIds, Finished
  <2>2. TableInv'
    BY <1>3, <2>1, ReadKeepsTable DEF SetStage, IInv, TypeOK
  <2>3. QED
    BY <1>1, <1>3, <2>2, QuietKeepsInv DEF SetStage, runtimeVars, IInv, RouteInv
<1>4. ASSUME NEW s \in Final, Finish(c, s) PROVE IInv'
  BY <1>1, <1>4, FinishKeepsInv
<1>5. CASE AfterSave(c)
  BY <1>1, <1>5, AfterSaveKeepsInv
<1>6. CASE HistoryCommit(c) \/ CallbackReturns(c)
  <2>1. /\ UNCHANGED <<request, status, stored, older, index, expired,
                       accepting, queue, pending, kafkaIds, route>>
        /\ Analyzing' = Analyzing
        /\ \A d \in Analyzing \cup Saving : job'[d] = job[d]
        /\ Saving' = Saving
        /\ c \in Consumer /\ pc[c] # "stopped"
    BY <1>6 DEF HistoryCommit, CallbackReturns, Analyzing, Saving, IInv, TypeOK
  <2>2. TableInv'
    BY <2>1 DEF IInv, TableInv, LiveIds, Finished, IndexExact
  <2>3. WorkIsStored'
    <3>1. {job'[d] : d \in Analyzing'} = {job[d] : d \in Analyzing}
      BY <2>1
    <3>2. LiveIds' = LiveIds /\ Queued' = Queued
      BY <2>1 DEF LiveIds, Queued
    <3>3. QED
      BY <2>1, <3>1, <3>2 DEF IInv, WorkInv, WorkIsStored
  <2>4. HoldsJob'
    BY <1>6 DEF HistoryCommit, CallbackReturns, IInv, TypeOK, WorkInv, HoldsJob
  <2>5. WorkInv'
    BY <2>1, <2>3, <2>4 DEF IInv, WorkInv
  <2>6. RouteInv'
    BY <2>1 DEF IInv, RouteInv, Queued
  <2>7. QED
    BY <1>1, <2>2, <2>5, <2>6 DEF IInv
<1>7. QED
  BY <1>2, <1>3, <1>4, <1>5, <1>6 DEF Consume

\* The environment keeps the invariant, too: a stopped process holds its work
\* in place, a new one has none.
LEMMA EnvironmentKeepsInv ==
    ASSUME IInv, Environment
    PROVE  IInv'
<1>1. TypeOK'
  BY EnvironmentTyped DEF IInv
<1>2. CASE Janitor
  <2>1. LiveIds' = LiveIds /\ Finished' = Finished
    BY <1>2 DEF Janitor, Prune, LiveIds, Finished
  <2>2. TableInv'
    BY <1>2, <2>1, PruningKeepsTable DEF Janitor, Prune, IInv, TypeOK
  <2>3. QED
    BY <1>1, <1>2, <2>2, QuietKeepsInv
    DEF Janitor, Prune, runtimeVars, IInv, RouteInv
<1>3. ASSUME NEW a \in AnalysisId, TtlPasses(a) PROVE IInv'
  <2>1. TableInv' /\ UNCHANGED status
    BY <1>3 DEF TtlPasses, Expire, IInv, TableInv, LiveIds, Finished, IndexExact
  <2>2. QED
    BY <1>1, <1>3, <2>1, QuietKeepsInv DEF TtlPasses, runtimeVars, IInv, RouteInv
<1>4. CASE Stop
  <2>1. /\ UNCHANGED <<request, status, stored, older, index, expired, queue,
                       job, pending, kafkaIds, route>>
        /\ accepting' = FALSE
        /\ pc' = [c \in Consumer |-> "stopped"]
        /\ Analyzing' = {} /\ Saving' = {}
    BY <1>4 DEF Stop, Analyzing, Saving
  <2>2. TableInv'
    BY <2>1 DEF IInv, TableInv, LiveIds, Finished, IndexExact
  <2>3. WorkIsStored'
    BY <2>1 DEF IInv, WorkInv, WorkIsStored, LiveIds
  <2>4. WorkInv'
    BY <2>1, <2>3 DEF IInv, WorkInv, HoldsJob
  <2>5. RouteInv'
    BY <2>1 DEF IInv, RouteInv, Queued
  <2>6. QED
    BY <1>1, <2>2, <2>4, <2>5 DEF IInv
<1>5. CASE Restart
  <2>1. LiveIds' = {}
    BY <1>5 DEF Restart, LiveIds, Live
  <2>2. /\ queue' = <<>> /\ Queued' = {} /\ Len(queue') = 0 /\ DOMAIN queue' = {}
        /\ Analyzing' = {} /\ Saving' = {}
    BY <1>5 DEF Restart, Queued, Analyzing, Saving
  <2>3. TableInv'
    BY <1>5, <2>1, StoreAssumption DEF Restart, TableInv, IndexExact
  <2>4. WorkIsStored'
    BY <2>1, <2>2 DEF WorkIsStored
  <2>5. WorkInv'
    BY <1>5, <2>2, <2>4, RuntimeAssumption DEF Restart, WorkInv, HoldsJob
  <2>6. RouteInv'
    <3>1. \A b \in AnalysisId : status'[b] = "NONE" => status[b] = "NONE"
      BY <1>5 DEF Restart
    <3>2. QED
      BY <1>5, <2>2, <3>1 DEF Restart, IInv, RouteInv
  <2>7. QED
    BY <1>1, <2>3, <2>5, <2>6 DEF IInv
<1>6. QED
  BY <1>2, <1>3, <1>4, <1>5 DEF Environment

LEMMA NextKeepsInv == IInv /\ [Next]_vars => IInv'
<1> SUFFICES ASSUME IInv, [Next]_vars PROVE IInv'
  OBVIOUS
<1>1. CASE Next
  BY <1>1, ClientKeepsInv, KafkaKeepsInv, ConsumeKeepsInv, EnvironmentKeepsInv
  DEF Next
<1>2. CASE UNCHANGED vars
  BY <1>2 DEF vars, IInv, TypeOK, StoreTypeOK, TableInv, WorkInv, RouteInv,
     IndexExact, WorkIsStored, HoldsJob, LiveIds, Finished, Queued, Analyzing, Saving
<1>3. QED
  BY <1>1, <1>2

(***************************************************************************)
(* Safety, for every queue and table size.                                 *)
(***************************************************************************)

\* The invariant the other theorems rest on holds in every reachable state.
THEOREM InvariantHolds == Spec => []IInv
BY InitInv, NextKeepsInv, PTL DEF Spec

\* Every variable keeps its type.
THEOREM TypeCorrect == Spec => []TypeOK
<1>1. IInv => TypeOK
  BY DEF IInv
<1>2. QED
  BY <1>1, InvariantHolds, PTL

\* The index leads to exactly the records in the table, after any sequence of
\* submissions, refusals, evictions, expiries and restarts.
THEOREM IndexIsExact == Spec => []IndexExact
<1>1. IInv => IndexExact
  BY DEF IInv, TableInv
<1>2. QED
  BY <1>1, InvariantHolds, PTL

\* Unfinished work is in the table, and in exactly one place of the pipeline.
THEOREM WorkStaysStored == Spec => []WorkIsStored
<1>1. IInv => WorkIsStored
  BY DEF IInv, WorkInv
<1>2. QED
  BY <1>1, InvariantHolds, PTL

\* One unfinished analysis per requestId: both would be what the index leads to.
THEOREM RequestsRunOnce == Spec => []OneRunPerRequest
<1>1. IInv => OneRunPerRequest
  <2> SUFFICES ASSUME IInv, NEW a \in LiveIds, NEW b \in LiveIds,
                      IdOf[request[a]] = IdOf[request[b]]
               PROVE  a = b
    BY DEF OneRunPerRequest
  <2>1. a \in stored /\ b \in stored /\ a \in AnalysisId /\ b \in AnalysisId
        /\ request[a] \in Request
    BY DEF IInv, TableInv, LiveIds
  <2>2. IdOf[request[a]] \in RequestId
    BY <2>1, StoreAssumption
  <2>3. QED
    BY <2>1, <2>2 DEF IInv, TableInv, IndexExact
<1>2. QED
  BY <1>1, InvariantHolds, PTL

(***************************************************************************)
(* Safety that needs the table to be sized for the work.                   *)
(***************************************************************************)

\* The queue and the consumers bound the unfinished work of a running process.
LEMMA LiveBound ==
    ASSUME IInv, accepting
    PROVE  Cardinality(LiveIds) <= QueueMax + Cardinality(Consumer)
<1> DEFINE Jobs == {job[c] : c \in Analyzing}
<1>1. LiveIds = Queued \cup Jobs
  BY DEF IInv, WorkInv, WorkIsStored
<1>2. queue \in Seq(AnalysisId) /\ Len(queue) <= QueueMax /\ Len(queue) \in Nat
  BY DEF IInv, TypeOK, WorkInv
<1>3. IsFiniteSet(Queued) /\ Cardinality(Queued) <= QueueMax
  <2> DEFINE N == 1 .. Len(queue)
             f == [i \in N |-> queue[i]]
  <2>1. IsFiniteSet(N) /\ Cardinality(N) = Len(queue)
    BY <1>2, FS_Interval
  <2>2. f \in Surjection(N, Queued)
    <3>1. DOMAIN queue = N
      BY <1>2
    <3>2. Queued = {queue[i] : i \in N}
      BY <3>1 DEF Queued
    <3>3. QED
      BY <3>2 DEF Surjection
  <2> HIDE DEF f, N
  <2>3. IsFiniteSet(Queued) /\ Cardinality(Queued) <= Cardinality(N)
    BY <2>1, <2>2, FS_Surjection
  <2>4. Cardinality(Queued) \in Nat
    BY <2>3, FS_CardinalityType
  <2>5. QED
    BY <1>2, <2>1, <2>3, <2>4, RuntimeAssumption
<1>4. IsFiniteSet(Jobs) /\ Cardinality(Jobs) <= Cardinality(Consumer)
  <2> DEFINE g == [c \in Analyzing |-> job[c]]
  <2>1. IsFiniteSet(Analyzing) /\ Cardinality(Analyzing) <= Cardinality(Consumer)
    <3>1. Analyzing \in SUBSET Consumer
      BY DEF Analyzing
    <3>2. QED
      BY <3>1, RuntimeAssumption, FS_Subset
  <2>2. g \in Surjection(Analyzing, Jobs)
    BY DEF Surjection
  <2> HIDE DEF g, Jobs
  <2>3. IsFiniteSet(Jobs) /\ Cardinality(Jobs) <= Cardinality(Analyzing)
    BY <2>1, <2>2, FS_Surjection
  <2>4. Cardinality(Jobs) \in Nat /\ Cardinality(Analyzing) \in Nat
        /\ Cardinality(Consumer) \in Nat
    BY <2>1, <2>3, RuntimeAssumption, FS_CardinalityType
  <2>5. QED
    BY <2>1, <2>3, <2>4
<1> HIDE DEF Jobs
<1>5. Cardinality(Queued \cup Jobs)
         = Cardinality(Queued) + Cardinality(Jobs) - Cardinality(Queued \cap Jobs)
  BY <1>3, <1>4, FS_Union
<1>6. /\ Cardinality(Queued \cap Jobs) \in Nat /\ Cardinality(Queued) \in Nat
      /\ Cardinality(Jobs) \in Nat /\ Cardinality(Consumer) \in Nat
  <2>1. IsFiniteSet(Queued \cap Jobs)
    BY <1>3, FS_Subset
  <2>2. QED
    BY <1>3, <1>4, <2>1, RuntimeAssumption, FS_CardinalityType
<1>7. Cardinality(LiveIds)
         = Cardinality(Queued) + Cardinality(Jobs) - Cardinality(Queued \cap Jobs)
  BY <1>1, <1>5
<1>8. QED
  BY <1>3, <1>4, <1>6, <1>7, RuntimeAssumption

\* What holds on top of IInv when the table is sized: every completion still
\* to be routed is carried by the queue or a consumer, and whoever waits
\* claimed one.
WaitInv ==
    /\ ConsumersSurvive
    /\ accepting => \A a \in pending :
                       \/ a \in Queued
                       \/ \E c \in Analyzing \cup Saving : job[c] = a
    /\ \A t \in Task : waiting[t] # None => accepting /\ waiting[t] \in kafkaIds

LEMMA AppendQueued ==
    ASSUME TypeOK, NEW a \in AnalysisId, queue' = Append(queue, a)
    PROVE  Queued' = Queued \cup {a}
<1>1. /\ DOMAIN queue = 1 .. Len(queue) /\ Len(queue) \in Nat
      /\ DOMAIN queue' = 1 .. Len(queue) + 1
      /\ \A i \in DOMAIN queue : queue'[i] = queue[i]
      /\ queue'[Len(queue) + 1] = a
  BY DEF TypeOK
<1>2. QED
  BY <1>1 DEF Queued

LEMMA TailQueued ==
    ASSUME TypeOK, queue # <<>>, queue' = Tail(queue)
    PROVE  \A b \in Queued : b = Head(queue) \/ b \in Queued'
<1>1. /\ queue \in Seq(AnalysisId)
      /\ DOMAIN queue = 1 .. Len(queue) /\ Len(queue) \in Nat \ {0}
      /\ DOMAIN queue' = 1 .. Len(queue) - 1
      /\ \A i \in DOMAIN queue' : queue'[i] = queue[i + 1]
      /\ Head(queue) = queue[1]
  BY DEF TypeOK
<1>2. ASSUME NEW i \in DOMAIN queue, i # 1
      PROVE  i - 1 \in DOMAIN queue' /\ queue'[i - 1] = queue[i]
  BY <1>1, <1>2
<1>3. \A i \in DOMAIN queue : i # 1 => queue[i] \in Queued'
  BY <1>2 DEF Queued
<1>4. QED
  BY <1>1, <1>3 DEF Queued

\* Routing settles exactly the analysis it is about, for all who wait for it.
LEMMA RouteKeepsWait ==
    ASSUME IInv, WaitInv, accepting, NEW c \in Analyzing \cup Saving, Route(c),
           queue' = queue, accepting' = accepting
    PROVE  WaitInv'
<1> DEFINE a == job[c]
<1>1. /\ pending' = pending \ {a} /\ kafkaIds' = kafkaIds \ {a}
      /\ pc'[c] \in {"idle", "calling"}
      /\ \A d \in Consumer \ {c} : pc'[d] = pc[d] /\ job'[d] = job[d]
      /\ c \in Consumer /\ a \in AnalysisId
      /\ Queued' = Queued
  BY DEF Route, IInv, TypeOK, WorkInv, HoldsJob, Analyzing, Saving, Queued
<1>2. ConsumersSurvive'
  BY <1>1 DEF WaitInv, ConsumersSurvive
<1>3. ASSUME NEW b \in pending', b \notin Queued
      PROVE  \E d \in Analyzing' \cup Saving' : job'[d] = b
  <2>1. PICK d \in Analyzing \cup Saving : job[d] = b
    BY <1>1, <1>3 DEF WaitInv
  <2>2. d \in Consumer \ {c}
    BY <1>1, <2>1 DEF Analyzing, Saving
  <2>3. d \in Analyzing' \cup Saving' /\ job'[d] = b
    BY <1>1, <2>1, <2>2 DEF Analyzing, Saving
  <2>4. QED
    BY <2>3
<1>4. ASSUME NEW t \in Task, waiting'[t] # None
      PROVE  waiting'[t] \in kafkaIds'
  <2>1. waiting'[t] = waiting[t] /\ waiting[t] # a
    BY <1>4, StoreAssumption DEF Route, WaitInv, IInv, TypeOK
  <2>2. QED
    BY <1>1, <1>4, <2>1 DEF WaitInv
<1>5. QED
  BY <1>1, <1>2, <1>3, <1>4 DEF WaitInv

\* Clients and handlers: whoever starts to wait claimed what it waits for.
LEMMA CallsKeepWait ==
    ASSUME IInv, IInv', WaitInv, Client \/ \E t \in Task : KafkaCall(t)
    PROVE  WaitInv'
<1>1. UNCHANGED <<accepting, pc, job>> /\ Analyzing' = Analyzing /\ Saving' = Saving
  BY DEF Client, HttpNew, QueueFull, HttpHit, Read, KafkaCall, KafkaNew,
         KafkaHitDone, KafkaHitWaits, KafkaHitExpired, TaskDone, TaskCancelled,
         runtimeVars, Analyzing, Saving
<1>2. ConsumersSurvive'
  BY <1>1 DEF WaitInv, ConsumersSurvive
<1>3. ASSUME NEW a \in AnalysisId, NEW q \in Request, Enqueue(a, q)
      PROVE  /\ accepting
             /\ \A b \in pending' : \/ b \in Queued'
                                    \/ \E c \in Analyzing : job[c] = b
                                    \/ \E c \in Saving : job[c] = b
  BY <1>3, AppendQueued DEF Enqueue, WaitInv, IInv
<1>4. ASSUME NEW a \in AnalysisId, NEW q \in Request, HttpNew(a, q)
      PROVE  WaitInv'
  BY <1>1, <1>2, <1>3, <1>4 DEF HttpNew, WaitInv
<1>5. ASSUME NEW t \in Task, NEW a \in AnalysisId, NEW q \in Request,
             KafkaNew(t, a, q)
      PROVE  WaitInv'
  <2>1. \A u \in Task : waiting'[u] # None => waiting'[u] \in kafkaIds'
    BY <1>5 DEF KafkaNew, WaitInv, IInv, TypeOK
  <2>2. QED
    BY <1>1, <1>2, <1>3, <1>5, <2>1 DEF KafkaNew, WaitInv
<1>6. ASSUME UNCHANGED <<queue, pending>>, kafkaIds \subseteq kafkaIds',
             \A u \in Task : \/ waiting'[u] = None
                             \/ waiting'[u] = waiting[u]
                             \/ accepting /\ waiting'[u] \in kafkaIds'
      PROVE  WaitInv'
  <2>1. Queued' = Queued
    BY <1>6 DEF Queued
  <2>2. QED
    BY <1>1, <1>2, <1>6, <2>1 DEF WaitInv
<1>7. ASSUME NEW q \in Request, NEW a \in AnalysisId,
             QueueFull(a, q)
      PROVE  WaitInv'
  BY <1>6, <1>7 DEF QueueFull, runtimeVars
<1>8. ASSUME NEW q \in Request, HttpHit(q) PROVE WaitInv'
  BY <1>6, <1>8 DEF HttpHit, runtimeVars
<1>9. ASSUME NEW t \in Task, NEW q \in Request,
             KafkaHitDone(t, q) \/ KafkaHitExpired(t, q) \/ TaskDone(t)
                \/ TaskCancelled(t)
      PROVE  WaitInv'
  BY <1>6, <1>9 DEF KafkaHitDone, KafkaHitExpired, TaskDone, TaskCancelled,
     ClaimExisting, IInv, TypeOK
<1>10. ASSUME NEW t \in Task, NEW q \in Request, KafkaHitWaits(t, q)
      PROVE  WaitInv'
  <2> DEFINE e == Existing(q)
  <2>1. /\ accepting /\ e \in stored /\ kafkaIds' = kafkaIds \cup ({e} \cap pending)
        /\ e \notin Finished \/ e \in kafkaIds'
        /\ waiting' = [waiting EXCEPT ![t] = e]
        /\ UNCHANGED <<queue, pending>>
    BY <1>10 DEF KafkaHitWaits, ClaimExisting, Hit
  <2> HIDE DEF e
  <2>2. CASE e \notin Finished
    <3>1. e \in LiveIds
      BY <2>1, <2>2 DEF IInv, TypeOK, StoreTypeOK, TableInv, Finished, LiveIds
    <3>2. e \in pending
      BY <2>1, <3>1 DEF IInv, WorkInv, WorkIsStored, RouteInv
    <3>3. QED
      BY <1>6, <2>1, <3>2 DEF IInv, TypeOK
  <2>3. CASE e \in kafkaIds'
    BY <1>6, <2>1, <2>3 DEF IInv, TypeOK
  <2>4. QED
    BY <2>1, <2>2, <2>3
<1>11. QED
  <2>1. CASE Client
    <3>1. ASSUME NEW a \in AnalysisId, Read(a) PROVE WaitInv'
      BY <1>6, <3>1 DEF Read, runtimeVars
    <3>2. QED
      BY <1>4, <1>7, <1>8, <2>1, <3>1 DEF Client
  <2>2. ASSUME NEW t \in Task, KafkaCall(t) PROVE WaitInv'
    <3>1. CASE TaskDone(t) \/ TaskCancelled(t)
      BY <1>6, <3>1 DEF TaskDone, TaskCancelled, IInv, TypeOK
    <3>2. QED
      BY <1>5, <1>9, <1>10, <2>2, <3>1 DEF KafkaCall
  <2>3. QED
    BY <2>1, <2>2

\* Consumers: none dies, because what just finished still is in the table.
LEMMA ConsumeKeepsWait ==
    ASSUME Sized, IInv, WaitInv, NEW c \in Consumer, Consume(c)
    PROVE  WaitInv'
<1>1. CASE Take(c)
  <2>1. /\ Found(Head(queue)) /\ accepting
    BY <1>1, TakeFinds
  <2>2. /\ UNCHANGED <<accepting, pending, kafkaIds, waiting>>
        /\ pc' = [pc EXCEPT ![c] = "analyzing"]
        /\ job' = [job EXCEPT ![c] = Head(queue)]
        /\ pc[c] = "idle" /\ queue # <<>> /\ queue' = Tail(queue)
    BY <1>1, <2>1 DEF Take
  <2>3. \A b \in Queued : b = Head(queue) \/ b \in Queued'
    BY <2>2, TailQueued DEF IInv
  <2>4. /\ c \in Analyzing' /\ job'[c] = Head(queue)
        /\ \A d \in Analyzing \cup Saving :
              d \in Analyzing' \cup Saving' /\ job'[d] = job[d]
    BY <2>2 DEF Analyzing, Saving, IInv, TypeOK
  <2>5. ConsumersSurvive'
    BY <2>2 DEF WaitInv, ConsumersSurvive, IInv, TypeOK
  <2>6. QED
    BY <2>1, <2>2, <2>3, <2>4, <2>5 DEF WaitInv
<1>2. ASSUME NEW s \in Final, Finish(c, s) PROVE WaitInv'
  <2> DEFINE a == job[c]
  <2>1. /\ c \in Analyzing /\ accepting /\ a \in LiveIds
    BY <1>2 DEF Finish, Analyzing, IInv, WorkInv, WorkIsStored
  <2>2. Cardinality(LiveIds) <= MaxEntries
    <3>1. Cardinality(LiveIds) \in Nat
      <4>1. LiveIds \in SUBSET AnalysisId
        BY DEF LiveIds
      <4>2. QED
        BY <4>1, FiniteIds, FS_Subset, FS_CardinalityType
    <3>2. Cardinality(Consumer) \in Nat
      BY RuntimeAssumption, FS_CardinalityType
    <3>3. QED
      BY <2>1, <3>1, <3>2, LiveBound, RuntimeAssumption, StoreAssumption DEF Sized
  <2>3. a \in TableAtFinish(a)
    BY <2>1, <2>2, FinishedRecordSurvives DEF IInv, TypeOK
  <2>4. UNCHANGED <<accepting, queue>>
    BY <1>2 DEF Finish
  <2>5. CASE Route(c)
    BY <2>1, <2>4, <2>5, RouteKeepsWait
  <2>6. CASE ~Route(c)
    <3>1. /\ pc' = [pc EXCEPT ![c] = "saving"]
          /\ UNCHANGED <<job, pending, kafkaIds, waiting>>
      BY <1>2, <2>3, <2>6 DEF Finish
    <3>2. Queued' = Queued /\ Analyzing' \cup Saving' = Analyzing \cup Saving
      BY <2>1, <2>4, <3>1 DEF Queued, Analyzing, Saving, IInv, TypeOK
    <3>3. ConsumersSurvive'
      BY <3>1 DEF WaitInv, ConsumersSurvive, IInv, TypeOK
    <3>4. QED
      BY <2>4, <3>1, <3>2, <3>3 DEF WaitInv
  <2>7. QED
    BY <2>5, <2>6
<1>3. CASE AfterSave(c)
  BY <1>3, RouteKeepsWait DEF AfterSave, Saving, IInv, WorkInv
<1>4. CASE SetStage(c) \/ HistoryCommit(c) \/ CallbackReturns(c)
  <2>1. /\ UNCHANGED <<accepting, queue, pending, kafkaIds, waiting>>
        /\ Queued' = Queued
        /\ Analyzing' = Analyzing /\ Saving' = Saving
        /\ \A d \in Analyzing \cup Saving : job'[d] = job[d]
    BY <1>4 DEF SetStage, HistoryCommit, CallbackReturns, runtimeVars, Queued,
       Analyzing, Saving, IInv, TypeOK
  <2>2. ConsumersSurvive'
    BY <1>4 DEF SetStage, HistoryCommit, CallbackReturns, runtimeVars, WaitInv,
       ConsumersSurvive, IInv, TypeOK
  <2>3. QED
    BY <2>1, <2>2 DEF WaitInv
<1>5. QED
  BY <1>1, <1>2, <1>3, <1>4 DEF Consume

LEMMA NextKeepsWait ==
    ASSUME Sized, IInv, WaitInv, [Next]_vars
    PROVE  WaitInv'
<1>0. IInv'
  BY NextKeepsInv
<1>1. CASE Client \/ \E t \in Task : KafkaCall(t)
  BY <1>0, <1>1, CallsKeepWait
<1>2. ASSUME NEW c \in Consumer, Consume(c) PROVE WaitInv'
  BY <1>2, ConsumeKeepsWait
<1>3. CASE Janitor \/ \E a \in AnalysisId : TtlPasses(a)
  BY <1>3 DEF Janitor, TtlPasses, runtimeVars, WaitInv, ConsumersSurvive, Queued,
     Analyzing, Saving
<1>4. CASE Stop
  BY <1>4 DEF Stop, WaitInv, ConsumersSurvive
<1>5. CASE Restart
  BY <1>5 DEF Restart, WaitInv, ConsumersSurvive
<1>6. CASE UNCHANGED vars
  BY <1>6 DEF vars, WaitInv, ConsumersSurvive, Queued, Analyzing, Saving
<1>7. QED
  BY <1>1, <1>2, <1>3, <1>4, <1>5, <1>6 DEF Next, Environment

\* A table with room for the queue and the consumers never loses the record
\* that just finished, so no exception ends a consumer.
THEOREM SizedConsumersSurvive ==
    ASSUME Sized PROVE Spec => []ConsumersSurvive
<1>1. Init => WaitInv
  BY DEF Init, WaitInv, ConsumersSurvive
<1>2. IInv /\ WaitInv /\ [Next]_vars => WaitInv'
  BY NextKeepsWait
<1>3. WaitInv => ConsumersSurvive
  BY DEF WaitInv
<1>4. QED
  BY <1>1, <1>2, <1>3, InvariantHolds, PTL DEF Spec

\* In such a process whoever waits is owed an answer on Kafka.
THEOREM SizedWaitersAreOwed ==
    ASSUME Sized PROVE Spec => []WaiterIsOwed
<1>1. Init => WaitInv
  BY DEF Init, WaitInv, ConsumersSurvive
<1>2. IInv /\ WaitInv /\ [Next]_vars => WaitInv'
  BY NextKeepsWait
<1>3. IInv /\ WaitInv => WaiterIsOwed
  BY DEF IInv, RouteInv, WaitInv, WaiterIsOwed
<1>4. QED
  BY <1>1, <1>2, <1>3, InvariantHolds, PTL DEF Spec

(***************************************************************************)
(* The limit of the table.                                                 *)
(***************************************************************************)

\* The OrderedDict's order never runs in a circle.
IsOrder(O) ==
    /\ \A a, b : <<a, b>> \in O => <<b, a>> \notin O
    /\ \A a, b, c : <<a, b>> \in O /\ <<b, c>> \in O => <<a, c>> \in O

\* What holds on top of IInv for the limit: prune() finds an oldest record.
RoomInv == IsOrder(older) /\ StoreBounded

\* Removing records keeps the order of the others.
LEMMA RestrictedOrder ==
    ASSUME NEW O, IsOrder(O), NEW K
    PROVE  IsOrder({p \in O : p \in K \X K})
BY DEF IsOrder

\* move_to_end() keeps an order.
LEMMA MovedOrder ==
    ASSUME NEW O, IsOrder(O), NEW S, NEW a
    PROVE  IsOrder(Moved(a, S, O))
<1>1. \A x, y : <<x, y>> \in Moved(a, S, O) <=>
                   \/ <<x, y>> \in O /\ x \in S \ {a} /\ y \in S \ {a}
                   \/ x \in S \ {a} /\ y = a /\ a \in S
  BY DEF Moved
<1>2. QED
  BY <1>1 DEF IsOrder

\* Of the terminal records of a table, one is before all others.
LEMMA HasOldest ==
    ASSUME NEW S, IsFiniteSet(S), NEW O, IsOrder(O), NEW T, S \cap T # {}
    PROVE  \E a \in S \cap T : UpTo(a, S, O, T) = {a}
<1> DEFINE Before(a) == UpTo(a, S, O, T)
           Counts == {Cardinality(Before(a)) : a \in S \cap T}
           Below == OpToRel(<, Nat)
<1>1. \A a : Before(a) \subseteq S /\ IsFiniteSet(Before(a))
             /\ Cardinality(Before(a)) \in Nat
  <2> TAKE a
  <2>1. Before(a) \subseteq S
    BY DEF UpTo
  <2>2. QED
    BY <2>1, FS_Subset, FS_CardinalityType
<1>2. Counts \subseteq Nat /\ Counts # {}
  BY <1>1
<1>3. \A x, y \in Nat : <<x, y>> \in Below <=> x < y
  BY DEF OpToRel
<1>4. IsWellFoundedOn(Below, Nat)
  BY NatLessThanWellFounded
<1> HIDE DEF Counts, Below
<1>5. PICK n \in Counts : \A m \in Counts : ~(<<m, n>> \in Below)
  BY <1>2, <1>4, WFMin
<1>6. PICK a \in S \cap T : Cardinality(Before(a)) = n
  BY DEF Counts
<1>7. ASSUME NEW b \in Before(a), b # a PROVE FALSE
  <2>1. b \in S \cap T /\ <<b, a>> \in O
    BY <1>7 DEF UpTo
  <2>2. Before(b) \subseteq Before(a) /\ a \in Before(a) /\ a \notin Before(b)
    BY <1>6, <1>7, <2>1 DEF UpTo, IsOrder
  <2> HIDE DEF Before
  <2>3. Before(b) \in SUBSET Before(a) /\ Before(b) # Before(a)
    BY <2>2
  <2>4. Cardinality(Before(b)) < Cardinality(Before(a))
    BY <1>1, <2>3, FS_Subset
  <2>5. Cardinality(Before(b)) \in Counts
    BY <2>1 DEF Counts
  <2>6. QED
    BY <1>1, <1>3, <1>5, <1>6, <2>4, <2>5
<1>8. Before(a) = {a}
  BY <1>6, <1>7 DEF UpTo
<1>9. QED
  BY <1>6, <1>8

\* One record too many, and not all of them unfinished: prune() makes room.
LEMMA KeptFits ==
    ASSUME NEW S, IsFiniteSet(S), NEW O, IsOrder(O), NEW T,
           Cardinality(S) <= MaxEntries + 1, Cardinality(S \ T) <= MaxEntries
    PROVE  Cardinality(Kept(S, O, T)) <= MaxEntries
<1> DEFINE L == S \ expired
           K == Kept(S, O, T)
<1>1. MaxEntries \in Nat
  BY StoreAssumption
<1>2. /\ IsFiniteSet(L) /\ Cardinality(L) <= Cardinality(S)
      /\ L \ T \in SUBSET (S \ T) /\ K \in SUBSET L
  <2>1. L \in SUBSET S
    OBVIOUS
  <2>2. QED
    BY <2>1, FS_Subset DEF Kept
<1>3. IsFiniteSet(K) /\ Cardinality(K) <= Cardinality(L)
  BY <1>2, FS_Subset
<1>4. /\ Cardinality(S) \in Nat /\ Cardinality(L) \in Nat /\ Cardinality(K) \in Nat
  BY <1>2, <1>3, FS_CardinalityType
<1>5. CASE Cardinality(L) <= MaxEntries
  BY <1>1, <1>3, <1>4, <1>5
<1>6. CASE Cardinality(L) > MaxEntries
  <2>1. Cardinality(L) = MaxEntries + 1
    BY <1>1, <1>2, <1>4, <1>6
  <2>2. L \cap T # {}
    <3>1. IsFiniteSet(S \ T)
      BY FS_Subset
    <3>2. Cardinality(L \ T) <= Cardinality(S \ T) /\ IsFiniteSet(L \ T)
      BY <1>2, <3>1, FS_Subset
    <3>3. Cardinality(L \ T) \in Nat /\ Cardinality(S \ T) \in Nat
      BY <3>1, <3>2, FS_CardinalityType
    <3>4. L # L \ T
      BY <1>1, <1>4, <1>6, <3>2, <3>3
    <3>5. QED
      BY <3>4
  <2> HIDE DEF L
  <2>3. IsFiniteSet(L)
    BY <1>2
  <2>4. PICK a \in L \cap T : UpTo(a, L, O, T) = {a}
    BY <2>2, <2>3, HasOldest
  <2>5. Cardinality(UpTo(a, L, O, T)) <= Cardinality(L) - MaxEntries
    <3>1. Cardinality({a}) = 1
      BY FS_Singleton
    <3>2. QED
      BY <1>1, <2>1, <2>4, <3>1
  <2>6. a \in Evicted(L, O, T)
    BY <2>4, <2>5 DEF Evicted
  <2>7. K \in SUBSET L /\ K # L
    BY <1>2, <2>4, <2>6 DEF Kept, L
  <2> HIDE DEF K
  <2>8. Cardinality(K) < Cardinality(L)
    BY <1>4, <2>3, <2>7, FS_Subset
  <2>9. Cardinality(K) <= MaxEntries
    BY <1>1, <1>4, <2>1, <2>8
  <2>10. QED
    BY <2>9 DEF K
<1>7. QED
  BY <1>1, <1>4, <1>5, <1>6

\* A call that adds no record keeps the limit.
LEMMA ShrinkKeepsRoom ==
    ASSUME StoreTypeOK, RoomInv, NEW K \in SUBSET stored, NEW O, IsOrder(O),
           NEW gone, NEW I, NEW req, TableBecomes(K, O, gone, I, req)
    PROVE  RoomInv'
<1>1. stored' = K /\ IsOrder(older')
  BY RestrictedOrder DEF TableBecomes
<1>2. IsFiniteSet(stored)
  BY FiniteIds, FS_Subset DEF StoreTypeOK
<1>3. IsFiniteSet(K) /\ Cardinality(K) <= Cardinality(stored)
  BY <1>2, FS_Subset
<1>4. Cardinality(K) \in Nat /\ Cardinality(stored) \in Nat /\ MaxEntries \in Nat
  BY <1>2, <1>3, FS_CardinalityType, StoreAssumption
<1>5. Cardinality(stored') <= MaxEntries
  BY <1>1, <1>3, <1>4 DEF RoomInv, StoreBounded
<1>6. QED
  BY <1>1, <1>5 DEF RoomInv, StoreBounded

\* The work that is open after a step fits in a table sized for it.
LEMMA OpenWorkFits ==
    ASSUME Sized
    PROVE  (IInv /\ accepting => Cardinality(LiveIds) <= MaxEntries)'
<1>1. IInv /\ accepting => Cardinality(LiveIds) <= MaxEntries
  <2> SUFFICES ASSUME IInv, accepting
               PROVE  Cardinality(LiveIds) <= MaxEntries
    OBVIOUS
  <2>1. Cardinality(LiveIds) \in Nat
    <3>1. LiveIds \in SUBSET AnalysisId
      BY DEF LiveIds
    <3>2. QED
      BY <3>1, FiniteIds, FS_Subset, FS_CardinalityType
  <2>2. Cardinality(Consumer) \in Nat
    BY RuntimeAssumption, FS_CardinalityType
  <2>3. QED
    BY <2>1, <2>2, LiveBound, RuntimeAssumption, StoreAssumption DEF Sized
<1>2. QED
  BY <1>1, PTL

\* create_or_get() makes room for what it adds.
LEMMA EnqueueKeepsRoom ==
    ASSUME Sized, IInv, IInv', RoomInv, NEW a \in AnalysisId, NEW q \in Request,
           Enqueue(a, q), accepting'
    PROVE  RoomInv'
<1> DEFINE S == stored \cup {a}
           O == Moved(a, S, older)
           K == Kept(S, O, Finished)
<1>1. /\ TableBecomes(K, O, S \ K, [index EXCEPT ![IdOf[q]] = a], request')
      /\ status' = [status EXCEPT ![a] = "QUEUED"]
  BY DEF Enqueue, Create
<1>2. StoreTypeOK /\ TableInv
  BY DEF IInv, TypeOK
<1>3. IsFiniteSet(stored) /\ IsFiniteSet(S)
  BY <1>2, FiniteIds, FS_Subset, FS_AddElement DEF StoreTypeOK
<1>4. Cardinality(S) <= MaxEntries + 1
  <2>1. Cardinality(S) = IF a \in stored THEN Cardinality(stored)
                                         ELSE Cardinality(stored) + 1
    BY <1>3, FS_AddElement
  <2>2. Cardinality(stored) \in Nat /\ MaxEntries \in Nat
    BY <1>3, FS_CardinalityType, StoreAssumption
  <2>3. QED
    BY <2>1, <2>2 DEF RoomInv, StoreBounded
<1>5. Cardinality(S \ Finished) <= MaxEntries
  <2>1. S \ Finished \in SUBSET LiveIds'
    BY <1>1, <1>2 DEF StoreTypeOK, TableInv, LiveIds, Finished, Live, Final
  <2>2. IsFiniteSet(LiveIds')
    <3>1. LiveIds' \in SUBSET AnalysisId
      BY DEF LiveIds
    <3>2. QED
      BY <3>1, FiniteIds, FS_Subset
  <2>3. /\ IsFiniteSet(S \ Finished)
        /\ Cardinality(S \ Finished) <= Cardinality(LiveIds')
    BY <2>1, <2>2, FS_Subset
  <2>4. /\ Cardinality(S \ Finished) \in Nat /\ Cardinality(LiveIds') \in Nat
        /\ MaxEntries \in Nat
    BY <2>2, <2>3, FS_CardinalityType, StoreAssumption
  <2>5. Cardinality(LiveIds') <= MaxEntries
    BY OpenWorkFits
  <2>6. QED
    BY <2>3, <2>4, <2>5
<1>6. IsOrder(O)
  BY MovedOrder DEF RoomInv
<1> HIDE DEF S, O
<1>7. Cardinality(K) <= MaxEntries
  BY <1>3, <1>4, <1>5, <1>6, KeptFits
<1> HIDE DEF K
<1>8. stored' = K /\ IsOrder(older')
  BY <1>1, <1>6, RestrictedOrder DEF TableBecomes
<1>9. Cardinality(stored') <= MaxEntries
  BY <1>7, <1>8
<1>10. QED
  BY <1>8, <1>9 DEF RoomInv, StoreBounded

\* Looking a record up adds none.
LEMMA ReadKeepsRoom ==
    ASSUME StoreTypeOK, RoomInv, NEW a, GetRecord(a)
    PROVE  RoomInv'
<1> DEFINE K == Kept(stored, older, Finished)
           O == IF a \in K THEN Moved(a, K, older) ELSE older
<1>1. TableBecomes(K, O, stored \ K, index, request)
  BY DEF GetRecord
<1>2. K \in SUBSET stored
  BY KeptSubset
<1>3. IsOrder(O)
  BY MovedOrder DEF RoomInv
<1> HIDE DEF K, O
<1>4. QED
  BY <1>1, <1>2, <1>3, ShrinkKeepsRoom

\* Neither does finding the analysis of a request.
LEMMA ClaimKeepsRoom ==
    ASSUME StoreTypeOK, RoomInv, NEW q, ClaimExisting(q)
    PROVE  RoomInv'
<1> DEFINE O == Moved(Existing(q), stored, older)
           K == Kept(stored, O, Finished)
<1>1. TableBecomes(K, O, stored \ K, index, request)
  BY DEF ClaimExisting
<1>2. K \in SUBSET stored
  BY KeptSubset
<1>3. IsOrder(O)
  BY MovedOrder DEF RoomInv
<1> HIDE DEF K, O
<1>4. QED
  BY <1>1, <1>2, <1>3, ShrinkKeepsRoom

\* The end of an analysis prunes twice and adds nothing.
LEMMA FinishKeepsRoom ==
    ASSUME StoreTypeOK, RoomInv, NEW a, NEW s, CompleteOrFail(a, s)
    PROVE  RoomInv'
<1> DEFINE K == Kept(stored, older, Finished)
           O == Moved(a, K, older)
           L == TableAtFinish(a)
<1>1. TableBecomes(L, O, stored \ L, index, request)
  BY DEF CompleteOrFail
<1>2. L \in SUBSET stored
  <2>1. K \subseteq stored
    BY KeptSubset
  <2> HIDE DEF K
  <2>2. Kept(K, Moved(a, K, older), Finished \cup {a}) \subseteq K
    BY KeptSubset
  <2>3. QED
    BY <2>1, <2>2 DEF TableAtFinish, K
<1>3. IsOrder(O)
  BY MovedOrder DEF RoomInv
<1> HIDE DEF K, O, L
<1>4. QED
  BY <1>1, <1>2, <1>3, ShrinkKeepsRoom

LEMMA NextKeepsRoom ==
    ASSUME Sized, IInv, RoomInv, [Next]_vars
    PROVE  RoomInv'
<1>0. IInv' /\ StoreTypeOK
  BY NextKeepsInv DEF IInv, TypeOK
<1>1. ASSUME NEW a \in AnalysisId, NEW q \in Request, Enqueue(a, q),
             UNCHANGED accepting
      PROVE  RoomInv'
  BY <1>0, <1>1, EnqueueKeepsRoom DEF Enqueue
<1>2. ASSUME UNCHANGED <<stored, older>> PROVE RoomInv'
  BY <1>2 DEF RoomInv, StoreBounded
<1>3. CASE Client
  <2>1. ASSUME NEW a \in AnalysisId, NEW q \in Request, HttpNew(a, q)
        PROVE  RoomInv'
    BY <1>1, <2>1 DEF HttpNew
  <2>2. ASSUME NEW a \in AnalysisId, NEW q \in Request, QueueFull(a, q)
        PROVE  RoomInv'
    <3> DEFINE S == stored \cup {a}
               O == Moved(a, S, older)
               K == Kept(S, O, Finished)
               gone == (S \ K) \cup {a}
               I == [index EXCEPT ![IdOf[q]] = a]
               req == [request EXCEPT ![a] = q]
    <3>1. TableBecomes(K \ {a}, O, gone, I, req)
      BY <2>2 DEF QueueFull, CreateAndRemove
    <3>2. K \ {a} \in SUBSET stored
      BY KeptSubset
    <3>3. IsOrder(O)
      BY MovedOrder DEF RoomInv
    <3> HIDE DEF S, O, K, gone, I, req
    <3>4. QED
      BY <1>0, <3>1, <3>2, <3>3, ShrinkKeepsRoom
  <2>3. ASSUME NEW q \in Request, HttpHit(q) PROVE RoomInv'
    <3>1. older' = Moved(Existing(q), stored, older) /\ stored' = stored
      BY <2>3 DEF HttpHit, TouchExisting
    <3>2. IsOrder(older')
      BY <3>1, MovedOrder DEF RoomInv
    <3>3. QED
      BY <3>1, <3>2 DEF RoomInv, StoreBounded
  <2>4. ASSUME NEW a \in AnalysisId, Read(a) PROVE RoomInv'
    BY <1>0, <2>4, ReadKeepsRoom DEF Read
  <2>5. QED
    BY <1>3, <2>1, <2>2, <2>3, <2>4 DEF Client
<1>4. ASSUME NEW t \in Task, KafkaCall(t) PROVE RoomInv'
  <2>1. ASSUME NEW a \in AnalysisId, NEW q \in Request, KafkaNew(t, a, q)
        PROVE  RoomInv'
    BY <1>1, <2>1 DEF KafkaNew
  <2>2. ASSUME NEW q \in Request,
               KafkaHitDone(t, q) \/ KafkaHitWaits(t, q) \/ KafkaHitExpired(t, q)
        PROVE  RoomInv'
    BY <1>0, <2>2, ClaimKeepsRoom DEF KafkaHitDone, KafkaHitWaits, KafkaHitExpired
  <2>3. CASE TaskDone(t) \/ TaskCancelled(t)
    BY <1>2, <2>3 DEF TaskDone, TaskCancelled
  <2>4. QED
    BY <1>4, <2>1, <2>2, <2>3 DEF KafkaCall
<1>5. ASSUME NEW c \in Consumer, Consume(c) PROVE RoomInv'
  <2>1. CASE Take(c)
    BY <1>0, <2>1, ReadKeepsRoom DEF Take
  <2>2. CASE SetStage(c)
    BY <1>0, <2>2, ReadKeepsRoom DEF SetStage
  <2>3. ASSUME NEW s \in Final, Finish(c, s) PROVE RoomInv'
    BY <1>0, <2>3, FinishKeepsRoom DEF Finish
  <2>4. CASE HistoryCommit(c) \/ AfterSave(c) \/ CallbackReturns(c)
    BY <1>2, <2>4 DEF HistoryCommit, AfterSave, CallbackReturns
  <2>5. QED
    BY <1>5, <2>1, <2>2, <2>3, <2>4 DEF Consume
<1>6. CASE Janitor
  <2> DEFINE K == Kept(stored, older, Finished)
  <2>1. TableBecomes(K, older, stored \ K, index, request)
    BY <1>6 DEF Janitor, Prune
  <2>2. K \in SUBSET stored
    BY KeptSubset
  <2> HIDE DEF K
  <2>3. QED
    BY <1>0, <2>1, <2>2, ShrinkKeepsRoom DEF RoomInv
<1>7. CASE \/ \E a \in AnalysisId : TtlPasses(a)
           \/ Stop
           \/ UNCHANGED vars
  BY <1>2, <1>7 DEF TtlPasses, Expire, Stop, vars
<1>8. CASE Restart
  <2>1. stored' = {} /\ older' = {}
    BY <1>8 DEF Restart
  <2>2. Cardinality({}) = 0 /\ MaxEntries >= 0
    BY FS_EmptySet, StoreAssumption
  <2>3. QED
    BY <2>1, <2>2 DEF RoomInv, IsOrder, StoreBounded
<1>9. QED
  BY <1>3, <1>4, <1>5, <1>6, <1>7, <1>8 DEF Next, Environment

\* Between two steps the table of such a process never holds more than its
\* limit: one of the records is finished whenever a new one is a record too
\* many, and prune() finds the oldest of them.
THEOREM SizedStoreIsBounded ==
    ASSUME Sized PROVE Spec => []StoreBounded
<1>1. Init => RoomInv
  <2>1. Cardinality({}) = 0 /\ MaxEntries >= 0
    BY FS_EmptySet, StoreAssumption
  <2>2. QED
    BY <2>1 DEF Init, StoreInit, RoomInv, IsOrder, StoreBounded
<1>2. IInv /\ RoomInv /\ [Next]_vars => RoomInv'
  BY NextKeepsRoom
<1>3. RoomInv => StoreBounded
  BY DEF RoomInv
<1>4. QED
  BY <1>1, <1>2, <1>3, InvariantHolds, PTL DEF Spec

(***************************************************************************)
(* AnalysisRuntime implements AnalysisDelivery: table, consumers, history   *)
(* and waiters add nothing to, and lose nothing of, what is promised of     *)
(* the order, the end and the report of every analysis.                     *)
(***************************************************************************)


\* The initial states match.
LEMMA InitImplements == Init => Promise!DInit
BY DEF Init, StoreInit, Promise!DInit

\* Variables the promise is about.
promised == <<status, queue, pending, kafkaIds, route>>

LEMMA QuietImplements ==
    ASSUME UNCHANGED promised
    PROVE  UNCHANGED Promise!dvars
BY DEF promised, Promise!dvars

\* Routing by a consumer is the one report of the promise.
LEMMA RouteReports ==
    ASSUME IInv, NEW c \in Analyzing \cup Saving, Route(c)
    PROVE  job[c] \in AnalysisId /\ Promise!ReportOn(job[c])
<1>1. job[c] \in AnalysisId /\ job[c] \in pending /\ route[job[c]] = "none"
  BY DEF IInv, WorkInv, HoldsJob, RouteInv, Analyzing, Saving
<1>2. QED
  BY <1>1 DEF Route, Promise!ReportOn

LEMMA ClientImplements ==
    ASSUME IInv, Client
    PROVE  [Promise!DNext]_(Promise!dvars)
<1>1. ASSUME NEW q \in Request, NEW a \in AnalysisId, HttpNew(a, q)
      PROVE  Promise!DNext
  <2>1. Promise!Accept(a, FALSE)
    BY <1>1 DEF HttpNew, Enqueue, Create, Fresh, Promise!Accept
  <2>2. QED
    BY <2>1 DEF Promise!DNext
<1>2. ASSUME NEW q \in Request, NEW a \in AnalysisId, QueueFull(a, q)
      PROVE  UNCHANGED promised
  BY <1>2 DEF QueueFull, CreateAndRemove, runtimeVars, promised
<1>3. ASSUME NEW q \in Request, HttpHit(q) PROVE UNCHANGED promised
  BY <1>3 DEF HttpHit, TouchExisting, runtimeVars, promised
<1>4. ASSUME NEW a \in AnalysisId, Read(a) PROVE UNCHANGED promised
  BY <1>4 DEF Read, runtimeVars, promised
<1>5. QED
  BY <1>1, <1>2, <1>3, <1>4, QuietImplements DEF Client

LEMMA KafkaImplements ==
    ASSUME IInv, NEW t \in Task, KafkaCall(t)
    PROVE  [Promise!DNext]_(Promise!dvars)
<1>1. ASSUME NEW q \in Request, NEW a \in AnalysisId, KafkaNew(t, a, q)
      PROVE  Promise!DNext
  <2>1. Promise!Accept(a, TRUE)
    BY <1>1 DEF KafkaNew, Enqueue, Create, Fresh, Promise!Accept
  <2>2. QED
    BY <2>1 DEF Promise!DNext
<1>2. ASSUME NEW q \in Request,
             KafkaHitDone(t, q) \/ KafkaHitWaits(t, q) \/ KafkaHitExpired(t, q)
      PROVE  [Promise!DNext]_(Promise!dvars)
  <2> DEFINE e == Existing(q)
  <2>1. /\ UNCHANGED <<status, queue, pending, route>>
        /\ kafkaIds' = kafkaIds \cup ({e} \cap pending)
    BY <1>2 DEF KafkaHitDone, KafkaHitWaits, KafkaHitExpired, ClaimExisting
  <2> HIDE DEF e
  <2>2. CASE e \in pending
    <3>1. e \in AnalysisId
      BY <2>2 DEF IInv, TypeOK
    <3>2. Promise!Claim(e)
      BY <2>1, <2>2 DEF Promise!Claim
    <3>3. QED
      BY <3>1, <3>2 DEF Promise!DNext
  <2>3. CASE e \notin pending
    <3>1. kafkaIds' = kafkaIds
      BY <2>1, <2>3
    <3>2. QED
      BY <2>1, <3>1, QuietImplements DEF promised
  <2>4. QED
    BY <2>2, <2>3
<1>3. ASSUME TaskDone(t) \/ TaskCancelled(t) PROVE UNCHANGED promised
  BY <1>3 DEF TaskDone, TaskCancelled, promised
<1>4. QED
  BY <1>1, <1>2, <1>3, QuietImplements DEF KafkaCall

LEMMA ConsumeImplements ==
    ASSUME IInv, NEW c \in Consumer, Consume(c)
    PROVE  [Promise!DNext]_(Promise!dvars)
<1>1. CASE Take(c)
  <2>1. Promise!Start(Head(queue)) /\ Head(queue) \in AnalysisId
    BY <1>1, TakeFinds DEF Take, Promise!Start
  <2>2. QED
    BY <2>1 DEF Promise!DNext
<1>2. ASSUME NEW s \in Final, Finish(c, s) PROVE Promise!DNext
  <2>1. /\ c \in Analyzing /\ job[c] \in AnalysisId
        /\ status[job[c]] = "PROCESSING"
        /\ status' = [status EXCEPT ![job[c]] = s]
        /\ queue' = queue
    BY <1>2 DEF Finish, CompleteOrFail, Analyzing, IInv, WorkInv, WorkIsStored,
       HoldsJob
  <2>2. Promise!ReportOn(job[c]) \/ UNCHANGED <<pending, kafkaIds, route>>
    BY <1>2, <2>1, RouteReports DEF Finish
  <2>3. Promise!End(job[c], s)
    BY <2>1, <2>2 DEF Promise!End
  <2>4. QED
    BY <2>1, <2>3 DEF Promise!DNext, Final
<1>3. CASE AfterSave(c)
  <2>1. c \in Saving /\ status[job[c]] \in Final
    BY <1>3 DEF AfterSave, Saving, IInv, WorkInv
  <2>2. job[c] \in AnalysisId /\ Promise!Report(job[c])
    BY <1>3, <2>1, RouteReports DEF AfterSave, Promise!Report, Final
  <2>3. QED
    BY <2>2 DEF Promise!DNext
<1>4. CASE SetStage(c) \/ HistoryCommit(c) \/ CallbackReturns(c)
  BY <1>4, QuietImplements
  DEF SetStage, HistoryCommit, CallbackReturns, runtimeVars, promised
<1>5. QED
  BY <1>1, <1>2, <1>3, <1>4 DEF Consume

LEMMA EnvironmentImplements ==
    ASSUME IInv, Environment
    PROVE  [Promise!DNext]_(Promise!dvars)
<1>1. CASE Restart
  <2>1. Promise!Replace
    BY <1>1 DEF Restart, Promise!Replace, Live
  <2>2. QED
    BY <2>1 DEF Promise!DNext
<1>2. CASE Janitor \/ Stop \/ \E a \in AnalysisId : TtlPasses(a)
  BY <1>2, QuietImplements
  DEF Janitor, Prune, Stop, TtlPasses, Expire, runtimeVars, promised
<1>3. QED
  BY <1>1, <1>2 DEF Environment

\* Whatever the sizes, and with consumers dying or not, the runtime keeps the
\* promises of AnalysisDelivery.
THEOREM RuntimeImplementsDelivery == Spec => ImplementsDelivery
<1>1. IInv /\ [Next]_vars => [Promise!DNext]_(Promise!dvars)
  <2> SUFFICES ASSUME IInv, [Next]_vars
               PROVE  [Promise!DNext]_(Promise!dvars)
    OBVIOUS
  <2>1. CASE UNCHANGED vars
    BY <2>1, QuietImplements DEF vars, promised
  <2>2. CASE Next
    BY <2>2, ClientImplements, KafkaImplements, ConsumeImplements,
       EnvironmentImplements DEF Next
  <2>3. QED
    BY <2>1, <2>2
<1>2. QED
  BY <1>1, InitImplements, InvariantHolds, PTL
  DEF Spec, ImplementsDelivery, Promise!DSpec
=============================================================================
