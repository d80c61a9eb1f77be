------------------------ MODULE AnalysisKafkaProofs ------------------------
(* Proofs about AnalysisKafka, for any topic, any number of partitions,    *)
(* consumers and faults, and any limits.                                   *)
EXTENDS AnalysisKafka, AnalysisRuntimeProofs

(***************************************************************************)
(* The inductive invariant.                                                *)
(***************************************************************************)

\* The position is at most one record ahead of the committed offset, and
\* exactly there when nobody works on an assigned partition.
OffsetsInv ==
    \A p \in Task :
        /\ committed[p] <= fetched[p] /\ fetched[p] <= committed[p] + 1
        /\ owned[p] /\ worker[p] = "none" => fetched[p] = committed[p]
        /\ worker[p] # "none" => owned[p] /\ fetched[p] \in DOMAIN log[p]

\* What a worker waits for, or was given, is an analysis of its own record.
Holds(p) ==
    /\ waiting[p] # None =>
          /\ answer[p] = None
          /\ worker[p] = "handling"
          /\ status[waiting[p]] # "NONE"
          /\ request[waiting[p]] = Record(p)
    /\ answer[p] # None =>
          /\ worker[p] = "handling"
          /\ status[answer[p]] \in Final
          /\ request[answer[p]] = Record(p)

WorkerInv == \A p \in Task : Holds(p)

\* A worker that commits has published.
CommitInv ==
    \A p \in Task : worker[p] = "committing" =>
        \E a \in AnalysisId : <<p, fetched[p], a>> \in events

KInv ==
    /\ Group!PTypeOK
    /\ events \subseteq Task \X Nat \X AnalysisId
    /\ OffsetsInv
    /\ WorkerInv
    /\ CommitInv
    /\ PublishedIsRight
    /\ NothingSkipped
    /\ NoOvertaking

LEMMA KInitInv == KInit => IInv /\ KInv
<1> SUFFICES ASSUME KInit PROVE IInv /\ KInv
  OBVIOUS
<1>1. IInv
  BY InitInv DEF KInit
<1>2. Group!PTypeOK /\ OffsetsInv
  BY DEF KInit, Group!PInit, Group!PTypeOK, OffsetsInv
<1>3. WorkerInv /\ CommitInv
  BY DEF KInit, Group!PInit, Init, WorkerInv, Holds, CommitInv
<1>4. NothingSkipped
  BY DEF KInit, Group!PInit, NothingSkipped
<1>5. QED
  BY <1>1, <1>2, <1>3, <1>4
  DEF KInit, KInv, PublishedIsRight, NoOvertaking

(***************************************************************************)
(* What the runtime does to analyses and to handlers.                      *)
(***************************************************************************)

\* The request of an analysis and the status of a finished one never change.
Stable ==
    /\ \A a \in AnalysisId : status[a] # "NONE" =>
          status'[a] # "NONE" /\ request'[a] = request[a]
    /\ \A a \in AnalysisId : status[a] \in Final => status'[a] = status[a]

LEMMA EnqueueStable ==
    ASSUME IInv, NEW a \in AnalysisId, NEW q, Enqueue(a, q)
    PROVE  Stable
BY DEF Enqueue, Create, Fresh, Stable, Final, IInv, TypeOK, StoreTypeOK

LEMMA NextStable ==
    ASSUME IInv, [Next]_vars
    PROVE  Stable
<1> USE DEF IInv, TypeOK, StoreTypeOK
<1>1. ASSUME UNCHANGED <<request, status>> PROVE Stable
  BY <1>1 DEF Stable
<1>2. CASE Client
  <2>1. ASSUME NEW q \in Request, NEW a \in AnalysisId, HttpNew(a, q)
        PROVE  Stable
    BY <2>1, EnqueueStable DEF HttpNew
  <2>2. QED
    BY <1>1, <1>2, <2>1
    DEF Client, QueueFull, CreateAndRemove, HttpHit, TouchExisting, Read
<1>3. ASSUME NEW t \in Task, KafkaCall(t) PROVE Stable
  <2>1. ASSUME NEW q \in Request, NEW a \in AnalysisId, KafkaNew(t, a, q)
        PROVE  Stable
    BY <2>1, EnqueueStable DEF KafkaNew
  <2>2. QED
    BY <1>1, <1>3, <2>1
    DEF KafkaCall, KafkaHitDone, KafkaHitWaits, KafkaHitExpired,
        ClaimExisting, TaskDone, TaskCancelled
<1>4. ASSUME NEW c \in Consumer, Consume(c) PROVE Stable
  <2>1. CASE Take(c)
    <3>1. status[Head(queue)] = "QUEUED" /\ Head(queue) \in AnalysisId
      BY <2>1, TakeFinds
    <3>2. QED
      BY <2>1, <3>1 DEF Take, Stable, Final
  <2>2. ASSUME NEW s \in Final, Finish(c, s) PROVE Stable
    <3>1. status[job[c]] = "PROCESSING" /\ job[c] \in AnalysisId
      BY <2>2 DEF Finish, Analyzing, WorkInv, WorkIsStored, HoldsJob
    <3>2. QED
      BY <2>2, <3>1 DEF Finish, CompleteOrFail, Stable, Final
  <2>3. QED
    BY <1>1, <1>4, <2>1, <2>2
    DEF Consume, SetStage, HistoryCommit, AfterSave, CallbackReturns
<1>5. CASE Environment
  <2>1. CASE Restart
    BY <2>1 DEF Restart, Stable, Live, Final
  <2>2. QED
    BY <1>1, <1>5, <2>1
    DEF Environment, Janitor, Prune, TtlPasses, Expire, Stop
<1>6. QED
  BY <1>1, <1>2, <1>3, <1>4, <1>5 DEF Next, vars

\* Between their own calls, handlers are left alone or are given the finished
\* analysis they wait for.
Served ==
    \A p \in Task :
        \/ UNCHANGED <<waiting[p], answer[p]>>
        \/ /\ waiting[p] # None /\ waiting'[p] = None
           /\ answer'[p] = waiting[p]
           /\ status'[waiting[p]] \in Final

LEMMA RouteServes ==
    ASSUME IInv, NEW c \in Consumer, Route(c), status'[job[c]] \in Final,
           job[c] \in AnalysisId
    PROVE  Served
BY StoreAssumption DEF Route, Served, IInv, TypeOK

LEMMA RestServes ==
    ASSUME IInv, Rest
    PROVE  Served
<1> USE DEF IInv, TypeOK, StoreTypeOK
<1>1. ASSUME UNCHANGED <<waiting, answer>> PROVE Served
  BY <1>1 DEF Served
<1>2. CASE Client
  BY <1>1, <1>2
  DEF Client, HttpNew, HttpHit, QueueFull, Read, runtimeVars
<1>3. ASSUME NEW c \in Consumer, Consume(c) PROVE Served
  <2>1. ASSUME NEW s \in Final, Finish(c, s) PROVE Served
    <3>1. job[c] \in AnalysisId /\ status'[job[c]] \in Final
      BY <2>1 DEF Finish, CompleteOrFail, Analyzing, WorkInv, HoldsJob
    <3>2. Route(c) \/ UNCHANGED <<waiting, answer>>
      BY <2>1 DEF Finish
    <3>3. QED
      BY <1>1, <3>1, <3>2, RouteServes
  <2>2. CASE AfterSave(c)
    <3>1. job[c] \in AnalysisId /\ status'[job[c]] \in Final
      BY <2>2 DEF AfterSave, Saving, WorkInv, HoldsJob
    <3>2. QED
      BY <2>2, <3>1, RouteServes DEF AfterSave
  <2>3. QED
    BY <1>1, <1>3, <2>1, <2>2
    DEF Consume, Take, SetStage, HistoryCommit, CallbackReturns, runtimeVars
<1>4. CASE Janitor \/ \E a \in AnalysisId : TtlPasses(a)
  BY <1>1, <1>4 DEF Janitor, TtlPasses, runtimeVars
<1>5. QED
  BY <1>2, <1>3, <1>4 DEF Rest

(***************************************************************************)
(* The Kafka adapter changes the runtime by its calls only.                *)
(***************************************************************************)

\* The record a worker handles, when it is no malformed one.
LEMMA RecordIsRequest ==
    ASSUME KInv, NEW p \in Task, worker[p] = "handling", Record(p) # Malformed
    PROVE  Record(p) \in Request
<1>1. log[p] \in Seq(Request \cup {Malformed}) /\ fetched[p] \in DOMAIN log[p]
  BY KafkaAssumption DEF KInv, OffsetsInv
<1>2. log[p][fetched[p]] \in Request \cup {Malformed}
  BY <1>1
<1>3. QED
  BY <1>2 DEF Record

\* Every step of the composed system is a step of the runtime or leaves it.
LEMMA StepOfRuntime ==
    ASSUME KInv, [KNext]_kvars
    PROVE  [Next]_vars
<1>1. ASSUME NEW p \in Task, Handle(p) PROVE Next
  <2>1. Record(p) \in Request
    BY <1>1, RecordIsRequest DEF Handle
  <2>2. QED
    BY <1>1, <2>1 DEF Handle, Next, KafkaCall, Client
<1>2. ASSUME NEW p \in Task, Publish(p) \/ PublishFails(p) \/ Revoke(p)
      PROVE  [Next]_vars
  BY <1>2 DEF Publish, PublishFails, Revoke, Cancelled, Next, KafkaCall
<1>3. ASSUME NEW p \in Task, Poll(p) \/ Commit(p) \/ CommitFails(p) \/ Assign(p)
      PROVE  UNCHANGED vars
  BY <1>3 DEF Poll, Commit, CommitFails, Assign
<1>4. Rest \/ Shutdown \/ NewProcess => Next
  BY DEF Rest, Shutdown, NewProcess, Next, Environment
<1>5. UNCHANGED kvars => UNCHANGED vars
  BY DEF kvars
<1>6. QED
  BY <1>1, <1>2, <1>3, <1>4, <1>5 DEF KNext, Worker

(***************************************************************************)
(* The invariant is kept.  First its parts about offsets, then those about *)
(* what a worker holds, then those about the events.                       *)
(***************************************************************************)

LEMMA OffsetsKept ==
    ASSUME KInv, [KNext]_kvars
    PROVE  Group!PTypeOK' /\ OffsetsInv'
<1> USE DEF KInv, Group!PTypeOK, OffsetsInv
<1>1. ASSUME NEW p \in Task, Poll(p) PROVE Group!PTypeOK' /\ OffsetsInv'
  <2>1. log[p] \in Seq(Request \cup {Malformed})
    BY KafkaAssumption
  <2>2. fetched[p] + 1 \in DOMAIN log[p] /\ fetched[p] = committed[p]
    BY <1>1, <2>1 DEF Poll, Group!Poll
  <2>3. QED
    BY <1>1, <2>2 DEF Poll, Group!Poll
<1>2. ASSUME NEW p \in Task, Publish(p) PROVE Group!PTypeOK' /\ OffsetsInv'
  BY <1>2 DEF Publish, Group!HandlerReturns
<1>3. ASSUME NEW p \in Task, Commit(p) \/ CommitFails(p)
      PROVE  Group!PTypeOK' /\ OffsetsInv'
  BY <1>3 DEF Commit, CommitFails, Group!CommitOk, Group!CommitFails
<1>4. ASSUME NEW p \in Task, Revoke(p) \/ Assign(p)
      PROVE  Group!PTypeOK' /\ OffsetsInv'
  <2>1. /\ \A t \in Task \ {p} : UNCHANGED <<owned[t], worker[t], fetched[t]>>
        /\ worker'[p] = "none"
        /\ UNCHANGED committed
    BY <1>4 DEF Revoke, Assign, Group!Revoked, Group!Assigned
  <2>2. \/ ~owned'[p] /\ fetched'[p] = fetched[p]
        \/ fetched'[p] = committed[p]
    BY <1>4 DEF Revoke, Assign, Group!Revoked, Group!Assigned
  <2>3. Group!PTypeOK'
    BY <1>4 DEF Revoke, Assign, Group!Revoked, Group!Assigned
  <2>4. QED
    BY <2>1, <2>2, <2>3
<1>5. CASE NewProcess
  BY <1>5 DEF NewProcess, Group!Rejoined
<1>6. ASSUME UNCHANGED <<owned, fetched, committed, worker>>
      PROVE  Group!PTypeOK' /\ OffsetsInv'
  BY <1>6
<1>7. QED
  BY <1>1, <1>2, <1>3, <1>4, <1>5, <1>6
  DEF KNext, Worker, Handle, PublishFails, Rest, Shutdown, kvars, kafkaVars

\* A worker that is left alone, with its position, keeps what it holds.
LEMMA WorkerLeftAlone ==
    ASSUME IInv, KInv, Stable, NEW p \in Task,
           UNCHANGED <<waiting[p], answer[p], worker[p], fetched[p]>>
    PROVE  Holds(p)'
<1>1. /\ waiting[p] \in AnalysisId \cup {None}
      /\ answer[p] \in AnalysisId \cup {None}
  BY DEF IInv, TypeOK
<1>2. Record(p)' = Record(p)
  BY DEF Record
<1>3. QED
  BY <1>1, <1>2 DEF KInv, WorkerInv, Holds, Stable, Final

\* A handler's call leaves the other workers alone and holds nothing, or an
\* analysis of its record.
LEMMA HandleKept ==
    ASSUME IInv, KInv, Stable, NEW p \in Task, Handle(p)
    PROVE  WorkerInv'
<1> DEFINE q == Record(p)
<1>1. /\ worker[p] = "handling" /\ UNCHANGED <<worker, fetched>>
      /\ \A t \in Task : Record(t)' = Record(t)
      /\ q \in Request
  BY RecordIsRequest DEF Handle, kafkaVars, Record
<1>2. waiting \in [Task -> AnalysisId \cup {None}]
      /\ answer \in [Task -> AnalysisId \cup {None}]
      /\ request \in [AnalysisId -> Request \cup {None}]
      /\ status \in [AnalysisId -> Status]
  BY DEF IInv, TypeOK, StoreTypeOK
<1>3. \A t \in Task \ {p} : UNCHANGED <<waiting[t], answer[t]>>
  BY <1>2 DEF Handle, KafkaNew, KafkaHitDone, KafkaHitWaits, KafkaHitExpired,
     QueueFull, runtimeVars
<1>4. \A t \in Task \ {p} : Holds(t)'
  BY <1>1, <1>3, WorkerLeftAlone
<1>5. Holds(p)'
  <2>1. ASSUME NEW a \in AnalysisId, KafkaNew(p, a, q) PROVE Holds(p)'
    <3>1. /\ waiting'[p] = a /\ answer'[p] = None
          /\ status'[a] = "QUEUED" /\ request'[a] = q
      BY <1>2, <2>1 DEF KafkaNew, Outside, Enqueue, Create
    <3>2. QED
      BY <1>1, <3>1 DEF Holds
  <2>2. ASSUME KafkaHitDone(p, q) PROVE Holds(p)'
    <3>1. /\ waiting'[p] = None /\ answer'[p] = Existing(q)
          /\ status'[Existing(q)] \in Final /\ request'[Existing(q)] = q
      BY <1>2, <2>2
      DEF KafkaHitDone, Outside, ClaimExisting, Hit, Finished
    <3>2. QED
      BY <1>1, <3>1 DEF Holds
  <2>3. ASSUME KafkaHitWaits(p, q) PROVE Holds(p)'
    <3>1. /\ waiting'[p] = Existing(q) /\ answer'[p] = None
          /\ status'[Existing(q)] = status[Existing(q)]
          /\ Existing(q) \in stored /\ request'[Existing(q)] = q
      BY <1>2, <2>3 DEF KafkaHitWaits, Outside, ClaimExisting, Hit
    <3>2. status[Existing(q)] # "NONE"
      BY <3>1 DEF IInv, TableInv, Live, Final
    <3>3. QED
      BY <1>1, <3>1, <3>2 DEF Holds
  <2>4. ASSUME KafkaHitExpired(p, q) \/ \E a \in AnalysisId : QueueFull(a, q)
        PROVE  Holds(p)'
    <3>1. UNCHANGED <<waiting[p], answer[p]>>
      BY <2>4 DEF KafkaHitExpired, QueueFull, runtimeVars
    <3>2. QED
      BY <1>1, <3>1, WorkerLeftAlone
  <2>5. QED
    BY <2>1, <2>2, <2>3, <2>4 DEF Handle
<1>6. QED
  BY <1>4, <1>5 DEF WorkerInv

LEMMA WorkerKept ==
    ASSUME IInv, KInv, [KNext]_kvars
    PROVE  WorkerInv'
<1>1. Stable
  BY StepOfRuntime, NextStable
<1>2. waiting \in [Task -> AnalysisId \cup {None}]
      /\ answer \in [Task -> AnalysisId \cup {None}]
  BY DEF IInv, TypeOK
<1>3. \A p \in Task : worker[p] # "handling" =>
                          waiting[p] = None /\ answer[p] = None
  BY DEF KInv, WorkerInv, Holds
<1>4. \A p \in Task : ~owned[p] => waiting[p] = None /\ answer[p] = None
  BY <1>3 DEF KInv, OffsetsInv
<1>5. ASSUME NEW p \in Task,
             waiting'[p] = None, answer'[p] = None,
             \A t \in Task \ {p} :
                UNCHANGED <<waiting[t], answer[t], worker[t], fetched[t]>>
      PROVE  WorkerInv'
  <2>1. \A t \in Task \ {p} : Holds(t)'
    BY <1>1, <1>5, WorkerLeftAlone
  <2>2. Holds(p)'
    BY <1>5 DEF Holds
  <2>3. QED
    BY <2>1, <2>2 DEF WorkerInv
<1>6. ASSUME UNCHANGED <<waiting, answer, worker, fetched>> PROVE WorkerInv'
  <2>1. \A t \in Task : Holds(t)'
    BY <1>1, <1>6, WorkerLeftAlone
  <2>2. QED
    BY <2>1 DEF WorkerInv
<1>7. ASSUME NEW p \in Task, Poll(p) \/ Commit(p) \/ CommitFails(p) \/ Assign(p)
      PROVE  WorkerInv'
  <2>1. /\ waiting[p] = None /\ answer[p] = None
        /\ UNCHANGED <<waiting, answer>>
    BY <1>3, <1>4, <1>7
    DEF Poll, Commit, CommitFails, Assign, vars, Group!Poll, Group!CommitOk,
        Group!CommitFails, Group!Assigned
  <2>2. \A t \in Task \ {p} : UNCHANGED <<worker[t], fetched[t]>>
    BY <1>7
    DEF KInv, Group!PTypeOK, Poll, Commit, CommitFails, Assign, Group!Poll,
        Group!CommitOk, Group!CommitFails, Group!Assigned
  <2>3. QED
    BY <1>5, <2>1, <2>2
<1>8. ASSUME NEW p \in Task, Publish(p) \/ PublishFails(p) \/ Revoke(p)
      PROVE  WorkerInv'
  <2>1. /\ waiting'[p] = None /\ answer'[p] = None
        /\ \A t \in Task \ {p} : UNCHANGED <<waiting[t], answer[t]>>
    BY <1>2, <1>8
    DEF Publish, PublishFails, Revoke, Cancelled, TaskDone, TaskCancelled,
        Outside, vars, KInv, WorkerInv, Holds
  <2>2. \A t \in Task \ {p} : UNCHANGED <<worker[t], fetched[t]>>
    BY <1>8
    DEF KInv, Group!PTypeOK, Publish, PublishFails, Revoke,
        Group!HandlerReturns, Group!Revoked
  <2>3. QED
    BY <1>5, <2>1, <2>2
<1>9. CASE Rest
  <2>1. Served /\ UNCHANGED <<worker, fetched>>
    BY <1>9, RestServes DEF Rest, kafkaVars
  <2>2. ASSUME NEW t \in Task PROVE Holds(t)'
    <3>1. CASE UNCHANGED <<waiting[t], answer[t]>>
      BY <1>1, <2>1, <3>1, WorkerLeftAlone
    <3>2. CASE /\ waiting[t] # None /\ waiting'[t] = None
               /\ answer'[t] = waiting[t]
               /\ status'[waiting[t]] \in Final
      <4>1. /\ worker[t] = "handling" /\ request[waiting[t]] = Record(t)
            /\ status[waiting[t]] # "NONE" /\ waiting[t] \in AnalysisId
        BY <1>2, <3>2 DEF KInv, WorkerInv, Holds
      <4>2. request'[waiting[t]] = Record(t)'
        BY <1>1, <2>1, <4>1 DEF Stable, Record
      <4>3. QED
        BY <2>1, <3>2, <4>1, <4>2 DEF Holds
    <3>3. QED
      BY <2>1, <3>1, <3>2 DEF Served
  <2>3. QED
    BY <2>2 DEF WorkerInv
<1>10. CASE Shutdown
  <2>1. \A t \in Task : waiting[t] = None
    BY <1>4, <1>10 DEF Shutdown
  <2>2. UNCHANGED <<waiting, answer, worker, fetched>>
    BY <1>2, <1>10, <2>1 DEF Shutdown, Stop, kafkaVars
  <2>3. QED
    BY <1>6, <2>2
<1>11. CASE NewProcess
  BY <1>11 DEF NewProcess, Restart, WorkerInv, Holds
<1>12. UNCHANGED kvars => UNCHANGED <<waiting, answer, worker, fetched>>
  BY DEF kvars, vars, kafkaVars
<1>13. QED
  BY <1>1, <1>6, <1>7, <1>8, <1>9, <1>10, <1>11, <1>12, HandleKept
  DEF KNext, Worker

\* Offsets and events only grow, and an offset is only advanced to the
\* position of a worker that commits.
LEMMA BrokerGrows ==
    ASSUME KInv, [KNext]_kvars
    PROVE  /\ events \subseteq events'
           /\ \A p \in Task :
                 \/ committed'[p] = committed[p]
                 \/ committed'[p] = fetched[p] /\ worker[p] = "committing"
<1>1. ASSUME NEW p \in Task, Commit(p) \/ CommitFails(p)
      PROVE  \A t \in Task :
                 \/ committed'[t] = committed[t]
                 \/ committed'[t] = fetched[t] /\ worker[t] = "committing"
  BY <1>1 DEF Commit, CommitFails, Group!CommitOk, Group!CommitFails, KInv,
     Group!PTypeOK
<1>2. ASSUME NEW p \in Task, Commit(p) \/ CommitFails(p)
      PROVE  UNCHANGED events
  BY <1>2 DEF Commit, CommitFails
<1>3. ASSUME NEW p \in Task, Publish(p) \/ PublishFails(p)
      PROVE  events \subseteq events' /\ UNCHANGED committed
  BY <1>3 DEF Publish, PublishFails, Group!HandlerReturns
<1>4. ASSUME NEW p \in Task,
             Poll(p) \/ Handle(p) \/ Revoke(p) \/ Assign(p)
      PROVE  UNCHANGED <<events, committed>>
  BY <1>4 DEF Poll, Handle, Revoke, Assign, kafkaVars, Group!Poll,
     Group!Revoked, Group!Assigned
<1>5. Rest \/ Shutdown \/ NewProcess \/ UNCHANGED kvars
        => UNCHANGED <<events, committed>>
  BY DEF Rest, Shutdown, NewProcess, kafkaVars, kvars, Group!Rejoined
<1>6. QED
  BY <1>1, <1>2, <1>3, <1>4, <1>5 DEF KNext, Worker

\* A new event is that of a worker for the record it handles.
LEMMA EventsAdded ==
    ASSUME [KNext]_kvars, NEW e \in events' \ events
    PROVE  \E p \in Task :
              /\ worker[p] = "handling" /\ answer[p] # None
              /\ e = Event(p)
              /\ UNCHANGED committed
<1>1. ASSUME NEW p \in Task, Publish(p) \/ PublishFails(p)
      PROVE  /\ worker[p] = "handling" /\ answer[p] # None
             /\ e = Event(p)
             /\ UNCHANGED committed
  BY <1>1 DEF Publish, PublishFails, TaskDone, Group!HandlerReturns
<1>2. ASSUME NEW p \in Task,
             Poll(p) \/ Handle(p) \/ Commit(p) \/ CommitFails(p)
                \/ Revoke(p) \/ Assign(p)
      PROVE  UNCHANGED events
  BY <1>2 DEF Poll, Handle, Commit, CommitFails, Revoke, Assign, kafkaVars
<1>3. Rest \/ Shutdown \/ NewProcess \/ UNCHANGED kvars => UNCHANGED events
  BY DEF Rest, Shutdown, NewProcess, kafkaVars, kvars
<1>4. QED
  BY <1>1, <1>2, <1>3 DEF KNext, Worker

LEMMA EventsKept ==
    ASSUME IInv, KInv, [KNext]_kvars
    PROVE  /\ events' \subseteq Task \X Nat \X AnalysisId
           /\ PublishedIsRight'
           /\ NoOvertaking'
<1>1. Stable
  BY StepOfRuntime, NextStable
<1>2. ASSUME NEW e \in events
      PROVE  /\ e \in Task \X Nat \X AnalysisId
             /\ status'[e[3]] \in Final
             /\ e[2] \in DOMAIN log[e[1]] /\ request'[e[3]] = log[e[1]][e[2]]
             /\ e[2] <= committed'[e[1]] + 1
  <2>1. e[1] \in Task /\ e[2] \in Nat /\ e[3] \in AnalysisId
    BY DEF KInv
  <2>2. status'[e[3]] \in Final /\ request'[e[3]] = request[e[3]]
    BY <1>1, <2>1 DEF Stable, KInv, PublishedIsRight, Final
  <2>3. committed[e[1]] <= committed'[e[1]]
        /\ committed[e[1]] \in Nat /\ committed'[e[1]] \in Nat
    BY <2>1, BrokerGrows DEF KInv, OffsetsInv, Group!PTypeOK
  <2>4. e[2] <= committed'[e[1]] + 1
    BY <2>1, <2>3 DEF KInv, NoOvertaking
  <2>5. QED
    BY <2>2, <2>4 DEF KInv, PublishedIsRight
<1>3. ASSUME NEW e \in events' \ events
      PROVE  /\ e \in Task \X Nat \X AnalysisId
             /\ status'[e[3]] \in Final
             /\ e[2] \in DOMAIN log[e[1]] /\ request'[e[3]] = log[e[1]][e[2]]
             /\ e[2] <= committed'[e[1]] + 1
  <2>1. PICK p \in Task : /\ worker[p] = "handling" /\ answer[p] # None
                          /\ e = Event(p)
                          /\ UNCHANGED committed
    BY EventsAdded
  <2>2. e[1] = p /\ e[2] = fetched[p] /\ e[3] = answer[p]
        /\ answer[p] \in AnalysisId /\ e = <<p, fetched[p], answer[p]>>
    BY <2>1 DEF Event, IInv, TypeOK
  <2>3. /\ status[answer[p]] \in Final
        /\ request[answer[p]] = log[p][fetched[p]]
    BY <2>1 DEF KInv, WorkerInv, Holds, Record
  <2>4. /\ fetched[p] \in DOMAIN log[p] /\ fetched[p] \in Nat
        /\ fetched[p] <= committed[p] + 1
    BY <2>1 DEF KInv, OffsetsInv, Group!PTypeOK
  <2>5. status'[answer[p]] \in Final /\ request'[answer[p]] = log[p][fetched[p]]
    BY <1>1, <2>2, <2>3 DEF Stable, Final
  <2>6. QED
    BY <2>1, <2>2, <2>4, <2>5
<1>4. QED
  BY <1>2, <1>3 DEF PublishedIsRight, NoOvertaking

LEMMA CommitKept ==
    ASSUME IInv, KInv, [KNext]_kvars
    PROVE  CommitInv'
<1>1. ASSUME NEW p \in Task, worker'[p] = "committing"
      PROVE  \E a \in AnalysisId : <<p, fetched'[p], a>> \in events'
  <2>1. CASE Publish(p)
    <3>1. /\ fetched'[p] = fetched[p]
          /\ <<p, fetched[p], answer[p]>> \in events'
      BY <2>1 DEF Publish, Group!HandlerReturns, Event
    <3>2. answer[p] \in AnalysisId
      BY <2>1 DEF Publish, TaskDone, IInv, TypeOK
    <3>3. QED
      BY <3>1, <3>2
  <2>2. ASSUME ~Publish(p)
        PROVE  worker[p] = "committing" /\ fetched'[p] = fetched[p]
    <3>1. ASSUME NEW t \in Task, t # p, Worker(t)
          PROVE  UNCHANGED <<worker[p], fetched[p]>>
      BY <3>1
      DEF KInv, Group!PTypeOK, Worker, Poll, Handle, Publish, PublishFails,
          Commit, CommitFails, Revoke, Assign, kafkaVars, Group!Poll,
          Group!HandlerReturns, Group!CommitOk, Group!CommitFails,
          Group!Revoked, Group!Assigned
    <3>2. ASSUME Worker(p)
          PROVE  UNCHANGED <<worker[p], fetched[p]>>
      <4>1. CASE Handle(p) \/ PublishFails(p)
        BY <4>1 DEF Handle, PublishFails, kafkaVars
      <4>2. CASE Assign(p)
        <5>1. ~owned[p] /\ worker' = worker
          BY <4>2 DEF Assign, Group!Assigned
        <5>2. worker[p] = "none"
          BY <5>1 DEF KInv, OffsetsInv
        <5>3. QED
          BY <1>1, <5>1, <5>2
      <4>3. CASE Poll(p) \/ Commit(p) \/ CommitFails(p) \/ Revoke(p)
        BY <1>1, <4>3
        DEF KInv, Group!PTypeOK, Poll, Commit, CommitFails, Revoke,
            Group!Poll, Group!CommitOk, Group!CommitFails, Group!Revoked
      <4>4. QED
        BY <2>2, <3>2, <4>1, <4>2, <4>3 DEF Worker
    <3>3. CASE Rest \/ Shutdown \/ UNCHANGED kvars
      BY <1>1, <3>3 DEF Rest, Shutdown, kvars, kafkaVars
    <3>4. ~NewProcess
      BY <1>1 DEF NewProcess, Group!Rejoined
    <3>5. QED
      BY <1>1, <3>1, <3>2, <3>3, <3>4 DEF KNext
  <2>3. QED
    BY <2>1, <2>2, BrokerGrows DEF KInv, CommitInv
<1>2. QED
  BY <1>1 DEF CommitInv

LEMMA NothingSkippedKept ==
    ASSUME KInv, [KNext]_kvars
    PROVE  NothingSkipped'
<1>1. ASSUME NEW p \in Task, NEW o \in 1 .. committed'[p]
      PROVE  \E a \in AnalysisId : <<p, o, a>> \in events'
  <2>1. CASE committed'[p] = committed[p]
    BY <1>1, <2>1, BrokerGrows DEF KInv, NothingSkipped
  <2>2. CASE committed'[p] = fetched[p] /\ worker[p] = "committing"
    <3>1. o \in 1 .. committed[p] \/ o = fetched[p]
      BY <1>1, <2>2 DEF KInv, OffsetsInv, Group!PTypeOK
    <3>2. QED
      BY <2>2, <3>1, BrokerGrows DEF KInv, NothingSkipped, CommitInv
  <2>3. QED
    BY <2>1, <2>2, BrokerGrows
<1>2. QED
  BY <1>1 DEF NothingSkipped

LEMMA KNextKeepsInv == IInv /\ KInv /\ [KNext]_kvars => IInv' /\ KInv'
<1> SUFFICES ASSUME IInv, KInv, [KNext]_kvars PROVE IInv' /\ KInv'
  OBVIOUS
<1>1. IInv'
  BY StepOfRuntime, NextKeepsInv
<1>2. KInv'
  BY OffsetsKept, WorkerKept, EventsKept, CommitKept, NothingSkippedKept DEF KInv
<1>3. QED
  BY <1>1, <1>2

(***************************************************************************)
(* The theorems.                                                           *)
(***************************************************************************)

\* Both invariants hold in every reachable state of the composed system.
THEOREM KafkaInvariant == KSpec => [](IInv /\ KInv)
BY KInitInv, KNextKeepsInv, PTL DEF KSpec

\* The Kafka adapter uses the runtime as the runtime's own specification
\* allows, so every theorem about Spec holds of the composed system.
THEOREM KafkaUsesRuntime == KSpec => Spec
<1>1. KInit => Init
  BY DEF KInit
<1>2. IInv /\ KInv /\ [KNext]_kvars => [Next]_vars
  BY StepOfRuntime
<1>3. QED
  BY <1>1, <1>2, KafkaInvariant, PTL DEF KSpec, Spec

\* What is published for a record is a finished analysis of that record.
THEOREM EventsAreRight == KSpec => []PublishedIsRight
<1>1. KInv => PublishedIsRight
  BY DEF KInv
<1>2. QED
  BY <1>1, KafkaInvariant, PTL

\* Every committed record has its completed event.
THEOREM CommittedIsPublished == KSpec => []NothingSkipped
<1>1. KInv => NothingSkipped
  BY DEF KInv
<1>2. QED
  BY <1>1, KafkaInvariant, PTL

\* No event is published ahead of an uncommitted earlier record.
THEOREM PartitionOrder == KSpec => []NoOvertaking
<1>1. KInv => NoOvertaking
  BY DEF KInv
<1>2. QED
  BY <1>1, KafkaInvariant, PTL

(***************************************************************************)
(* One result per request.                                                 *)
(***************************************************************************)

\* A record is never put back in the table.
StoredOrNew == \A b \in stored' : b \in stored \/ status[b] = "NONE"

LEMMA NeverReturns ==
    ASSUME IInv, [Next]_vars
    PROVE  StoredOrNew
<1>1. ASSUME NEW a, GetRecord(a) PROVE StoredOrNew
  BY <1>1, KeptSubset DEF GetRecord, TableBecomes, StoredOrNew
<1>2. ASSUME stored' \subseteq stored PROVE StoredOrNew
  BY <1>2 DEF StoredOrNew
<1>3. ASSUME NEW a, NEW q, Enqueue(a, q) PROVE StoredOrNew
  BY <1>3, KeptSubset DEF Enqueue, Create, TableBecomes, Fresh,
     StoredOrNew
<1>4. ASSUME NEW q, ClaimExisting(q) PROVE StoredOrNew
  BY <1>4, KeptSubset DEF ClaimExisting, TableBecomes, StoredOrNew
<1>5. ASSUME NEW a, NEW s, CompleteOrFail(a, s) PROVE StoredOrNew
  <2>1. stored' = TableAtFinish(a)
    BY <1>5 DEF CompleteOrFail, TableBecomes
  <2>2. TableAtFinish(a) \subseteq Kept(stored, older, Finished)
    BY KeptSubset DEF TableAtFinish
  <2>3. QED
    BY <2>1, <2>2, KeptSubset DEF StoredOrNew
<1>6. ASSUME NEW a, NEW q, CreateAndRemove(a, q) PROVE StoredOrNew
  BY <1>6, KeptSubset DEF CreateAndRemove, TableBecomes, StoredOrNew
<1>7. CASE Client
  BY <1>1, <1>2, <1>3, <1>6, <1>7
  DEF Client, HttpNew, QueueFull, HttpHit, TouchExisting, Read
<1>8. ASSUME NEW t \in Task, KafkaCall(t) PROVE StoredOrNew
  BY <1>2, <1>3, <1>4, <1>8
  DEF KafkaCall, KafkaNew, KafkaHitDone, KafkaHitWaits, KafkaHitExpired,
      TaskDone, TaskCancelled
<1>9. ASSUME NEW c \in Consumer, Consume(c) PROVE StoredOrNew
  BY <1>1, <1>2, <1>5, <1>9
  DEF Consume, Take, SetStage, Finish, HistoryCommit, AfterSave, CallbackReturns
<1>10. CASE Janitor
  <2>1. stored' \subseteq stored
    BY <1>10, KeptSubset DEF Janitor, Prune, TableBecomes
  <2>2. QED
    BY <1>2, <2>1
<1>11. CASE (\E a \in AnalysisId : TtlPasses(a)) \/ Stop \/ Restart \/ UNCHANGED vars
  BY <1>2, <1>11 DEF TtlPasses, Expire, Stop, Restart, vars
<1>12. QED
  BY <1>7, <1>8, <1>9, <1>10, <1>11 DEF Next, Environment

\* What a worker holds for its record is the stored analysis that was
\* published for the same record before, if there is one.
Agrees(p, held) ==
    held # None =>
        \A f \in events : f[3] \in stored /\ log[f[1]][f[2]] = Record(p)
                              => held = f[3]

SameInv == \A p \in Task : Agrees(p, waiting[p]) /\ Agrees(p, answer[p])

\* A worker whose record and event are left alone agrees as before, with what
\* it held or with the same analysis that was its to wait for.
LEMMA AgreesStill ==
    ASSUME IInv, KInv, [Next]_vars, NEW p \in Task, NEW held,
           Agrees(p, held), UNCHANGED fetched[p],
           \A f \in events' \ events :
                f[3] \in stored' => log[f[1]][f[2]] # Record(p)
    PROVE  held # None =>
              \A f \in events' : f[3] \in stored' /\ log[f[1]][f[2]] = Record(p)'
                                     => held = f[3]
<1>1. Record(p)' = Record(p)
  BY DEF Record
<1>2. ASSUME NEW f \in events, f[3] \in stored' PROVE f[3] \in stored
  <2>1. status[f[3]] \in Final
    BY DEF KInv, PublishedIsRight
  <2>2. QED
    BY <1>2, <2>1, NeverReturns DEF Final, StoredOrNew
<1>3. QED
  BY <1>1, <1>2 DEF Agrees

\* A published analysis that is still stored is what its request leads to.
LEMMA PublishedIsExisting ==
    ASSUME IInv, KInv, NEW f \in events, f[3] \in stored
    PROVE  /\ log[f[1]][f[2]] \in Request
           /\ Existing(log[f[1]][f[2]]) = f[3]
<1>1. /\ f[3] \in AnalysisId /\ request[f[3]] = log[f[1]][f[2]]
  BY DEF KInv, PublishedIsRight
<1>2. request[f[3]] \in Request
  BY DEF IInv, TableInv
<1>3. IdOf[request[f[3]]] \in RequestId
  BY <1>2, StoreAssumption
<1>4. index[IdOf[request[f[3]]]] = f[3]
  BY <1>1, <1>3 DEF IInv, TableInv, IndexExact
<1>5. QED
  BY <1>1, <1>2, <1>4 DEF Existing

\* A call of a worker finds the stored analysis of its request.
LEMMA HandleAgrees ==
    ASSUME IInv, KInv, SameInv, NEW p \in Task, Handle(p)
    PROVE  SameInv'
<1> DEFINE q == Record(p)
<1>0. [Next]_vars
  BY StepOfRuntime DEF KNext, Worker
<1>1. /\ q \in Request /\ UNCHANGED <<events, fetched>>
      /\ \A t \in Task : Record(t)' = Record(t)
  BY RecordIsRequest DEF Handle, kafkaVars, Record
<1>2. /\ waiting \in [Task -> AnalysisId \cup {None}]
      /\ answer \in [Task -> AnalysisId \cup {None}]
  BY DEF IInv, TypeOK
<1>3. ASSUME NEW t \in Task, UNCHANGED <<waiting[t], answer[t]>>
      PROVE  Agrees(t, waiting[t])' /\ Agrees(t, answer[t])'
  <2>1. Agrees(t, waiting[t]) /\ Agrees(t, answer[t])
    BY DEF SameInv
  <2>2. \A held \in {waiting[t], answer[t]} : held # None =>
           \A f \in events' : f[3] \in stored' /\ log[f[1]][f[2]] = Record(t)'
                                  => held = f[3]
    BY <1>0, <1>1, <2>1, AgreesStill
  <2>3. QED
    BY <1>3, <2>2 DEF Agrees
<1>4. ASSUME NEW held \in AnalysisId,
             Absent(q) \/ held = Existing(q)
      PROVE  \A f \in events' : f[3] \in stored' /\ log[f[1]][f[2]] = Record(p)'
                                    => held = f[3]
  <2> SUFFICES ASSUME NEW f \in events', f[3] \in stored',
                      log[f[1]][f[2]] = Record(p)'
               PROVE  held = f[3]
    OBVIOUS
  <2>1. f \in events /\ log[f[1]][f[2]] = q
    BY <1>1
  <2>2. f[3] \in stored
    <3>1. status[f[3]] \in Final
      BY <2>1 DEF KInv, PublishedIsRight
    <3>2. QED
      BY <1>0, <3>1, NeverReturns DEF Final, StoredOrNew
  <2>3. Existing(q) = f[3]
    BY <2>1, <2>2, PublishedIsExisting
  <2>4. QED
    BY <1>4, <2>2, <2>3 DEF Absent
<1>5. \A t \in Task \ {p} : UNCHANGED <<waiting[t], answer[t]>>
  BY <1>2 DEF Handle, KafkaNew, KafkaHitDone, KafkaHitWaits, KafkaHitExpired,
     QueueFull, runtimeVars
<1>6. Agrees(p, waiting[p])' /\ Agrees(p, answer[p])'
  <2>1. ASSUME NEW a \in AnalysisId, KafkaNew(p, a, q)
        PROVE  Agrees(p, waiting[p])' /\ Agrees(p, answer[p])'
    <3>1. waiting'[p] = a /\ answer'[p] = None /\ Absent(q)
      BY <1>2, <2>1 DEF KafkaNew, Outside, Enqueue
    <3>2. QED
      BY <1>4, <3>1 DEF Agrees
  <2>2. ASSUME KafkaHitDone(p, q) \/ KafkaHitWaits(p, q)
        PROVE  Agrees(p, waiting[p])' /\ Agrees(p, answer[p])'
    <3>1. /\ waiting'[p] \in {None, Existing(q)}
          /\ answer'[p] \in {None, Existing(q)}
          /\ Existing(q) \in AnalysisId
      BY <1>2, <2>2
      DEF KafkaHitDone, KafkaHitWaits, Outside, ClaimExisting, Hit, IInv, TypeOK,
          StoreTypeOK
    <3>2. QED
      BY <1>4, <3>1 DEF Agrees
  <2>3. ASSUME KafkaHitExpired(p, q) \/ \E a \in AnalysisId : QueueFull(a, q)
        PROVE  Agrees(p, waiting[p])' /\ Agrees(p, answer[p])'
    BY <1>3, <2>3 DEF KafkaHitExpired, QueueFull, runtimeVars
  <2>4. QED
    BY <2>1, <2>2, <2>3 DEF Handle
<1>7. QED
  BY <1>3, <1>5, <1>6 DEF SameInv

\* The worker that publishes holds nothing afterwards, and no other worker
\* has a record of the same request.
LEMMA PublishAgrees ==
    ASSUME OnePartition, IInv, KInv, IInv', KInv', SameInv, NEW p \in Task,
           Publish(p) \/ PublishFails(p)
    PROVE  SameInv'
<1>0. [Next]_vars
  BY StepOfRuntime DEF KNext, Worker
<1>1. /\ worker[p] = "handling" /\ answer[p] # None
      /\ answer' = [answer EXCEPT ![p] = None]
      /\ UNCHANGED <<waiting, fetched>>
      /\ events' \ events \subseteq {Event(p)}
  BY DEF Publish, PublishFails, TaskDone, Group!HandlerReturns
<1>2. /\ waiting \in [Task -> AnalysisId \cup {None}]
      /\ answer \in [Task -> AnalysisId \cup {None}]
  BY DEF IInv, TypeOK
<1>3. waiting'[p] = None /\ answer'[p] = None
  BY <1>1, <1>2 DEF KInv, WorkerInv, Holds
<1>4. Agrees(p, waiting[p])' /\ Agrees(p, answer[p])'
  BY <1>3 DEF Agrees
<1>5. ASSUME NEW t \in Task \ {p}
      PROVE  Agrees(t, waiting[t])' /\ Agrees(t, answer[t])'
  <2>1. UNCHANGED <<waiting[t], answer[t], fetched[t]>>
    BY <1>1, <1>2
  <2>2. CASE worker[t] # "handling"
    <3>1. waiting[t] = None /\ answer[t] = None
      BY <2>2 DEF KInv, WorkerInv, Holds
    <3>2. QED
      BY <2>1, <3>1 DEF Agrees
  <2>3. CASE worker[t] = "handling"
    <3>1. ASSUME NEW f \in events' \ events, f[3] \in stored'
          PROVE  log[f[1]][f[2]] # Record(t)
      <4>1. f[1] = p /\ f[2] = fetched[p]
        BY <1>1 DEF Event
      <4>2. log[f[1]][f[2]] \in Request
        <5>1. request'[f[3]] = log[f[1]][f[2]]
          BY DEF KInv, PublishedIsRight
        <5>2. request'[f[3]] \in Request
          BY <3>1 DEF IInv, TableInv
        <5>3. QED
          BY <5>1, <5>2
      <4>3. fetched[p] \in DOMAIN log[p] /\ fetched[t] \in DOMAIN log[t]
        BY <1>1, <2>3 DEF KInv, OffsetsInv
      <4>4. QED
        BY <4>1, <4>2, <4>3 DEF OnePartition, Record
    <3>2. \A held \in {waiting[t], answer[t]} : held # None =>
             \A f \in events' : f[3] \in stored' /\ log[f[1]][f[2]] = Record(t)'
                                    => held = f[3]
      <4>1. Agrees(t, waiting[t]) /\ Agrees(t, answer[t])
        BY DEF SameInv
      <4>2. QED
        BY <1>0, <2>1, <3>1, <4>1, AgreesStill
    <3>3. QED
      BY <2>1, <3>2 DEF Agrees
  <2>4. QED
    BY <2>2, <2>3
<1>6. QED
  BY <1>4, <1>5 DEF SameInv

LEMMA SameKept ==
    ASSUME OnePartition, IInv, KInv, SameInv, [KNext]_kvars
    PROVE  SameInv'
<1>0. [Next]_vars /\ IInv' /\ KInv'
  BY StepOfRuntime, KNextKeepsInv
<1>1. ASSUME NEW t \in Task, waiting'[t] = None, answer'[t] = None
      PROVE  Agrees(t, waiting[t])' /\ Agrees(t, answer[t])'
  BY <1>1 DEF Agrees
<1>2. ASSUME NEW t \in Task, UNCHANGED <<events, fetched[t]>>,
             waiting'[t] \in {None, waiting[t], answer[t]},
             answer'[t] \in {None, waiting[t], answer[t]}
      PROVE  Agrees(t, waiting[t])' /\ Agrees(t, answer[t])'
  <2>1. Agrees(t, waiting[t]) /\ Agrees(t, answer[t])
    BY DEF SameInv
  <2>2. events' \ events = {}
    BY <1>2
  <2>3. \A held \in {waiting[t], answer[t]} : held # None =>
           \A f \in events' : f[3] \in stored' /\ log[f[1]][f[2]] = Record(t)'
                                  => held = f[3]
    BY <1>0, <1>2, <2>1, <2>2, AgreesStill
  <2>4. QED
    BY <1>2, <2>3 DEF Agrees
<1>3. \A t \in Task : worker'[t] # "handling" =>
                          waiting'[t] = None /\ answer'[t] = None
  BY <1>0 DEF KInv, WorkerInv, Holds
<1>4. ASSUME UNCHANGED <<events, fetched, waiting, answer>> PROVE SameInv'
  BY <1>2, <1>4 DEF SameInv
<1>5. ASSUME NEW p \in Task,
             Poll(p) \/ Commit(p) \/ CommitFails(p) \/ Assign(p) \/ Revoke(p)
      PROVE  SameInv'
  <2>1. UNCHANGED events /\ \A t \in Task \ {p} : UNCHANGED fetched[t]
    BY <1>5 DEF KInv, Group!PTypeOK, Poll, Commit, CommitFails, Assign, Revoke,
       Group!Poll, Group!CommitOk, Group!CommitFails, Group!Assigned, Group!Revoked
  <2>2. \A t \in Task \ {p} : UNCHANGED <<waiting[t], answer[t]>>
    BY <1>5 DEF Poll, Commit, CommitFails, Assign, Revoke, Cancelled, TaskDone,
       TaskCancelled, vars, IInv, TypeOK
  <2>3. waiting'[p] = None /\ answer'[p] = None
    <3>1. CASE Revoke(p) \/ Assign(p)
      <4>1. worker'[p] # "handling"
        BY <3>1 DEF Revoke, Assign, Group!Revoked, Group!Assigned, KInv,
           Group!PTypeOK, OffsetsInv
      <4>2. QED
        BY <1>3, <4>1
    <3>2. CASE Poll(p) \/ Commit(p) \/ CommitFails(p)
      <4>1. worker[p] # "handling" /\ UNCHANGED <<waiting, answer>>
        BY <3>2 DEF Poll, Commit, CommitFails, vars, Group!Poll, Group!CommitOk,
           Group!CommitFails
      <4>2. QED
        BY <4>1 DEF KInv, WorkerInv, Holds
    <3>3. QED
      BY <1>5, <3>1, <3>2
  <2>4. \A t \in Task : Agrees(t, waiting[t])' /\ Agrees(t, answer[t])'
    BY <1>1, <1>2, <2>1, <2>2, <2>3
  <2>5. QED
    BY <2>4 DEF SameInv
<1>6. CASE Rest
  <2>1. UNCHANGED <<events, fetched>> /\ Served
    BY <1>6, RestServes DEF Rest, kafkaVars
  <2>2. \A t \in Task : Agrees(t, waiting[t])' /\ Agrees(t, answer[t])'
    BY <1>2, <2>1 DEF Served
  <2>3. QED
    BY <2>2 DEF SameInv
<1>7. CASE Shutdown
  <2>1. UNCHANGED <<events, fetched, answer>> /\ \A t \in Task : waiting'[t] = None
    BY <1>7 DEF Shutdown, Stop, kafkaVars
  <2>2. \A t \in Task : Agrees(t, waiting[t])' /\ Agrees(t, answer[t])'
    BY <1>2, <2>1
  <2>3. QED
    BY <2>2 DEF SameInv
<1>8. CASE NewProcess
  <2>1. \A t \in Task : waiting'[t] = None /\ answer'[t] = None
    BY <1>8 DEF NewProcess, Restart
  <2>2. \A t \in Task : Agrees(t, waiting[t])' /\ Agrees(t, answer[t])'
    BY <1>1, <2>1
  <2>3. QED
    BY <2>2 DEF SameInv
<1>9. CASE UNCHANGED kvars
  BY <1>4, <1>9 DEF kvars, vars, kafkaVars
<1>10. ASSUME NEW p \in Task, Publish(p) \/ PublishFails(p) PROVE SameInv'
  BY <1>0, <1>10, PublishAgrees
<1>11. ASSUME NEW p \in Task, Handle(p) PROVE SameInv'
  BY <1>11, HandleAgrees
<1>12. QED
  BY <1>5, <1>6, <1>7, <1>8, <1>9, <1>10, <1>11 DEF KNext, Worker

\* A worker publishes the analysis it holds.
LEMMA SameStep ==
    ASSUME SameInv, KInv, [KNext]_kvars,
           NEW e \in events' \ events, NEW f \in events,
           log[e[1]][e[2]] = log[f[1]][f[2]], f[3] \in stored
    PROVE  e[3] = f[3]
<1>1. PICK p \in Task : /\ worker[p] = "handling" /\ answer[p] # None
                        /\ e = Event(p)
                        /\ UNCHANGED committed
  BY EventsAdded
<1>2. e[1] = p /\ e[2] = fetched[p] /\ e[3] = answer[p]
  BY <1>1 DEF Event
<1>3. QED
  BY <1>1, <1>2 DEF SameInv, Agrees, Record

\* While a published result is in the table, its request is published again
\* with no other analysis, through retries, evictions, HTTP submissions of the
\* same request, revocations and restarts.
THEOREM SameResultSpec ==
    ASSUME OnePartition PROVE KSpec => SameResultWhileStored
<1>1. KInit => SameInv
  BY DEF KInit, Init, SameInv, Agrees
<1>2. IInv /\ KInv /\ SameInv /\ [KNext]_kvars => SameInv'
  BY SameKept
<1>3. KInv /\ SameInv /\ [KNext]_kvars =>
         [\A e \in events' \ events, f \in events :
             log[e[1]][e[2]] = log[f[1]][f[2]] /\ f[3] \in stored
                 => e[3] = f[3]]_kvars
  BY SameStep
<1>4. QED
  BY <1>1, <1>2, <1>3, KafkaInvariant, PTL DEF KSpec, SameResultWhileStored
=============================================================================
