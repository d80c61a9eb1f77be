-------------------------- MODULE RecipeJobsProofs --------------------------
(***************************************************************************)
(* Proofs about RecipeJobs, for any number of jobs, requests, consumers,   *)
(* clients, partitions and faults, and any limits that config.py allows.   *)
(***************************************************************************)
EXTENDS RecipeJobs, TLAPS, FiniteSetTheorems, WellFoundedInduction

(***************************************************************************)
(* The inductive invariant.                                                *)
(***************************************************************************)

Created == {j \in Job : status[j] # "none"}

Doing == [at : {"idle", "running", "saving", "calling"}, job : Job \cup {None}]
Steps == {"out", "asked", "waiting", "woken", "saving", "publishing"}
Calling == [at : Steps, job : Job \cup {None}]

TypeInv ==
    /\ status \in [Job -> {"none", "QUEUED", "PROCESSING"} \cup Final]
    /\ request \in [Job -> Request \cup {None}]
    /\ records \subseteq Job /\ aged \subseteq Job
    /\ byRequest \in [RequestId -> Job \cup {None}]
    /\ completedAt \in [Job -> Nat]
    /\ queue \in Seq(Job)
    /\ consumer \in [Consumer -> Doing]
    /\ kafkaOnly \subseteq Job
    /\ lock \in Caller \cup {None}
    /\ caller \in [Caller -> Calling]
    /\ accepting \in BOOLEAN /\ draining \subseteq Job
    /\ history \in [RequestId -> Job \cup {None}]
    /\ claimed \subseteq Job /\ called \subseteq Job
    /\ Group!PTypeOK
    /\ events \subseteq Task \X Nat \X Job

\* A created job has its request for good; a row of the history is the final
\* job of its requestId.
JobInv ==
    /\ \A j \in Created : request[j] \in Request
    /\ claimed \subseteq Created /\ kafkaOnly \subseteq Created /\ draining \subseteq Created
    /\ \A r \in RequestId : history[r] # None =>
           status[history[r]] \in Final /\ IdOf[request[history[r]]] = r
    /\ \A j \in draining : status[j] \in Final

\* The table and its index agree, and completedAt says what has ended.
TableInv ==
    /\ records \subseteq Created
    /\ OneJobPerRequest
    /\ \A r \in RequestId : byRequest[r] # None => IdOf[request[byRequest[r]]] = r
    /\ \A j \in records : completedAt[j] # 0 <=> status[j] \in Final
    /\ aged \subseteq records
    /\ \A j \in aged : status[j] \in Final

\* Nothing ends that was never created.
TimeInv == \A j \in Job : status[j] = "none" => completedAt[j] = 0

\* Who waits for the history holds the lock; meanwhile nobody submits the same
\* request, and the room that was made stays.
LockInv ==
    \A s \in Caller :
        /\ caller[s].at = "asked" <=> lock = s
        /\ caller[s].at = "asked" =>
               /\ byRequest[IdOf[Sent(s)]] = None
               /\ caller[s].job # None => history[IdOf[Sent(s)]] = caller[s].job

\* The consumers' jobs are distinct, and those they run are in memory.
WorkInv ==
    /\ NoJobIsLost
    /\ Len(queue) <= QueueMax
    /\ \A c \in Consumer :
        /\ At(c, "idle") <=> consumer[c].job = None
        /\ At(c, "running") => consumer[c].job \in records
        /\ consumer[c].at \in {"saving", "calling"} => status[consumer[c].job] \in Final
    /\ \A c, d \in Consumer : consumer[c] = consumer[d] /\ At(c, "running") => c = d

\* A job a client was given is not left to Kafka.
ClaimInv ==
    /\ claimed \cap records \cap kafkaOnly = {}
    /\ ClaimedIsCalledBack

\* A service that stopped is at rest until the next process.
StopInv ==
    ~accepting =>
        /\ queue = <<>> /\ lock = None
        /\ \A c \in Consumer : At(c, "idle")
        /\ \A s \in Caller : caller[s].at = "out"
        /\ \A p \in Task : ~owned[p]

\* Positions, and what a worker of the topic has in hand: a job of its own
\* record, ended when it goes on, and stored when it publishes.
InHand(p) ==
    /\ committed[p] <= fetched[p] /\ fetched[p] <= committed[p] + 1
    /\ owned[p] /\ worker[p] = "none" => fetched[p] = committed[p]
    /\ worker[p] # "none" => owned[p] /\ fetched[p] \in DOMAIN log[p]
    /\ caller[p].at # "out" => worker[p] = "handling"
    /\ caller[p].at \in {"waiting", "woken", "saving", "publishing"} =>
           caller[p].job \in Created /\ request[caller[p].job] = Record(p)
    /\ caller[p].at \in {"woken", "saving", "publishing"} => status[caller[p].job] \in Final
    /\ caller[p].at = "publishing" => Row(Record(p)) = caller[p].job

WorkerInv ==
    /\ \A s \in Client : caller[s].at \in {"out", "asked"}
    /\ \A p \in Task : InHand(p)

\* Events name the stored job of their record, and what is committed has one.
EventInv ==
    /\ PublishedIsRight
    /\ \A e \in events : history[IdOf[log[e[1]][e[2]]]] = e[3]
    /\ CommittedIsSaved
    /\ \A p \in Task : worker[p] = "committing" => \E j \in Job : <<p, fetched[p], j>> \in events

IInv ==
    /\ TypeInv
    /\ JobInv
    /\ TableInv
    /\ TimeInv
    /\ LockInv
    /\ WorkInv
    /\ ClaimInv
    /\ StopInv
    /\ WorkerInv
    /\ EventInv

\* What the steps of callers and consumers look like.
LEMMA CallingHas ==
  /\ Out \in Calling
  /\ \A w \in Steps, j \in Job \cup {None} : [at |-> w, job |-> j] \in Calling
  /\ \A d \in Calling : d.at \in Steps /\ d.job \in Job \cup {None}
BY DEF Calling, Steps, Out

LEMMA DoingHas ==
  /\ Idle \in Doing
  /\ \A w \in {"idle", "running", "saving", "calling"}, j \in Job \cup {None} :
         [at |-> w, job |-> j] \in Doing
  /\ \A d \in Doing : /\ d.at \in {"idle", "running", "saving", "calling"}
                       /\ d.job \in Job \cup {None}
                       /\ [d EXCEPT !.at = "calling"] \in Doing
                       /\ [d EXCEPT !.at = "calling"] = [at |-> "calling", job |-> d.job]
BY DEF Doing, Idle

-----------------------------------------------------------------------------
(* Initial states.                                                         *)

LEMMA InitHolds == Init => IInv
<1> SUFFICES ASSUME Init PROVE IInv
  OBVIOUS
<1>1. TypeInv
  BY JobsAssumption, CallingHas, DoingHas DEF Init, TypeInv, Caller, Group!PInit, Group!PTypeOK
<1>2. JobInv /\ ClaimInv /\ StopInv
  BY DEF Init, JobInv, Created, ClaimInv, ClaimedIsCalledBack, StopInv
<1>3. TableInv /\ TimeInv
  BY JobsAssumption DEF Init, TableInv, OneJobPerRequest, TimeInv
<1>4. LockInv
  BY JobsAssumption DEF Init, LockInv, Out, Caller
<1>5. WorkInv
  <2>1. Cardinality(records) <= MaxEntries
    BY FS_EmptySet, RoomAssumption DEF Init
  <2> QED
    BY <2>1, JobsAssumption DEF Init, WorkInv, NoJobIsLost, At, Idle, Out, Caller
<1>6. WorkerInv
  BY DEF Init, WorkerInv, InHand, Out, Caller, Group!PInit
<1>7. EventInv
  BY DEF Init, EventInv, PublishedIsRight, CommittedIsSaved, Group!PInit
<1> QED
  BY <1>1, <1>2, <1>3, <1>4, <1>5, <1>6, <1>7 DEF IInv

-----------------------------------------------------------------------------
(* Types.                                                                  *)

\* A caller that may submit has something to send.
LEMMA SentIsRequest ==
  ASSUME IInv, NEW s \in Caller, s \in Task => worker[s] # "none"
  PROVE  Sent(s) \in Request /\ IdOf[Sent(s)] \in RequestId
<1>1. CASE s \in Task
  BY <1>1, JobsAssumption DEF IInv, WorkerInv, InHand, Sent, Record
<1>2. CASE s \notin Task
  BY <1>2, JobsAssumption DEF Caller, Sent
<1> QED
  BY <1>1, <1>2, JobsAssumption

LEMMA AskedIsHandling ==
  ASSUME IInv, NEW s \in Caller, caller[s].at # "out"
  PROVE  s \in Task => worker[s] = "handling"
BY DEF IInv, WorkerInv, InHand

\* _prune() keeps the types.
LEMMA PruneTyped ==
  ASSUME TypeInv, Prune
  PROVE  /\ records' \subseteq Job /\ aged' \subseteq Job
         /\ byRequest' \in [RequestId -> Job \cup {None}]
         /\ completedAt' \in [Job -> Nat]
BY DEF TypeInv, Prune, KeptIndex

\* A job that is told, or a refusal, keeps the types of what is told.
LEMMA ToldTyped ==
  ASSUME TypeInv, NEW s \in Caller, NEW j \in Job, Told(s, j) \/ Refused(s)
  PROVE  /\ caller' \in [Caller -> Calling]
         /\ claimed' \subseteq Job /\ kafkaOnly' \subseteq Job
<1>1. CASE Told(s, j)
  <2>1. CASE s \in Client
    <3>1. /\ caller' = [caller EXCEPT ![s] = Out]
          /\ claimed' = claimed \/ claimed' = claimed \cup {j}
          /\ kafkaOnly' = kafkaOnly \ {j}
      BY <1>1, <2>1 DEF Told
    <3> QED
      BY <3>1, CallingHas DEF TypeInv
  <2>2. CASE s \notin Client
    <3> DEFINE w == IF Live(j) THEN "waiting" ELSE "woken"
    <3>1. [at |-> w, job |-> j] \in Calling
      BY CallingHas DEF Steps
    <3>2. caller' = [caller EXCEPT ![s] = [at |-> w, job |-> j]] /\ UNCHANGED <<claimed, kafkaOnly>>
      BY <1>1, <2>2 DEF Told
    <3> HIDE DEF w
    <3> QED
      BY <3>1, <3>2 DEF TypeInv
  <2> QED
    BY <2>1, <2>2
<1>2. CASE Refused(s)
  BY <1>2, CallingHas DEF TypeInv, Refused
<1> QED
  BY <1>1, <1>2

LEMMA SubmitTyped ==
  ASSUME IInv, NEW s \in Caller, Submit(s)
  PROVE  TypeInv'
<1> USE DEF IInv
<1>1. CASE Hit(s)
  <2>1. Calls(s) /\ UNCHANGED lock
    BY <1>1 DEF Hit
  <2>2. Sent(s) \in Request /\ IdOf[Sent(s)] \in RequestId
    BY <2>1, SentIsRequest DEF Calls
  <2>3. InMemory(Sent(s)) \in Job
    BY <1>1, <2>2 DEF Hit, InMemory, KeptIndex, TypeInv
  <2>4. Told(s, InMemory(Sent(s))) \/ Refused(s)
    BY <1>1 DEF Hit
  <2> QED
    BY <2>1, <2>3, <2>4, PruneTyped, ToldTyped DEF Calls, TypeInv, life, kafka, Group!PTypeOK
<1>2. CASE Ask(s)
  <2>1. Calls(s)
    BY <1>2 DEF Ask
  <2>2. Row(Sent(s)) \in Job \cup {None}
    BY <2>1, SentIsRequest DEF Calls, Row, TypeInv
  <2> QED
    BY <1>2, <2>1, <2>2, PruneTyped, CallingHas DEF Ask, Steps, Calls, TypeInv, life, kafka, Group!PTypeOK
<1>3. CASE FromHistory(s)
  <2>1. caller[s].job \in Job
    BY <1>3, CallingHas DEF FromHistory, TypeInv
  <2>2. /\ Told(s, caller[s].job) \/ Refused(s)
        /\ Prune \/ UNCHANGED memory
        /\ lock' = None
        /\ UNCHANGED <<consumer, life, history, called, kafka, status, request, queue>>
    BY <1>3 DEF FromHistory, Answered
  <2>3. /\ records' \subseteq Job /\ aged' \subseteq Job
        /\ byRequest' \in [RequestId -> Job \cup {None}]
        /\ completedAt' \in [Job -> Nat]
    BY <2>2, PruneTyped DEF memory, TypeInv
  <2> QED
    BY <2>1, <2>2, <2>3, ToldTyped DEF TypeInv, life, kafka, Group!PTypeOK
<1>4. CASE QueueFull(s) \/ LookupFails(s)
  BY <1>4, CallingHas DEF QueueFull, LookupFails, Answered, Refused, Steps, TypeInv, memory, life, kafka, Group!PTypeOK
<1>5. CASE New(s)
  <2>1. Sent(s) \in Request /\ IdOf[Sent(s)] \in RequestId
    BY <1>5, SentIsRequest, AskedIsHandling DEF New, Answered
  <2>2. NewId \in Job
    BY <1>5 DEF New, NewId, FreshJobs
  <2>3. caller' \in [Caller -> Calling] /\ claimed' \subseteq Job /\ kafkaOnly' \subseteq Job
    <3>1. Out \in Calling /\ [at |-> "waiting", job |-> NewId] \in Calling
      BY <2>2, CallingHas DEF Steps
    <3>2. \/ caller' = [caller EXCEPT ![s] = [at |-> "waiting", job |-> NewId]]
          \/ caller' = [caller EXCEPT ![s] = Out]
      BY <1>5 DEF New
    <3>3. claimed' \subseteq claimed \cup {NewId} /\ kafkaOnly' \subseteq kafkaOnly \cup {NewId}
      BY <1>5 DEF New
    <3> QED
      BY <2>2, <3>1, <3>2, <3>3 DEF TypeInv
  <2>4. /\ status' \in [Job -> {"none", "QUEUED", "PROCESSING"} \cup Final]
        /\ request' \in [Job -> Request \cup {None}]
        /\ byRequest' \in [RequestId -> Job \cup {None}]
        /\ records' \subseteq Job /\ queue' \in Seq(Job)
    BY <1>5, <2>1, <2>2 DEF New, TypeInv
  <2> QED
    BY <1>5, <2>3, <2>4 DEF New, Answered, TypeInv, life, kafka, Group!PTypeOK
<1> QED
  BY <1>1, <1>2, <1>3, <1>4, <1>5 DEF Submit

LEMMA ConsumeTyped ==
  ASSUME IInv, NEW c \in Consumer, Consume(c)
  PROVE  TypeInv'
<1> USE DEF IInv
<1>1. CASE Take(c)
  <2>1. Head(queue) \in Job /\ Tail(queue) \in Seq(Job)
    BY <1>1 DEF Take, TypeInv
  <2> QED
    BY <1>1, <2>1, DoingHas DEF Take, At, TypeInv, memory, calls, life, kafka, Group!PTypeOK
<1>2. ASSUME NEW s \in Final, Finish(c, s) PROVE TypeInv'
  <2>1. consumer[c].job \in Job
    BY <1>2, DoingHas DEF Finish, At, WorkInv, TypeInv
  <2>2. Now \in Nat
    <3>1. IsFiniteSet({j \in Job : completedAt[j] # 0})
      BY JobsAssumption, FS_Subset
    <3> QED
      BY <3>1, FS_CardinalityType DEF Now
  <2>3. caller' \in [Caller -> Calling]
    BY <1>2 DEF Finish, Woken, TypeInv, Calling, Steps
  <2> QED
    BY <1>2, <2>1, <2>2, <2>3, DoingHas DEF Finish, TypeInv, life, kafka, Group!PTypeOK
<1>3. CASE Saved(c)
  <2>1. consumer[c].job \in Job /\ request[consumer[c].job] \in Request
    BY <1>3, DoingHas DEF Saved, At, WorkInv, JobInv, TypeInv, Created, Final
  <2>2. history' \in [RequestId -> Job \cup {None}]
    BY <1>3, <2>1 DEF Saved, Insert, TypeInv
  <2> QED
    BY <1>3, <2>2, DoingHas DEF Saved, At, TypeInv, memory, calls, life, kafka, Group!PTypeOK
<1>4. CASE Called(c)
  BY <1>4, DoingHas DEF Called, At, WorkInv, TypeInv, memory, calls, life, kafka, Group!PTypeOK
<1> QED
  BY <1>1, <1>2, <1>3, <1>4 DEF Consume

LEMMA WorkerTyped ==
  ASSUME IInv, NEW p \in Task, Worker(p)
  PROVE  TypeInv'
<1> USE DEF IInv, Group!PTypeOK
<1>0. p \in Caller
  BY DEF Caller
<1>1. CASE Poll(p)
  BY <1>1 DEF Poll, Group!Poll, TypeInv, jobs, memory, life
<1>2. CASE Recheck(p)
  <2>1. Row(Record(p)) \in Job \cup {None}
    BY <1>0, <1>2, SentIsRequest, AskedIsHandling DEF Recheck, Row, Sent, TypeInv
  <2>2. caller[p].job \in Job \cup {None}
    BY <1>0, CallingHas DEF TypeInv
  <2>3. caller' \in [Caller -> Calling]
    BY <1>0, <1>2, <2>1, <2>2, CallingHas DEF Recheck, CallerAt, Refused, Steps, TypeInv
  <2>4. UNCHANGED kafkaOnly /\ UNCHANGED <<jobs, history, kafka>>
    BY <1>2 DEF Recheck, jobs
  <2> QED
    BY <2>3, <2>4 DEF TypeInv, jobs, memory, life, kafka
<1>3. CASE SaveView(p)
  <2>1. caller[p].job \in Job /\ request[caller[p].job] = Record(p)
    BY <1>3 DEF SaveView, WorkerInv, InHand, Created
  <2>2. IdOf[Record(p)] \in RequestId
    BY <1>0, <1>3, SentIsRequest, AskedIsHandling DEF SaveView, Sent
  <2>3. history' \in [RequestId -> Job \cup {None}]
    BY <1>3, <2>1, <2>2 DEF SaveView, Insert, TypeInv
  <2>4. caller' \in [Caller -> Calling]
    <3>1. \/ caller' = [caller EXCEPT ![p] = [at |-> "publishing", job |-> caller[p].job]]
          \/ caller' = [caller EXCEPT ![p] = Out]
      BY <1>3 DEF SaveView, CallerAt, Refused
    <3>2. Out \in Calling /\ [at |-> "publishing", job |-> caller[p].job] \in Calling
      BY <2>1, CallingHas DEF Steps
    <3>3. caller \in [Caller -> Calling]
      BY DEF TypeInv
    <3> QED
      BY <3>1, <3>2, <3>3
  <2>5. UNCHANGED <<jobs, kafka>>
    BY <1>3 DEF SaveView
  <2> QED
    BY <2>3, <2>4, <2>5 DEF TypeInv, jobs, memory, life, kafka
<1>4. CASE WorkerFails(p)
  BY <1>4, CallingHas DEF WorkerFails, Refused, Steps, TypeInv, memory, life, kafka
<1>5. CASE Publish(p) \/ PublishFails(p)
  <2>1. caller[p].job \in Job
    BY <1>5 DEF Publish, PublishFails, WorkerInv, InHand, Created
  <2>2. Event(p) \in Task \X Nat \X Job
    BY <2>1 DEF Event, TypeInv
  <2>3. CASE Publish(p)
    BY <2>2, <2>3, CallingHas DEF Publish, Group!HandlerReturns, Steps, TypeInv, jobs, memory, life
  <2>4. CASE PublishFails(p)
    BY <2>2, <2>4, CallingHas DEF PublishFails, Steps, TypeInv, jobs, memory, life
  <2> QED
    BY <1>5, <2>3, <2>4
<1>6. CASE Commit(p) \/ CommitFails(p)
  BY <1>6 DEF Commit, CommitFails, Group!CommitOk, Group!CommitFails, TypeInv, jobs, memory, life
<1>7. CASE Revoke(p)
  <2>1. history' \in [RequestId -> Job \cup {None}]
    <3>1. CASE caller[p].at = "saving" /\ Insert(caller[p].job)
      <4>1. caller[p].job \in Job /\ request[caller[p].job] = Record(p)
        BY <3>1 DEF WorkerInv, InHand, Created
      <4>2. IdOf[Record(p)] \in RequestId
        BY <1>0, <3>1, SentIsRequest, AskedIsHandling DEF Sent
      <4> QED
        BY <3>1, <4>1, <4>2 DEF Insert, TypeInv
    <3> QED
      BY <1>7, <3>1 DEF Revoke, TypeInv
  <2> QED
    BY <1>7, <2>1, CallingHas DEF Revoke, Group!Revoked, Steps, TypeInv, memory, life
<1>8. CASE Assign(p)
  BY <1>8 DEF Assign, Group!Assigned, TypeInv, jobs, memory, life
<1> QED
  BY <1>1, <1>2, <1>3, <1>4, <1>5, <1>6, <1>7, <1>8 DEF Worker

LEMMA ProcessTyped ==
  ASSUME IInv, Stop \/ NewProcess \/ Read \/ \E j \in Job : TtlPasses(j) \/ FinishInterrupted(j)
  PROVE  TypeInv'
<1> USE DEF IInv, Group!PTypeOK
<1>1. CASE Stop
  <2>1. Now \in Nat
    <3>1. IsFiniteSet({j \in Job : completedAt[j] # 0})
      BY JobsAssumption, FS_Subset
    <3> QED
      BY <3>1, FS_CardinalityType DEF Now
  <2>2. /\ status' \in [Job -> {"none", "QUEUED", "PROCESSING"} \cup Final]
        /\ completedAt' \in [Job -> Nat]
    <3>1. \A j \in Job : status'[j] \in {status[j], "FAILED"} /\ completedAt'[j] \in {completedAt[j], Now}
      BY <1>1 DEF Stop
    <3> HIDE DEF Now
    <3>2. status' = [j \in Job |-> status'[j]] /\ completedAt' = [j \in Job |-> completedAt'[j]]
      BY <1>1 DEF Stop
    <3> QED
      BY <2>1, <3>1, <3>2 DEF Final, TypeInv
  <2>3. draining' \subseteq Job /\ accepting' \in BOOLEAN /\ queue' \in Seq(Job)
        /\ consumer' \in [Consumer -> Doing]
    <3>1. draining' = {j \in records : Live(j)} /\ queue' = <<>> /\ accepting' = FALSE
      BY <1>1 DEF Stop
    <3>2. consumer' = [c \in Consumer |-> Idle]
      BY <1>1 DEF Stop
    <3>3. draining' \subseteq Job
      BY <3>1 DEF Live, TypeInv
    <3>4. queue' \in Seq(Job)
      BY <3>1
    <3>5. accepting' \in BOOLEAN
      BY <3>1, Zenon
    <3>6. consumer' \in [Consumer -> Doing]
      BY <3>2, DoingHas
    <3> QED
      BY <3>3, <3>4, <3>5, <3>6
  <2> QED
    BY <1>1, <2>2, <2>3 DEF Stop, TypeInv, calls, kafka
<1>2. CASE NewProcess
  BY <1>2, CallingHas, DoingHas DEF NewProcess, Group!Rejoined, Steps, TypeInv
<1>3. CASE Read
  BY <1>3, PruneTyped DEF Read, TypeInv, calls, life, kafka
<1>4. ASSUME NEW j \in Job, TtlPasses(j) PROVE TypeInv'
  BY <1>4 DEF TtlPasses, TypeInv, calls, life, kafka
<1>5. ASSUME NEW j \in Job, FinishInterrupted(j) PROVE TypeInv'
  <2>1. request[j] \in Request
    BY <1>5 DEF FinishInterrupted, JobInv
  <2>2. history' \in [RequestId -> Job \cup {None}]
    <3>1. UNCHANGED history \/ Insert(j)
      BY <1>5 DEF FinishInterrupted
    <3>2. IdOf[request[j]] \in RequestId
      BY <2>1, JobsAssumption
    <3> QED
      BY <3>1, <3>2 DEF Insert, TypeInv
  <2> QED
    BY <1>5, <2>2 DEF FinishInterrupted, TypeInv, memory, calls, kafka
<1> QED
  BY <1>1, <1>2, <1>3, <1>4, <1>5

LEMMA TypeKept == IInv /\ [Next]_vars => TypeInv'
<1>1. IInv /\ Next => TypeInv'
  BY SubmitTyped, WorkerTyped, ConsumeTyped, ProcessTyped DEF Next
<1>2. IInv /\ UNCHANGED vars => TypeInv'
  BY DEF IInv, TypeInv, vars, memory, calls, life, kafka, Group!PTypeOK
<1> QED
  BY <1>1, <1>2

-----------------------------------------------------------------------------
(* What a step may do to jobs, rows and events.                            *)

\* Jobs change in four ways.
LEMMA StatusSteps ==
  ASSUME IInv, [Next]_vars
  PROVE  \/ UNCHANGED <<status, request>>
         \/ \E s \in Caller : New(s)
         \/ \E c \in Consumer : Take(c) \/ \E s \in Final : Finish(c, s)
         \/ Stop
<1>1. ASSUME NEW s \in Caller, Submit(s), ~New(s) PROVE UNCHANGED <<status, request>>
  BY <1>1 DEF Submit, Hit, Ask, Calls, FromHistory, QueueFull, LookupFails
<1>2. ASSUME NEW p \in Task, Worker(p) PROVE UNCHANGED <<status, request>>
  BY <1>2 DEF Worker, Poll, Recheck, SaveView, WorkerFails, Publish, PublishFails, Commit, CommitFails,
              Revoke, Assign, jobs
<1>3. ASSUME NEW c \in Consumer, Saved(c) \/ Called(c) PROVE UNCHANGED <<status, request>>
  BY <1>3 DEF Saved, Called
<1>4. ASSUME Read \/ NewProcess \/ \E j \in Job : TtlPasses(j) \/ FinishInterrupted(j)
      PROVE  UNCHANGED <<status, request>>
  BY <1>4 DEF Read, NewProcess, TtlPasses, FinishInterrupted
<1> QED
  BY <1>1, <1>2, <1>3, <1>4 DEF Next, Consume, vars

\* A job in the queue is QUEUED, and one that runs is PROCESSING.
LEMMA QueuedIsLive ==
  ASSUME IInv, queue # <<>>
  PROVE  Head(queue) \in records /\ status[Head(queue)] = "QUEUED"
<1>1. 1 \in DOMAIN queue /\ Head(queue) = queue[1]
  BY DEF IInv, TypeInv
<1>2. queue[1] \in records
  BY <1>1 DEF IInv, WorkInv, NoJobIsLost
<1>3. \A j \in records : (\E i \in DOMAIN queue : queue[i] = j) => status[j] = "QUEUED"
  BY DEF IInv, WorkInv, NoJobIsLost
<1> QED
  BY <1>1, <1>2, <1>3

LEMMA RunningIsLive ==
  ASSUME IInv, NEW c \in Consumer, At(c, "running")
  PROVE  /\ consumer[c] = [at |-> "running", job |-> consumer[c].job]
         /\ consumer[c].job \in records /\ status[consumer[c].job] = "PROCESSING"
<1>1. consumer[c] = [at |-> "running", job |-> consumer[c].job]
  BY DEF IInv, TypeInv, At, Doing
<1> QED
  BY <1>1 DEF IInv, WorkInv, NoJobIsLost

\* A final job stays as it is, and every created job keeps its request.
LEMMA JobsStay ==
  ASSUME IInv, [Next]_vars
  PROVE  /\ \A j \in Created : j \in Created' /\ request'[j] = request[j]
         /\ \A j \in Job : status[j] \in Final => status'[j] = status[j]
<1>1. ASSUME NEW s \in Caller, New(s)
      PROVE  /\ \A j \in Created : j \in Created' /\ request'[j] = request[j]
             /\ \A j \in Job : status[j] \in Final => status'[j] = status[j]
  <2>1. NewId \in Job /\ status[NewId] = "none"
    BY <1>1 DEF New, NewId, FreshJobs
  <2> QED
    BY <1>1, <2>1 DEF New, IInv, TypeInv, Created, Final
<1>2. ASSUME NEW c \in Consumer, Take(c)
      PROVE  /\ \A j \in Created : j \in Created' /\ request'[j] = request[j]
             /\ \A j \in Job : status[j] \in Final => status'[j] = status[j]
  BY <1>2, QueuedIsLive DEF Take, IInv, TypeInv, Created, Final
<1>3. ASSUME NEW c \in Consumer, NEW s \in Final, Finish(c, s)
      PROVE  /\ \A j \in Created : j \in Created' /\ request'[j] = request[j]
             /\ \A j \in Job : status[j] \in Final => status'[j] = status[j]
  BY <1>3, RunningIsLive DEF Finish, IInv, TypeInv, Created, Final
<1>4. CASE Stop
  <2>1. UNCHANGED request /\ \A j \in Job : status'[j] = status[j] \/ (Live(j) /\ status'[j] = "FAILED")
    BY <1>4 DEF Stop
  <2> QED
    BY <2>1 DEF Live, Created, Final
<1>5. CASE UNCHANGED <<status, request>>
  BY <1>5 DEF Created
<1> QED
  BY <1>1, <1>2, <1>3, <1>4, <1>5, StatusSteps

\* Rows are only inserted, for final jobs.
LEMMA HistorySteps ==
  ASSUME IInv, [Next]_vars
  PROVE  \/ UNCHANGED history
         \/ \E j \in Created : /\ Insert(j) /\ status[j] \in Final
                               /\ UNCHANGED <<status, request, events>>
<1>1. ASSUME NEW s \in Caller, Submit(s) PROVE UNCHANGED history
  BY <1>1 DEF Submit, Hit, Ask, Calls, FromHistory, QueueFull, LookupFails, New, Answered
<1>2. ASSUME NEW p \in Task, SaveView(p) \/ Revoke(p)
      PROVE  \/ UNCHANGED history
             \/ \E j \in Created : /\ Insert(j) /\ status[j] \in Final
                                   /\ UNCHANGED <<status, request, events>>
  <2>1. /\ \/ UNCHANGED history
           \/ caller[p].at = "saving" /\ Insert(caller[p].job)
        /\ UNCHANGED <<status, request, events>>
    BY <1>2 DEF SaveView, Revoke, jobs, kafka
  <2> QED
    BY <2>1 DEF IInv, WorkerInv, InHand
<1>3. ASSUME NEW p \in Task, Worker(p), ~SaveView(p), ~Revoke(p) PROVE UNCHANGED history
  BY <1>3 DEF Worker, Poll, Recheck, WorkerFails, Publish, PublishFails, Commit, CommitFails, Assign
<1>4. ASSUME NEW c \in Consumer, Saved(c)
      PROVE  \/ UNCHANGED history
             \/ \E j \in Created : /\ Insert(j) /\ status[j] \in Final
                                   /\ UNCHANGED <<status, request, events>>
  <2>1. status[consumer[c].job] \in Final /\ consumer[c].job \in Job
    BY <1>4, DoingHas DEF Saved, At, IInv, WorkInv, TypeInv
  <2> QED
    BY <1>4, <2>1 DEF Saved, Created, Final, kafka
<1>5. ASSUME NEW c \in Consumer, Consume(c), ~Saved(c) PROVE UNCHANGED history
  BY <1>5 DEF Consume, Take, Finish, Called
<1>6. ASSUME NEW j \in Job, FinishInterrupted(j)
      PROVE  \/ UNCHANGED history
             \/ Insert(j) /\ j \in Created /\ status[j] \in Final /\ UNCHANGED <<status, request, events>>
  BY <1>6 DEF FinishInterrupted, IInv, JobInv, kafka
<1>7. ASSUME Stop \/ Read \/ NewProcess \/ \E j \in Job : TtlPasses(j) PROVE UNCHANGED history
  BY <1>7 DEF Stop, Read, NewProcess, TtlPasses
<1> QED
  BY <1>1, <1>2, <1>3, <1>4, <1>5, <1>6, <1>7 DEF Next, vars

\* So the row of a requestId never changes.
LEMMA RowsStay ==
  ASSUME IInv, [Next]_vars, NEW r \in RequestId, history[r] # None
  PROVE  history'[r] = history[r]
BY HistorySteps DEF Insert, IInv, TypeInv

\* Events are only added, by a worker that publishes.
LEMMA EventSteps ==
  ASSUME IInv, [Next]_vars
  PROVE  \/ UNCHANGED events
         \/ \E p \in Task : /\ caller[p].at = "publishing"
                            /\ events' = events \cup {Event(p)}
                            /\ UNCHANGED <<status, request, history, fetched, committed>>
<1>1. ASSUME NEW s \in Caller, Submit(s) PROVE UNCHANGED events
  BY <1>1 DEF Submit, Hit, Ask, Calls, FromHistory, QueueFull, LookupFails, New, Answered, kafka
<1>2. ASSUME NEW p \in Task, Publish(p) \/ PublishFails(p)
      PROVE  \/ UNCHANGED events
             \/ /\ caller[p].at = "publishing"
                /\ events' = events \cup {Event(p)}
                /\ UNCHANGED <<status, request, history, fetched, committed>>
  BY <1>2 DEF Publish, PublishFails, Group!HandlerReturns, jobs
<1>3. ASSUME NEW p \in Task, Worker(p), ~Publish(p), ~PublishFails(p) PROVE UNCHANGED events
  BY <1>3 DEF Worker, Poll, Recheck, SaveView, WorkerFails, Commit, CommitFails, Revoke, Assign, kafka
<1>4. ASSUME NEW c \in Consumer, Consume(c) PROVE UNCHANGED events
  BY <1>4 DEF Consume, Take, Finish, Saved, Called, kafka
<1>5. ASSUME Stop \/ Read \/ NewProcess \/ \E j \in Job : TtlPasses(j) \/ FinishInterrupted(j)
      PROVE  UNCHANGED events
  BY <1>5 DEF Stop, Read, NewProcess, TtlPasses, FinishInterrupted, kafka
<1> QED
  BY <1>1, <1>2, <1>3, <1>4, <1>5 DEF Next, vars, kafka

-----------------------------------------------------------------------------
(* Jobs and rows.                                                          *)

\* What submit() finds in memory is a job of the same requestId.
LEMMA FoundInMemory ==
  ASSUME IInv, NEW s \in Caller, Hit(s)
  PROVE  /\ InMemory(Sent(s)) \in records \ Dropped
         /\ IdOf[request[InMemory(Sent(s))]] = IdOf[Sent(s)]
<1>1. Sent(s) \in Request /\ IdOf[Sent(s)] \in RequestId
  BY SentIsRequest DEF Hit, Calls
<1>2. InMemory(Sent(s)) = byRequest[IdOf[Sent(s)]] /\ InMemory(Sent(s)) \notin Dropped
  BY <1>1 DEF Hit, InMemory, KeptIndex
<1> QED
  BY <1>1, <1>2 DEF Hit, IInv, TableInv, OneJobPerRequest

\* What submit() finds in the history is the final job of the requestId.
LEMMA FoundInHistory ==
  ASSUME IInv, NEW s \in Caller, caller[s].at = "asked", caller[s].job # None
  PROVE  /\ caller[s].job \in Created /\ status[caller[s].job] \in Final
         /\ IdOf[request[caller[s].job]] = IdOf[Sent(s)]
         /\ history[IdOf[Sent(s)]] = caller[s].job
<1>1. IdOf[Sent(s)] \in RequestId
  BY SentIsRequest, AskedIsHandling
<1>2. history[IdOf[Sent(s)]] = caller[s].job
  BY DEF IInv, LockInv
<1>3. caller[s].job \in Job
  BY <1>1, <1>2 DEF IInv, TypeInv
<1> QED
  BY <1>1, <1>2, <1>3 DEF IInv, JobInv, Created, Final

\* Clients are told, and jobs left to Kafka, only if they exist.
LEMMA ToldExist ==
  ASSUME IInv, [Next]_vars
  PROVE  claimed' \subseteq Created' /\ kafkaOnly' \subseteq Created'
<1>1. Created \subseteq Created'
  BY JobsStay DEF Created
<1>2. ASSUME claimed' \subseteq claimed, kafkaOnly' \subseteq kafkaOnly
      PROVE  claimed' \subseteq Created' /\ kafkaOnly' \subseteq Created'
  BY <1>1, <1>2 DEF IInv, JobInv
<1>3. ASSUME NEW s \in Caller, NEW j \in Created, Told(s, j) \/ Refused(s)
      PROVE  claimed' \subseteq Created' /\ kafkaOnly' \subseteq Created'
  BY <1>1, <1>3 DEF Told, Refused, IInv, JobInv
<1>4. ASSUME NEW s \in Caller, Submit(s)
      PROVE  claimed' \subseteq Created' /\ kafkaOnly' \subseteq Created'
  <2>1. CASE Hit(s)
    <3>1. InMemory(Sent(s)) \in Created
      BY <2>1, FoundInMemory DEF IInv, TableInv
    <3> QED
      BY <1>3, <2>1, <3>1 DEF Hit
  <2>2. CASE FromHistory(s)
    <3>1. caller[s].job \in Created
      BY <2>2, FoundInHistory DEF FromHistory, Answered
    <3> QED
      BY <1>3, <2>2, <3>1 DEF FromHistory
  <2>3. CASE Ask(s) \/ QueueFull(s) \/ LookupFails(s)
    BY <1>2, <2>3 DEF Ask, QueueFull, LookupFails, Refused
  <2>4. CASE New(s)
    <3>1. NewId \in Created'
      <4>1. NewId \in Job
        BY <2>4 DEF New, NewId, FreshJobs
      <4> QED
        BY <2>4, <4>1 DEF New, IInv, TypeInv, Created
    <3>2. claimed' \subseteq claimed \cup {NewId} /\ kafkaOnly' \subseteq kafkaOnly \cup {NewId}
      BY <2>4 DEF New
    <3> QED
      BY <1>1, <3>1, <3>2 DEF IInv, JobInv
  <2> QED
    BY <1>4, <2>1, <2>2, <2>3, <2>4 DEF Submit
<1>5. ASSUME NEW p \in Task, Worker(p)
      PROVE  claimed' \subseteq claimed /\ kafkaOnly' \subseteq kafkaOnly
  BY <1>5 DEF Worker, Poll, Recheck, SaveView, WorkerFails, Refused, Publish, PublishFails, Commit,
              CommitFails, Revoke, Assign, jobs
<1>6. ASSUME NEW c \in Consumer, Consume(c)
      PROVE  claimed' \subseteq claimed /\ kafkaOnly' \subseteq kafkaOnly
  BY <1>6 DEF Consume, Take, Finish, Saved, Called, calls
<1>7. ASSUME Stop \/ Read \/ NewProcess \/ \E j \in Job : TtlPasses(j) \/ FinishInterrupted(j)
      PROVE  claimed' \subseteq claimed /\ kafkaOnly' \subseteq kafkaOnly
  BY <1>7 DEF Stop, Read, NewProcess, TtlPasses, FinishInterrupted, calls
<1> QED
  BY <1>2, <1>4, <1>5, <1>6, <1>7 DEF Next, vars, calls

LEMMA JobKept == IInv /\ [Next]_vars => JobInv'
<1> SUFFICES ASSUME IInv, [Next]_vars PROVE JobInv'
  OBVIOUS
<1>1. Created \subseteq Created' /\ \A j \in Created : request'[j] = request[j]
  BY JobsStay DEF Created
<1>2. \A j \in Created' : request'[j] \in Request
  <2>1. ASSUME NEW s \in Caller, New(s) PROVE \A j \in Created' : request'[j] \in Request
    <3>1. Sent(s) \in Request /\ NewId \in Job
      BY <2>1, SentIsRequest, AskedIsHandling DEF New, Answered, NewId, FreshJobs
    <3>2. Created' \subseteq Created \cup {NewId} /\ request'[NewId] = Sent(s)
      BY <2>1, <3>1 DEF New, IInv, TypeInv, Created
    <3> QED
      BY <1>1, <3>1, <3>2 DEF IInv, JobInv
  <2>2. ASSUME Created' \subseteq Created PROVE \A j \in Created' : request'[j] \in Request
    BY <1>1, <2>2 DEF IInv, JobInv
  <2>3. ASSUME NEW c \in Consumer, Take(c) PROVE Created' \subseteq Created
    BY <2>3, QueuedIsLive DEF Take, IInv, TypeInv, Created
  <2>4. ASSUME NEW c \in Consumer, NEW s \in Final, Finish(c, s) PROVE Created' \subseteq Created
    BY <2>4, RunningIsLive DEF Finish, IInv, TypeInv, Created
  <2>5. CASE Stop
    <3>1. \A j \in Job : status'[j] = status[j] \/ Live(j)
      BY <2>5 DEF Stop
    <3> QED
      BY <2>2, <3>1 DEF Created, Live
  <2>6. CASE UNCHANGED <<status, request>>
    BY <2>2, <2>6 DEF Created
  <2> QED
    BY <2>1, <2>2, <2>3, <2>4, <2>5, <2>6, StatusSteps
<1>3. claimed' \subseteq Created' /\ kafkaOnly' \subseteq Created'
  BY ToldExist
<1>4. draining' \subseteq Created' /\ \A j \in draining' : status'[j] \in Final
  <2>1. CASE Stop
    <3>1. draining' = {j \in records : Live(j)}
      BY <2>1 DEF Stop
    <3>2. \A j \in Job : Live(j) /\ j \in records => status'[j] = "FAILED"
      BY <2>1 DEF Stop
    <3> QED
      BY <3>1, <3>2 DEF Created, Final, IInv, TypeInv
  <2>2. ASSUME ~Stop PROVE draining' \subseteq draining
    BY <2>2 DEF Next, vars, Submit, Hit, Ask, Calls, FromHistory, QueueFull, LookupFails, New, Answered,
                Worker, Poll, Recheck, SaveView, WorkerFails, Publish, PublishFails, Commit, CommitFails,
                Revoke, Assign, jobs, Consume, Take, Finish, Saved, Called, TtlPasses, FinishInterrupted,
                Read, NewProcess, life
  <2> QED
    BY <1>1, <2>1, <2>2, JobsStay DEF IInv, JobInv, TypeInv
<1>5. \A r \in RequestId : history'[r] # None =>
          status'[history'[r]] \in Final /\ IdOf[request'[history'[r]]] = r
  <2>1. CASE UNCHANGED history
    BY <1>1, <2>1, JobsStay DEF IInv, JobInv, TypeInv, Created, Final
  <2>2. ASSUME NEW j \in Created, Insert(j), status[j] \in Final, UNCHANGED <<status, request>>
        PROVE  \A r \in RequestId : history'[r] # None =>
                   status'[history'[r]] \in Final /\ IdOf[request'[history'[r]]] = r
    BY <2>2 DEF Insert, IInv, JobInv, TypeInv
  <2> QED
    BY <2>1, <2>2, HistorySteps
<1> QED
  BY <1>1, <1>2, <1>3, <1>4, <1>5 DEF JobInv

-----------------------------------------------------------------------------
(* Events.                                                                 *)

\* The committed offset is the record of a worker in commit().
LEMMA CommitSteps ==
  ASSUME IInv, [Next]_vars, NEW p \in Task
  PROVE  \/ committed'[p] = committed[p]
         \/ worker[p] = "committing" /\ committed'[p] = fetched[p]
<1>1. ASSUME NEW q \in Task, Commit(q) \/ CommitFails(q)
      PROVE  \/ committed'[p] = committed[p]
             \/ worker[p] = "committing" /\ committed'[p] = fetched[p]
  BY <1>1 DEF Commit, CommitFails, Group!CommitOk, Group!CommitFails, IInv, TypeInv, Group!PTypeOK
<1>2. ASSUME NEW q \in Task, Worker(q), ~Commit(q), ~CommitFails(q) PROVE UNCHANGED committed
  BY <1>2 DEF Worker, Poll, Group!Poll, Recheck, SaveView, WorkerFails, Publish, Group!HandlerReturns,
              PublishFails, Revoke, Group!Revoked, Assign, Group!Assigned, kafka
<1>3. ASSUME NEW s \in Caller, Submit(s) PROVE UNCHANGED committed
  BY <1>3 DEF Submit, Hit, Ask, Calls, FromHistory, QueueFull, LookupFails, New, Answered, kafka
<1>4. ASSUME NEW c \in Consumer, Consume(c) PROVE UNCHANGED committed
  BY <1>4 DEF Consume, Take, Finish, Saved, Called, kafka
<1>5. ASSUME Stop \/ Read \/ NewProcess \/ \E j \in Job : TtlPasses(j) \/ FinishInterrupted(j)
      PROVE  UNCHANGED committed
  BY <1>5 DEF Stop, Read, NewProcess, Group!Rejoined, TtlPasses, FinishInterrupted, kafka
<1> QED
  BY <1>1, <1>2, <1>3, <1>4, <1>5 DEF Next, vars, kafka

\* A worker gets to commit() by publishing.
LEMMA CommittingSteps ==
  ASSUME IInv, [Next]_vars, NEW p \in Task, worker'[p] = "committing"
  PROVE  \/ worker[p] = "committing" /\ fetched'[p] = fetched[p]
         \/ \E j \in Job : <<p, fetched'[p], j>> \in events'
<1> DEFINE Goal == \/ worker[p] = "committing" /\ fetched'[p] = fetched[p]
                   \/ \E j \in Job : <<p, fetched'[p], j>> \in events'
<1>1. CASE Publish(p)
  <2>1. caller[p].job \in Job
    BY <1>1 DEF Publish, IInv, WorkerInv, InHand, Created
  <2> QED
    BY <1>1, <2>1 DEF Publish, Event, Group!HandlerReturns
<1>2. ASSUME NEW q \in Task, q # p, Worker(q) PROVE worker'[p] = worker[p] /\ fetched'[p] = fetched[p]
  BY <1>2 DEF Worker, Poll, Group!Poll, Recheck, SaveView, WorkerFails, Publish, Group!HandlerReturns,
              PublishFails, Commit, Group!CommitOk, CommitFails, Group!CommitFails, Revoke, Group!Revoked,
              Assign, Group!Assigned, kafka, IInv, TypeInv, Group!PTypeOK
<1>3. ASSUME Worker(p), ~Publish(p) PROVE worker'[p] = worker[p] /\ fetched'[p] = fetched[p]
  <2>1. ~Poll(p) /\ ~Commit(p) /\ ~CommitFails(p) /\ ~Revoke(p)
    <3>1. worker \in [Task -> {"none", "handling", "committing"}]
      BY DEF IInv, TypeInv, Group!PTypeOK
    <3> QED
      BY <3>1 DEF Poll, Group!Poll, Commit, Group!CommitOk, CommitFails, Group!CommitFails, Revoke,
                  Group!Revoked
  <2>2. ~Assign(p)
    BY DEF Assign, Group!Assigned, IInv, WorkerInv, InHand
  <2> QED
    BY <1>3, <2>1, <2>2 DEF Worker, Recheck, SaveView, WorkerFails, PublishFails, kafka
<1>4. ASSUME NEW s \in Caller, Submit(s) PROVE UNCHANGED <<worker, fetched>>
  BY <1>4 DEF Submit, Hit, Ask, Calls, FromHistory, QueueFull, LookupFails, New, Answered, kafka
<1>5. ASSUME NEW c \in Consumer, Consume(c) PROVE UNCHANGED <<worker, fetched>>
  BY <1>5 DEF Consume, Take, Finish, Saved, Called, kafka
<1>6. ASSUME Stop \/ Read \/ \E j \in Job : TtlPasses(j) \/ FinishInterrupted(j)
      PROVE  UNCHANGED <<worker, fetched>>
  BY <1>6 DEF Stop, Read, TtlPasses, FinishInterrupted, kafka
<1>7. ~NewProcess
  BY DEF NewProcess, Group!Rejoined
<1> QED
  BY <1>1, <1>2, <1>3, <1>4, <1>5, <1>6, <1>7 DEF Next, vars, kafka

LEMMA EventKept == IInv /\ [Next]_vars => EventInv'
<1> SUFFICES ASSUME IInv, [Next]_vars PROVE EventInv'
  OBVIOUS
<1> DEFINE Right(e) == /\ status[e[3]] \in Final /\ e[2] \in DOMAIN log[e[1]]
                       /\ request[e[3]] = log[e[1]][e[2]]
                       /\ history[IdOf[log[e[1]][e[2]]]] = e[3]
<1>0. \A e \in events : e[3] \in Created /\ IdOf[log[e[1]][e[2]]] \in RequestId
  <2> SUFFICES ASSUME NEW e \in events PROVE e[3] \in Created /\ IdOf[log[e[1]][e[2]]] \in RequestId
    OBVIOUS
  <2>1. e[1] \in Task /\ e[3] \in Job /\ status[e[3]] \in Final
    BY DEF IInv, TypeInv, EventInv, PublishedIsRight
  <2>2. log[e[1]][e[2]] \in Request
    BY <2>1, JobsAssumption DEF IInv, EventInv, PublishedIsRight
  <2> QED
    BY <2>1, <2>2, JobsAssumption DEF Created, Final
<1>1. \A e \in events : Right(e)'
  <2> SUFFICES ASSUME NEW e \in events PROVE Right(e)'
    OBVIOUS
  <2>1. /\ status[e[3]] \in Final /\ e[2] \in DOMAIN log[e[1]]
        /\ request[e[3]] = log[e[1]][e[2]]
        /\ history[IdOf[log[e[1]][e[2]]]] = e[3]
    BY DEF IInv, EventInv, PublishedIsRight
  <2>2. status'[e[3]] = status[e[3]] /\ request'[e[3]] = request[e[3]]
    BY <1>0, <2>1, JobsStay DEF Created
  <2>3. history'[IdOf[log[e[1]][e[2]]]] = e[3]
    BY <1>0, <2>1, RowsStay, JobsAssumption DEF Created
  <2> QED
    BY <2>1, <2>2, <2>3
<1>2. \A e \in events' : Right(e)'
  <2>1. ASSUME NEW p \in Task, caller[p].at = "publishing", NEW e, e = Event(p),
               UNCHANGED <<status, request, history, fetched, committed>>
        PROVE  Right(e)'
    <3>1. e[1] = p /\ e[2] = fetched[p] /\ e[3] = caller[p].job
      BY <2>1 DEF Event
    <3>2. /\ worker[p] # "none" /\ fetched[p] \in DOMAIN log[p]
          /\ request[caller[p].job] = log[p][fetched[p]] /\ status[caller[p].job] \in Final
          /\ history[IdOf[log[p][fetched[p]]]] = caller[p].job
      BY <2>1 DEF IInv, WorkerInv, InHand, Record, Row
    <3> QED
      BY <2>1, <3>1, <3>2
  <2> QED
    BY <1>1, <2>1, EventSteps
<1>3. PublishedIsRight' /\ \A e \in events' : history'[IdOf[log[e[1]][e[2]]]] = e[3]
  BY <1>2 DEF PublishedIsRight
<1>4. events \subseteq events'
  BY EventSteps
<1>5. ASSUME NEW p \in Task, worker'[p] = "committing"
      PROVE  \E j \in Job : <<p, fetched'[p], j>> \in events'
  BY <1>4, <1>5, CommittingSteps DEF IInv, EventInv
<1>6. CommittedIsSaved'
  <2> SUFFICES ASSUME NEW p \in Task, NEW o \in 1 .. committed'[p]
               PROVE  \E j \in Job : <<p, o, j>> \in events' /\ history'[IdOf[log[p][o]]] = j
    BY DEF CommittedIsSaved
  <2>1. \E j \in Job : <<p, o, j>> \in events
    <3>1. CASE committed'[p] = committed[p]
      BY <3>1 DEF IInv, EventInv, CommittedIsSaved
    <3>2. CASE worker[p] = "committing" /\ committed'[p] = fetched[p]
      <4>1. o \in 1 .. committed[p] \/ o = fetched[p]
        BY <3>2 DEF IInv, WorkerInv, InHand, TypeInv, Group!PTypeOK
      <4> QED
        BY <3>2, <4>1 DEF IInv, EventInv, CommittedIsSaved
    <3> QED
      BY <3>1, <3>2, CommitSteps
  <2>2. PICK j \in Job : <<p, o, j>> \in events
    BY <2>1
  <2> QED
    BY <1>3, <1>4, <2>2
<1> QED
  BY <1>3, <1>5, <1>6 DEF EventInv

-----------------------------------------------------------------------------
(* Workers.                                                                *)

\* What the others do leaves a worker and its job alone.
LEMMA OthersLeaveHand ==
  ASSUME IInv, [Next]_vars, NEW p \in Task, caller'[p] = caller[p],
         owned'[p] = owned[p], fetched'[p] = fetched[p], committed'[p] = committed[p], worker'[p] = worker[p]
  PROVE  InHand(p)'
<1>1. InHand(p)
  BY DEF IInv, WorkerInv
<1>2. Record(p)' = Record(p)
  BY DEF Record
<1>3. ASSUME caller[p].job \in Created
      PROVE  /\ caller[p].job \in Created' /\ request'[caller[p].job] = request[caller[p].job]
             /\ status[caller[p].job] \in Final => status'[caller[p].job] \in Final
  BY <1>3, JobsStay DEF Created
<1>4. ASSUME caller[p].at = "publishing" PROVE Row(Record(p))' = caller[p].job
  <2>1. Record(p) \in Request /\ caller[p].job \in Job /\ Row(Record(p)) = caller[p].job
    BY <1>1, <1>4, JobsAssumption DEF InHand, Created, Record
  <2>2. history[IdOf[Record(p)]] = caller[p].job /\ IdOf[Record(p)] \in RequestId
    BY <2>1, JobsAssumption DEF Row
  <2> QED
    BY <1>2, <2>1, <2>2, RowsStay, JobsAssumption DEF Row
<1> QED
  BY <1>1, <1>2, <1>3, <1>4 DEF InHand

\* A worker that starts to wait, or finds the result, has its own request.
LEMMA ToldHand ==
  ASSUME IInv, [Next]_vars, NEW p \in Task, NEW j \in Created, Told(p, j), request[j] = Record(p),
         status[j] \in Final \/ Live(j), UNCHANGED <<owned, fetched, committed, worker>>,
         worker[p] = "handling", UNCHANGED <<status, request>>
  PROVE  InHand(p)'
<1>1. InHand(p) /\ p \in Caller /\ p \notin Client
  BY JobsAssumption DEF IInv, WorkerInv, Caller
<1>2. caller'[p] = [at |-> IF Live(j) THEN "waiting" ELSE "woken", job |-> j]
  BY <1>1 DEF Told, IInv, TypeInv
<1> QED
  BY <1>1, <1>2 DEF InHand, Created, Record, Live, Final

LEMMA OutHand ==
  ASSUME IInv, [Next]_vars, NEW p \in Task, caller'[p].at \in {"out", "asked"},
         UNCHANGED <<owned, fetched, committed, worker>>,
         worker[p] = "handling"
  PROVE  InHand(p)'
<1>1. InHand(p)
  BY DEF IInv, WorkerInv
<1> QED
  BY <1>1 DEF InHand

LEMMA SubmitHand ==
  ASSUME IInv, NEW p \in Task, Submit(p)
  PROVE  InHand(p)'
<1>0. p \in Caller /\ p \notin Client /\ [Next]_vars /\ Out.at = "out"
  BY JobsAssumption DEF Caller, Next, Out
<1>1. caller \in [Caller -> Calling]
  BY DEF IInv, TypeInv
<1>2. UNCHANGED <<owned, fetched, committed, worker>> /\ worker[p] = "handling"
  BY <1>0, AskedIsHandling DEF Submit, Hit, Ask, Calls, FromHistory, QueueFull, LookupFails, New, Answered, kafka
<1>3. ASSUME Refused(p) PROVE InHand(p)'
  BY <1>0, <1>1, <1>2, <1>3, OutHand DEF Refused
<1>4. Sent(p) = Record(p)
  BY DEF Sent
<1>5. CASE Hit(p)
  <2>1. ASSUME SameDigest(InMemory(Sent(p)), Sent(p)), Told(p, InMemory(Sent(p))) PROVE InHand(p)'
    <3>1. InMemory(Sent(p)) \in Created /\ request[InMemory(Sent(p))] = Record(p)
      BY <1>0, <1>4, <1>5, <2>1, FoundInMemory DEF SameDigest, IInv, TableInv
    <3>2. status[InMemory(Sent(p))] \in Final \/ Live(InMemory(Sent(p)))
      BY <3>1 DEF Created, Live, Final, IInv, TypeInv
    <3>3. UNCHANGED <<status, request>>
      BY <1>5 DEF Hit, Calls
    <3> QED
      BY <1>0, <1>2, <2>1, <3>1, <3>2, <3>3, ToldHand
  <2> QED
    BY <1>3, <1>5, <2>1 DEF Hit
<1>6. CASE FromHistory(p)
  <2>1. ASSUME SameDigest(caller[p].job, Sent(p)), Told(p, caller[p].job) PROVE InHand(p)'
    <3>1. /\ caller[p].job \in Created /\ request[caller[p].job] = Record(p)
          /\ status[caller[p].job] \in Final
      BY <1>0, <1>4, <1>6, <2>1, FoundInHistory DEF FromHistory, Answered, SameDigest
    <3>2. UNCHANGED <<status, request>>
      BY <1>6 DEF FromHistory
    <3> QED
      BY <1>0, <1>2, <2>1, <3>1, <3>2, ToldHand
  <2> QED
    BY <1>3, <1>6, <2>1 DEF FromHistory
<1>7. CASE QueueFull(p) \/ LookupFails(p)
  BY <1>3, <1>7 DEF QueueFull, LookupFails
<1>8. CASE Ask(p)
  <2>1. caller'[p].at = "asked"
    BY <1>0, <1>1, <1>8 DEF Ask
  <2> QED
    BY <1>0, <1>2, <2>1, OutHand
<1>9. CASE New(p)
  <2>1. NewId \in Job /\ caller'[p] = [at |-> "waiting", job |-> NewId]
    BY <1>0, <1>1, <1>9 DEF New, NewId, FreshJobs
  <2>2. request'[NewId] = Record(p) /\ status'[NewId] = "QUEUED"
    BY <1>4, <1>9, <2>1 DEF New, IInv, TypeInv
  <2>3. InHand(p)
    BY DEF IInv, WorkerInv
  <2> QED
    BY <1>2, <2>1, <2>2, <2>3 DEF InHand, Created, Record
<1> QED
  BY <1>5, <1>6, <1>7, <1>8, <1>9 DEF Submit

LEMMA WorkerHand ==
  ASSUME IInv, NEW p \in Task, Worker(p)
  PROVE  InHand(p)'
<1>0. /\ p \in Caller /\ p \notin Client /\ [Next]_vars /\ Out.at = "out"
      /\ InHand(p)
  BY JobsAssumption DEF Caller, Next, Out, IInv, WorkerInv
<1>1. /\ caller \in [Caller -> Calling] /\ worker \in [Task -> {"none", "handling", "committing"}]
      /\ owned \in [Task -> BOOLEAN] /\ fetched \in [Task -> Nat] /\ committed \in [Task -> Nat]
  BY DEF IInv, TypeInv, Group!PTypeOK
<1>2. /\ log[p] \in Seq(Request)
      /\ caller[p].at # "out" => Record(p) \in Request /\ IdOf[Record(p)] \in RequestId
  BY <1>0, JobsAssumption DEF InHand, Record
<1>3. CASE Poll(p)
  <2>1. fetched'[p] = fetched[p] + 1 /\ fetched[p] < Len(log[p]) /\ worker'[p] = "handling"
        /\ owned'[p] = owned[p] /\ owned[p] /\ worker[p] = "none" /\ UNCHANGED <<committed, caller>>
    BY <1>1, <1>3 DEF Poll, Group!Poll
  <2>2. caller[p].at = "out" /\ fetched[p] = committed[p]
    BY <1>0, <2>1 DEF InHand
  <2> QED
    BY <1>1, <1>2, <2>1, <2>2 DEF InHand
<1>4. CASE Recheck(p)
  <2>1. /\ caller[p].at = "woken" /\ UNCHANGED <<owned, fetched, committed, worker, status, request, history>>
        /\ worker[p] = "handling"
    BY <1>0, <1>4 DEF Recheck, InHand, kafka, jobs
  <2>2. Record(p)' = Record(p) /\ Row(Record(p))' = Row(Record(p))
    BY <2>1 DEF Record, Row
  <2>3. CASE caller' = [caller EXCEPT ![p] = Out]
    BY <1>0, <1>1, <2>1, <2>3, OutHand
  <2>4. CASE caller' = [caller EXCEPT ![p] = [at |-> "saving", job |-> caller[p].job]]
    <3>1. caller'[p] = [at |-> "saving", job |-> caller[p].job]
      BY <1>0, <1>1, <2>4
    <3> QED
      BY <1>0, <2>1, <2>2, <3>1 DEF InHand, Created
  <2>5. ASSUME Row(Record(p)) # None, SameDigest(Row(Record(p)), Record(p)),
               caller' = [caller EXCEPT ![p] = [at |-> "publishing", job |-> Row(Record(p))]]
        PROVE  InHand(p)'
    <3>1. caller'[p] = [at |-> "publishing", job |-> Row(Record(p))]
      BY <1>0, <1>1, <2>5
    <3>2. /\ Row(Record(p)) \in Created /\ status[Row(Record(p))] \in Final
          /\ request[Row(Record(p))] = Record(p)
      BY <1>2, <2>1, <2>5 DEF IInv, JobInv, TypeInv, Row, SameDigest, Created, Final
    <3> QED
      BY <1>0, <2>1, <2>2, <3>1, <3>2 DEF InHand, Created
  <2> QED
    BY <1>4, <2>3, <2>4, <2>5 DEF Recheck, CallerAt, Refused
<1>5. CASE SaveView(p)
  <2>1. /\ caller[p].at = "saving" /\ UNCHANGED <<owned, fetched, committed, worker, status, request>>
        /\ worker[p] = "handling"
    BY <1>0, <1>5 DEF SaveView, InHand, kafka, jobs
  <2>2. CASE caller' = [caller EXCEPT ![p] = Out]
    BY <1>0, <1>1, <2>1, <2>2, OutHand
  <2>3. ASSUME Row(Record(p)) \in {None, caller[p].job}, Insert(caller[p].job),
               caller' = [caller EXCEPT ![p] = [at |-> "publishing", job |-> caller[p].job]]
        PROVE  InHand(p)'
    <3>1. caller'[p] = [at |-> "publishing", job |-> caller[p].job] /\ Record(p)' = Record(p)
      BY <1>0, <1>1, <2>1, <2>3 DEF Record
    <3>2. request[caller[p].job] = Record(p) /\ caller[p].job \in Created /\ status[caller[p].job] \in Final
      BY <1>0, <2>1 DEF InHand
    <3>3. history'[IdOf[Record(p)]] = caller[p].job
      BY <1>2, <2>1, <2>3, <3>2 DEF Insert, Row, IInv, TypeInv
    <3> QED
      BY <1>0, <2>1, <3>1, <3>2, <3>3 DEF InHand, Created, Row
  <2> QED
    BY <1>5, <2>2, <2>3 DEF SaveView, CallerAt, Refused
<1>6. CASE WorkerFails(p)
  BY <1>0, <1>1, <1>6, OutHand DEF WorkerFails, Refused, InHand, kafka
<1>7. CASE Publish(p)
  <2>1. /\ worker'[p] = "committing" /\ worker[p] = "handling" /\ UNCHANGED <<owned, fetched, committed>>
        /\ caller'[p] = Out
    BY <1>0, <1>1, <1>7 DEF Publish, Group!HandlerReturns
  <2> QED
    BY <1>0, <2>1 DEF InHand
<1>8. CASE PublishFails(p)
  BY <1>0, <1>1, <1>8, OutHand DEF PublishFails, InHand
<1>9. CASE Commit(p) \/ CommitFails(p)
  <2>1. /\ worker[p] = "committing" /\ worker'[p] \in {"none", "handling"}
        /\ committed'[p] \in {committed[p], fetched[p]} /\ (worker'[p] = "none" => committed'[p] = fetched[p])
        /\ UNCHANGED <<owned, fetched, caller>>
    BY <1>1, <1>9 DEF Commit, Group!CommitOk, CommitFails, Group!CommitFails
  <2>2. caller[p].at = "out"
    BY <1>0, <2>1 DEF InHand
  <2> QED
    BY <1>0, <1>1, <2>1, <2>2 DEF InHand
<1>10. CASE Revoke(p)
  <2>1. /\ worker'[p] = "none" /\ ~owned'[p] /\ UNCHANGED <<fetched, committed>> /\ caller'[p] = Out
    BY <1>0, <1>1, <1>10 DEF Revoke, Group!Revoked
  <2> QED
    BY <1>0, <2>1 DEF InHand
<1>11. CASE Assign(p)
  <2>1. /\ ~owned[p] /\ fetched'[p] = committed[p] /\ UNCHANGED <<committed, worker, caller>>
    BY <1>0, <1>1, <1>11 DEF Assign, Group!Assigned
  <2>2. worker[p] = "none" /\ caller[p].at = "out"
    BY <1>0, <2>1 DEF InHand
  <2> QED
    BY <1>1, <2>1, <2>2 DEF InHand
<1> QED
  BY <1>3, <1>4, <1>5, <1>6, <1>7, <1>8, <1>9, <1>10, <1>11 DEF Worker

LEMMA WorkerKept == IInv /\ [Next]_vars => WorkerInv'
<1> SUFFICES ASSUME IInv, [Next]_vars PROVE WorkerInv'
  OBVIOUS
<1>0. /\ caller \in [Caller -> Calling] /\ worker \in [Task -> {"none", "handling", "committing"}]
      /\ owned \in [Task -> BOOLEAN] /\ fetched \in [Task -> Nat] /\ committed \in [Task -> Nat]
      /\ Client \subseteq Caller /\ Task \subseteq Caller /\ Out.at = "out"
  BY DEF IInv, TypeInv, Group!PTypeOK, Caller, Out
<1>1. ASSUME NEW s \in Client PROVE caller'[s].at \in {"out", "asked"}
  <2>1. caller[s].at \in {"out", "asked"} /\ s \notin Task /\ s \in Caller
    BY <1>0, JobsAssumption DEF IInv, WorkerInv
  <2>2. ASSUME NEW t \in Caller, Submit(t) PROVE caller'[s].at \in {"out", "asked"}
    <3>1. CASE t = s
      BY <1>0, <2>1, <2>2, <3>1 DEF Submit, Hit, Ask, FromHistory, QueueFull, LookupFails, New, Told, Refused
    <3>2. CASE t # s
      <4>1. \E d : caller' = [caller EXCEPT ![t] = d]
        BY <2>2 DEF Submit, Hit, Ask, FromHistory, QueueFull, LookupFails, New, Told, Refused
      <4> QED
        BY <1>0, <2>1, <3>2, <4>1
    <3> QED
      BY <3>1, <3>2
  <2>3. ASSUME NEW p \in Task, Worker(p) PROVE caller'[s] = caller[s]
    <3>1. \/ \E d : caller' = [caller EXCEPT ![p] = d]
          \/ UNCHANGED caller
      BY <2>3 DEF Worker, Poll, Recheck, SaveView, CallerAt, Refused, WorkerFails, Publish, PublishFails,
                  Commit, CommitFails, Revoke, Assign
    <3> QED
      BY <1>0, <2>1, <3>1
  <2>4. ASSUME NEW c \in Consumer, Consume(c) PROVE caller'[s] = caller[s]
    <3>1. ASSUME NEW k \in Final, Finish(c, k) PROVE caller'[s] = caller[s]
      BY <2>1, <3>1 DEF Finish, Woken
    <3> QED
      BY <2>4, <3>1 DEF Consume, Take, Saved, Called, calls
  <2>5. ASSUME Stop \/ Read \/ \E j \in Job : TtlPasses(j) \/ FinishInterrupted(j) PROVE UNCHANGED caller
    BY <2>5 DEF Stop, Read, TtlPasses, FinishInterrupted, calls
  <2>6. CASE NewProcess
    BY <1>0, <2>1, <2>6 DEF NewProcess
  <2> QED
    BY <2>1, <2>2, <2>3, <2>4, <2>5, <2>6 DEF Next, vars, calls
<1>2. ASSUME NEW p \in Task PROVE InHand(p)'
  <2>0. InHand(p) /\ p \in Caller /\ p \notin Client
    BY <1>0, JobsAssumption DEF IInv, WorkerInv
  <2>1. ASSUME NEW s \in Caller, s # p, Submit(s) PROVE InHand(p)'
    <3>1. \E d : caller' = [caller EXCEPT ![s] = d]
      BY <2>1 DEF Submit, Hit, Ask, FromHistory, QueueFull, LookupFails, New, Told, Refused
    <3>2. caller'[p] = caller[p]
      BY <1>0, <2>0, <2>1, <3>1
    <3>3. UNCHANGED <<owned, fetched, committed, worker>>
      BY <2>1 DEF Submit, Hit, Ask, Calls, FromHistory, QueueFull, LookupFails, New, Answered, kafka
    <3> QED
      BY <3>2, <3>3, OthersLeaveHand
  <2>2. ASSUME NEW q \in Task, q # p, Worker(q) PROVE InHand(p)'
    <3>1. \/ \E d : caller' = [caller EXCEPT ![q] = d]
          \/ UNCHANGED caller
      BY <2>2 DEF Worker, Poll, Recheck, SaveView, CallerAt, Refused, WorkerFails, Publish, PublishFails,
                  Commit, CommitFails, Revoke, Assign
    <3>2. caller'[p] = caller[p]
      BY <1>0, <2>0, <2>2, <3>1
    <3>3. /\ owned'[p] = owned[p] /\ fetched'[p] = fetched[p] /\ committed'[p] = committed[p]
          /\ worker'[p] = worker[p]
      BY <1>0, <2>2 DEF Worker, Poll, Group!Poll, Recheck, SaveView, WorkerFails, Publish,
              Group!HandlerReturns, PublishFails, Commit, Group!CommitOk, CommitFails, Group!CommitFails,
              Revoke, Group!Revoked, Assign, Group!Assigned, kafka
    <3> QED
      BY <3>2, <3>3, OthersLeaveHand
  <2>3. ASSUME NEW c \in Consumer, NEW k \in Final, Finish(c, k) PROVE InHand(p)'
    <3>1. UNCHANGED <<owned, fetched, committed, worker, history, request>>
      BY <2>3 DEF Finish, kafka
    <3>2. CASE caller[p] = [at |-> "waiting", job |-> consumer[c].job]
      <4>1. caller'[p] = [at |-> "woken", job |-> consumer[c].job]
        BY <1>0, <2>0, <2>3, <3>2 DEF Finish, Woken
      <4>2. consumer[c].job \in Created /\ request[consumer[c].job] = Record(p) /\ worker[p] = "handling"
        BY <2>0, <3>2 DEF InHand
      <4>3. status'[consumer[c].job] = k
        BY <2>3, <4>2 DEF Finish, IInv, TypeInv, Created
      <4> QED
        BY <2>0, <3>1, <4>1, <4>2, <4>3 DEF InHand, Created, Record, Final
    <3>3. CASE caller[p] # [at |-> "waiting", job |-> consumer[c].job]
      BY <2>0, <2>3, <3>1, <3>3, OthersLeaveHand DEF Finish, Woken
    <3> QED
      BY <3>2, <3>3
  <2>4. ASSUME NEW c \in Consumer, Take(c) \/ Saved(c) \/ Called(c) PROVE InHand(p)'
    BY <2>4, OthersLeaveHand DEF Take, Saved, Called, calls, kafka
  <2>5. ASSUME Stop \/ Read \/ \E j \in Job : TtlPasses(j) \/ FinishInterrupted(j) PROVE InHand(p)'
    <3>1. UNCHANGED <<caller, owned, fetched, committed, worker>>
      BY <2>5 DEF Stop, Read, TtlPasses, FinishInterrupted, calls, kafka
    <3> QED
      BY <3>1, OthersLeaveHand
  <2>6. CASE NewProcess
    <3>1. /\ caller'[p] = Out /\ worker'[p] = "none" /\ fetched' = committed /\ UNCHANGED committed
      BY <2>0, <2>6 DEF NewProcess, Group!Rejoined
    <3> QED
      BY <1>0, <3>1 DEF InHand
  <2>7. CASE UNCHANGED vars
    BY <2>7, OthersLeaveHand DEF vars, calls, kafka
  <2> QED
    BY <2>1, <2>2, <2>3, <2>4, <2>5, <2>6, <2>7, SubmitHand, WorkerHand DEF Next, Consume
<1> QED
  BY <1>1, <1>2 DEF WorkerInv

-----------------------------------------------------------------------------
(* The table and the lock.                                                 *)

\* _prune() drops ended jobs only.
LEMMA DroppedHaveEnded ==
  ASSUME IInv
  PROVE  Dropped \subseteq records /\ \A j \in Dropped : status[j] \in Final
<1>1. Oldest \subseteq records /\ \A j \in Oldest : status[j] \in Final
  BY DEF Oldest, Ended, IInv, TableInv
<1> QED
  BY <1>1 DEF Dropped, IInv, TableInv

LEMMA PruneKeepsTable ==
  ASSUME IInv, Prune, UNCHANGED <<status, request>>
  PROVE  TableInv'
<1>1. records' = records \ Dropped /\ aged' = {} /\ UNCHANGED completedAt
  BY DEF Prune
<1>2. \A r \in RequestId : byRequest'[r] = IF byRequest[r] \in Dropped THEN None ELSE byRequest[r]
  BY DEF Prune, KeptIndex
<1>3. \A j \in records : IdOf[request[j]] \in RequestId
  BY JobsAssumption DEF IInv, TableInv, JobInv
<1>4. None \notin Job /\ records \subseteq Job
  BY JobsAssumption DEF IInv, TypeInv
<1>5. OneJobPerRequest'
  <2>1. \A j \in records' : byRequest'[IdOf[request'[j]]] = j
    BY <1>1, <1>2, <1>3 DEF IInv, TableInv, OneJobPerRequest
  <2>2. \A r \in RequestId : byRequest'[r] # None => byRequest'[r] \in records'
    BY <1>1, <1>2 DEF IInv, TableInv, OneJobPerRequest
  <2> QED
    BY <2>1, <2>2 DEF OneJobPerRequest
<1>6. \A r \in RequestId : byRequest'[r] # None => IdOf[request'[byRequest'[r]]] = r
  BY <1>2 DEF IInv, TableInv
<1>7. records' \subseteq Created' /\ \A j \in records' : completedAt'[j] # 0 <=> status'[j] \in Final
  BY <1>1 DEF IInv, TableInv, Created
<1> QED
  BY <1>1, <1>5, <1>6, <1>7 DEF TableInv

\* The clock shows a later time than 0, which stands for none.
LEMMA NowIsPositive == Now \in Nat /\ Now # 0
<1>1. IsFiniteSet({j \in Job : completedAt[j] # 0})
  BY JobsAssumption, FS_Subset
<1> QED
  BY <1>1, FS_CardinalityType DEF Now

\* A new job is the only one of its requestId.
LEMMA NewKeepsTable ==
  ASSUME IInv, NEW s \in Caller, New(s)
  PROVE  TableInv'
<1>1. Sent(s) \in Request /\ IdOf[Sent(s)] \in RequestId /\ byRequest[IdOf[Sent(s)]] = None
  BY SentIsRequest, AskedIsHandling DEF New, Answered, IInv, LockInv
<1> DEFINE n == NewId
           i == IdOf[Sent(s)]
<1>2. n \in Job /\ status[n] = "none" /\ n \notin records /\ n # None
  BY JobsAssumption DEF New, NewId, FreshJobs, IInv, TableInv, Created
<1>3. /\ status' = [status EXCEPT ![n] = "QUEUED"] /\ request' = [request EXCEPT ![n] = Sent(s)]
      /\ records' = records \cup {n} /\ byRequest' = [byRequest EXCEPT ![i] = n]
      /\ UNCHANGED <<completedAt, aged>>
  BY DEF New
<1>4. completedAt[n] = 0
  BY <1>2 DEF IInv, TimeInv
<1> HIDE DEF n, i
<1>5. /\ \A j \in records : status'[j] = status[j] /\ request'[j] = request[j]
      /\ status'[n] = "QUEUED" /\ request'[n] = Sent(s)
      /\ byRequest'[i] = n /\ \A r \in RequestId : r # i => byRequest'[r] = byRequest[r]
  BY <1>1, <1>2, <1>3 DEF IInv, TypeInv, i
<1>6. \A j \in records : IdOf[request[j]] # i /\ IdOf[request[j]] \in RequestId
  <2>1. \A j \in records : byRequest[IdOf[request[j]]] = j /\ j # None /\ request[j] \in Request
    BY JobsAssumption DEF IInv, TableInv, OneJobPerRequest, TypeInv, JobInv
  <2> QED
    BY <1>1, <2>1, JobsAssumption DEF i
<1>7. OneJobPerRequest'
  <2>1. \A j \in records' : byRequest'[IdOf[request'[j]]] = j
    BY <1>3, <1>5, <1>6 DEF IInv, TableInv, OneJobPerRequest, i
  <2>2. \A r \in RequestId : byRequest'[r] # None => byRequest'[r] \in records'
    BY <1>3, <1>5 DEF IInv, TableInv, OneJobPerRequest
  <2> QED
    BY <2>1, <2>2 DEF OneJobPerRequest
<1>8. \A r \in RequestId : byRequest'[r] # None => IdOf[request'[byRequest'[r]]] = r
  BY <1>5 DEF IInv, TableInv, OneJobPerRequest, i
<1>9. records' \subseteq Created' /\ \A j \in records' : completedAt'[j] # 0 <=> status'[j] \in Final
  BY <1>2, <1>3, <1>4, <1>5 DEF IInv, TableInv, Created, Final
<1>10. aged' \subseteq records' /\ \A j \in aged' : status'[j] \in Final
  BY <1>3, <1>5 DEF IInv, TableInv
<1> QED
  BY <1>7, <1>8, <1>9, <1>10 DEF TableInv

LEMMA TableKept == IInv /\ [Next]_vars => TableInv'
<1> SUFFICES ASSUME IInv, [Next]_vars PROVE TableInv'
  OBVIOUS
<1>0. /\ status \in [Job -> {"none", "QUEUED", "PROCESSING"} \cup Final] /\ records \subseteq Job
      /\ completedAt \in [Job -> Nat]
  BY DEF IInv, TypeInv
<1>1. ASSUME UNCHANGED <<status, request, memory>> PROVE TableInv'
  BY <1>1 DEF IInv, TableInv, OneJobPerRequest, Created, memory
<1>2. ASSUME NEW s \in Caller, Submit(s) PROVE TableInv'
  <2>1. CASE New(s)
    BY <2>1, NewKeepsTable
  <2>2. CASE ~New(s)
    <3>1. UNCHANGED <<status, request>> /\ (Prune \/ UNCHANGED memory)
      BY <1>2, <2>2 DEF Submit, Hit, Ask, Calls, FromHistory, QueueFull, LookupFails
    <3> QED
      BY <1>1, <3>1, PruneKeepsTable
  <2> QED
    BY <2>1, <2>2
<1>3. ASSUME NEW p \in Task, Worker(p) PROVE UNCHANGED <<status, request, memory>>
  BY <1>3 DEF Worker, Poll, Recheck, SaveView, WorkerFails, Publish, PublishFails, Commit, CommitFails,
              Revoke, Assign, jobs
<1>4. ASSUME NEW c \in Consumer, Saved(c) \/ Called(c) PROVE UNCHANGED <<status, request, memory>>
  BY <1>4 DEF Saved, Called
<1>5. ASSUME UNCHANGED <<request, records, byRequest, aged>>,
             \A j \in records : \/ status'[j] = status[j] /\ completedAt'[j] = completedAt[j]
                                \/ /\ j \notin aged /\ status'[j] # "none"
                                   /\ completedAt'[j] # 0 <=> status'[j] \in Final
      PROVE  TableInv'
  <2>1. OneJobPerRequest' /\ \A r \in RequestId : byRequest'[r] # None => IdOf[request'[byRequest'[r]]] = r
    BY <1>5 DEF IInv, TableInv, OneJobPerRequest
  <2>2. records' \subseteq Created'
    BY <1>5 DEF IInv, TableInv, Created
  <2> QED
    BY <1>5, <2>1, <2>2 DEF IInv, TableInv
<1>6. ASSUME NEW c \in Consumer, Take(c) PROVE TableInv'
  <2>1. Head(queue) \in records /\ status[Head(queue)] = "QUEUED"
    BY <1>6, QueuedIsLive DEF Take
  <2>2. /\ status' = [status EXCEPT ![Head(queue)] = "PROCESSING"]
        /\ UNCHANGED <<request, records, byRequest, aged, completedAt>>
    BY <1>6 DEF Take, memory
  <2>3. completedAt[Head(queue)] = 0 /\ Head(queue) \notin aged
    BY <2>1 DEF IInv, TableInv, Final
  <2> QED
    BY <1>0, <1>5, <2>1, <2>2, <2>3 DEF Final
<1>7. ASSUME NEW c \in Consumer, NEW k \in Final, Finish(c, k) PROVE TableInv'
  <2>1. consumer[c].job \in records /\ status[consumer[c].job] = "PROCESSING"
    BY <1>7, RunningIsLive DEF Finish
  <2>2. /\ status' = [status EXCEPT ![consumer[c].job] = k]
        /\ completedAt' = [completedAt EXCEPT ![consumer[c].job] = Now]
        /\ UNCHANGED <<request, records, byRequest, aged>>
    BY <1>7 DEF Finish
  <2>3. consumer[c].job \notin aged
    BY <2>1 DEF IInv, TableInv, Final
  <2> QED
    BY <1>0, <1>5, <2>1, <2>2, <2>3, NowIsPositive DEF Final
<1>8. CASE Stop
  <2>1. \A j \in records : \/ ~Live(j) /\ status'[j] = status[j] /\ completedAt'[j] = completedAt[j]
                           \/ Live(j) /\ status'[j] = "FAILED" /\ completedAt'[j] = Now
    BY <1>0, <1>8 DEF Stop
  <2>2. \A j \in aged : ~Live(j)
    BY DEF IInv, TableInv, Final, Live
  <2>3. UNCHANGED <<request, records, byRequest, aged>>
    BY <1>8 DEF Stop
  <2> QED
    BY <1>5, <2>1, <2>2, <2>3, NowIsPositive DEF Final
<1>9. CASE NewProcess
  BY <1>9 DEF NewProcess, TableInv, OneJobPerRequest
<1>10. CASE Read
  BY <1>10, PruneKeepsTable DEF Read
<1>11. ASSUME NEW j \in Job, TtlPasses(j) PROVE TableInv'
  BY <1>11 DEF TtlPasses, IInv, TableInv, OneJobPerRequest, Created
<1>12. ASSUME NEW j \in Job, FinishInterrupted(j) PROVE UNCHANGED <<status, request, memory>>
  BY <1>12 DEF FinishInterrupted
<1> QED
  BY <1>1, <1>2, <1>3, <1>4, <1>6, <1>7, <1>8, <1>9, <1>10, <1>11, <1>12 DEF Next, Consume, vars

LEMMA TimeKept == IInv /\ [Next]_vars => TimeInv'
<1> SUFFICES ASSUME IInv, [Next]_vars, NEW j \in Job, status'[j] = "none" PROVE completedAt'[j] = 0
  BY DEF TimeInv
<1>0. status \in [Job -> {"none", "QUEUED", "PROCESSING"} \cup Final] /\ completedAt \in [Job -> Nat]
  BY DEF IInv, TypeInv
<1>1. status[j] = "none"
  BY JobsStay DEF Created
<1>2. completedAt[j] = 0
  BY <1>1 DEF IInv, TimeInv
<1>3. ASSUME NEW s \in Caller, Submit(s) PROVE UNCHANGED completedAt
  BY <1>3 DEF Submit, Hit, Ask, Calls, FromHistory, QueueFull, LookupFails, New, Prune, memory
<1>4. ASSUME NEW p \in Task, Worker(p) PROVE UNCHANGED completedAt
  BY <1>4 DEF Worker, Poll, Recheck, SaveView, WorkerFails, Publish, PublishFails, Commit, CommitFails,
              Revoke, Assign, jobs, memory
<1>5. ASSUME NEW c \in Consumer, Take(c) \/ Saved(c) \/ Called(c) PROVE UNCHANGED completedAt
  BY <1>5 DEF Take, Saved, Called, memory
<1>6. ASSUME NEW c \in Consumer, NEW k \in Final, Finish(c, k) PROVE completedAt'[j] = completedAt[j]
  BY <1>0, <1>1, <1>6, RunningIsLive DEF Finish
<1>7. CASE Stop
  <2>1. ~Live(j)
    BY <1>1 DEF Live
  <2>2. completedAt'[j] = IF j \in {k \in records : Live(k)} THEN Now ELSE completedAt[j]
    BY <1>7 DEF Stop
  <2> QED
    BY <1>2, <2>1, <2>2
<1>8. ASSUME Read \/ \E k \in Job : TtlPasses(k) \/ FinishInterrupted(k) PROVE UNCHANGED completedAt
  BY <1>8 DEF Read, Prune, TtlPasses, FinishInterrupted, memory
<1>9. CASE NewProcess
  BY <1>9 DEF NewProcess
<1> QED
  BY <1>2, <1>3, <1>4, <1>5, <1>6, <1>7, <1>8, <1>9 DEF Next, Consume, vars, memory

\* byRequest loses entries, or gains the one of a new job.
LEMMA IndexSteps ==
  ASSUME IInv, [Next]_vars, NEW r \in RequestId, byRequest[r] = None
  PROVE  \/ byRequest'[r] = None
         \/ \E s \in Caller : New(s) /\ r = IdOf[Sent(s)]
<1>1. ASSUME NEW s \in Caller, Submit(s), ~New(s) PROVE Prune \/ UNCHANGED byRequest
  BY <1>1 DEF Submit, Hit, Ask, Calls, FromHistory, QueueFull, LookupFails, memory
<1>2. Prune => byRequest'[r] = None
  BY DEF Prune, KeptIndex
<1>3. ASSUME NEW s \in Caller, New(s)
      PROVE  byRequest'[r] = None \/ r = IdOf[Sent(s)]
  BY <1>3 DEF New, IInv, TypeInv
<1>4. ASSUME NEW p \in Task, Worker(p) PROVE UNCHANGED byRequest
  BY <1>4 DEF Worker, Poll, Recheck, SaveView, WorkerFails, Publish, PublishFails, Commit, CommitFails,
              Revoke, Assign, jobs, memory
<1>5. ASSUME NEW c \in Consumer, Consume(c) PROVE UNCHANGED byRequest
  BY <1>5 DEF Consume, Take, Finish, Saved, Called, memory
<1>6. ASSUME Stop \/ \E j \in Job : TtlPasses(j) \/ FinishInterrupted(j) PROVE UNCHANGED byRequest
  BY <1>6 DEF Stop, TtlPasses, FinishInterrupted, memory
<1>7. CASE Read
  BY <1>2, <1>7 DEF Read
<1>8. CASE NewProcess
  BY <1>8 DEF NewProcess
<1> QED
  BY <1>1, <1>2, <1>3, <1>4, <1>5, <1>6, <1>7, <1>8 DEF Next, vars, memory

\* The lock is taken by the caller that asks, and given back by the one that has it.
LEMMA LockSteps ==
  ASSUME IInv, [Next]_vars
  PROVE  \/ UNCHANGED lock /\ \A s \in Caller :
                \/ caller'[s] = caller[s]
                \/ caller[s].at # "asked" /\ caller'[s].at # "asked"
         \/ \E s \in Caller : Ask(s)
         \/ \E s \in Caller : lock = s /\ lock' = None /\ caller'[s].at # "asked"
                              /\ \A t \in Caller \ {s} : caller'[t] = caller[t]
         \/ NewProcess
<1> DEFINE Same == UNCHANGED lock /\ \A s \in Caller :
                       \/ caller'[s] = caller[s]
                       \/ caller[s].at # "asked" /\ caller'[s].at # "asked"
           Back(s) == /\ lock = s /\ lock' = None /\ caller'[s].at # "asked"
                      /\ \A t \in Caller \ {s} : caller'[t] = caller[t]
<1>0. caller \in [Caller -> Calling] /\ Out.at = "out" /\ Task \subseteq Caller
  BY DEF IInv, TypeInv, Out, Caller
<1>1. ASSUME NEW s \in Caller, NEW d, caller' = [caller EXCEPT ![s] = d], d.at # "asked"
      PROVE  caller'[s].at # "asked" /\ \A t \in Caller \ {s} : caller'[t] = caller[t]
  BY <1>0, <1>1
<1>2. ASSUME NEW s \in Caller, NEW j, Told(s, j) \/ Refused(s)
      PROVE  \E d : caller' = [caller EXCEPT ![s] = d] /\ d.at # "asked"
  BY <1>0, <1>2 DEF Told, Refused
<1>3. ASSUME NEW s \in Caller, Submit(s), ~Ask(s) PROVE Same \/ Back(s)
  <2>1. CASE Hit(s)
    <3>1. UNCHANGED lock /\ caller[s].at = "out" /\ (Told(s, InMemory(Sent(s))) \/ Refused(s))
      BY <2>1 DEF Hit, Calls
    <3> QED
      BY <1>1, <1>2, <3>1
  <2>2. CASE FromHistory(s) \/ QueueFull(s) \/ LookupFails(s) \/ New(s)
    <3>1. caller[s].at = "asked" /\ lock' = None
      BY <2>2 DEF FromHistory, QueueFull, LookupFails, New, Answered
    <3>2. \E d : caller' = [caller EXCEPT ![s] = d] /\ d.at # "asked"
      <4>1. CASE New(s)
        BY <1>0, <4>1 DEF New
      <4> QED
        BY <1>2, <2>2, <4>1 DEF FromHistory, QueueFull, LookupFails
    <3> QED
      BY <1>1, <3>1, <3>2 DEF IInv, LockInv
  <2> QED
    BY <1>3, <2>1, <2>2 DEF Submit
<1>4. ASSUME NEW p \in Task, Worker(p), ~Revoke(p) PROVE Same
  <2>1. CASE Poll(p) \/ Commit(p) \/ CommitFails(p) \/ Assign(p)
    BY <2>1 DEF Poll, Commit, CommitFails, Assign, jobs
  <2>2. CASE Recheck(p) \/ SaveView(p) \/ WorkerFails(p) \/ Publish(p) \/ PublishFails(p)
    <3>1. caller[p].at # "asked" /\ UNCHANGED lock
      BY <2>2 DEF Recheck, SaveView, WorkerFails, Publish, PublishFails, jobs
    <3>2. \E d : caller' = [caller EXCEPT ![p] = d] /\ d.at # "asked"
      BY <1>0, <2>2 DEF Recheck, SaveView, WorkerFails, Publish, PublishFails, CallerAt, Refused
    <3> QED
      BY <1>0, <1>1, <3>1, <3>2
  <2> QED
    BY <1>4, <2>1, <2>2 DEF Worker
<1>5. ASSUME NEW p \in Task, Revoke(p) PROVE Same \/ Back(p)
  <2>1. caller' = [caller EXCEPT ![p] = Out] /\ lock' = IF lock = p THEN None ELSE lock
    BY <1>5 DEF Revoke
  <2>2. lock = p <=> caller[p].at = "asked"
    BY <1>0 DEF IInv, LockInv
  <2> QED
    BY <1>0, <1>1, <2>1, <2>2
<1>6. ASSUME NEW c \in Consumer, Consume(c) PROVE Same
  <2>1. ASSUME NEW k \in Final, Finish(c, k) PROVE Same
    <3>1. UNCHANGED lock /\ caller' = Woken(consumer[c].job)
      BY <2>1 DEF Finish
    <3>2. ASSUME NEW s \in Caller
          PROVE  \/ caller'[s] = caller[s]
                 \/ caller[s].at = "waiting" /\ caller'[s].at = "woken"
      <4>1. CASE caller[s] = [at |-> "waiting", job |-> consumer[c].job]
        <5>1. caller'[s] = [[at |-> "waiting", job |-> consumer[c].job] EXCEPT !.at = "woken"]
          BY <3>1, <4>1 DEF Woken
        <5> QED
          BY <4>1, <5>1
      <4> QED
        BY <3>1, <4>1 DEF Woken
    <3> QED
      BY <3>1, <3>2
  <2> QED
    BY <1>6, <2>1 DEF Consume, Take, Saved, Called, calls
<1>7. ASSUME Stop \/ Read \/ \E j \in Job : TtlPasses(j) \/ FinishInterrupted(j) PROVE Same
  BY <1>7 DEF Stop, Read, TtlPasses, FinishInterrupted, calls
<1>8. CASE UNCHANGED vars
  BY <1>8 DEF vars, calls
<1> QED
  BY <1>0, <1>3, <1>4, <1>5, <1>6, <1>7, <1>8 DEF Next

\* While a worker handles its record, the record stays.
LEMMA RecordStays ==
  ASSUME IInv, [Next]_vars, ~NewProcess, NEW p \in Task, worker[p] # "none"
  PROVE  fetched'[p] = fetched[p]
<1>0. fetched \in [Task -> Nat] /\ owned[p]
  BY DEF IInv, TypeInv, Group!PTypeOK, WorkerInv, InHand
<1>1. ASSUME NEW q \in Task, Poll(q) \/ Assign(q) PROVE fetched'[p] = fetched[p]
  BY <1>0, <1>1 DEF Poll, Group!Poll, Assign, Group!Assigned
<1>2. ASSUME NEW q \in Task, Worker(q), ~Poll(q), ~Assign(q) PROVE UNCHANGED fetched
  BY <1>2 DEF Worker, Recheck, SaveView, WorkerFails, Publish, Group!HandlerReturns, PublishFails, Commit,
              Group!CommitOk, CommitFails, Group!CommitFails, Revoke, Group!Revoked, kafka
<1>3. ASSUME NEW s \in Caller, Submit(s) PROVE UNCHANGED fetched
  BY <1>3 DEF Submit, Hit, Ask, Calls, FromHistory, QueueFull, LookupFails, New, Answered, kafka
<1>4. ASSUME NEW c \in Consumer, Consume(c) PROVE UNCHANGED fetched
  BY <1>4 DEF Consume, Take, Finish, Saved, Called, kafka
<1>5. ASSUME Stop \/ Read \/ \E j \in Job : TtlPasses(j) \/ FinishInterrupted(j) PROVE UNCHANGED fetched
  BY <1>5 DEF Stop, Read, TtlPasses, FinishInterrupted, kafka
<1> QED
  BY <1>1, <1>2, <1>3, <1>4, <1>5 DEF Next, vars, kafka

LEMMA LockKept == IInv /\ [Next]_vars => LockInv'
<1> SUFFICES ASSUME IInv, [Next]_vars PROVE LockInv'
  OBVIOUS
<1>0. /\ caller \in [Caller -> Calling] /\ None \notin Caller
      /\ \A s \in Caller : caller[s].at = "asked" <=> lock = s
  BY JobsAssumption DEF IInv, TypeInv, LockInv, Caller
<1>1. ASSUME NEW s \in Caller, Ask(s)
      PROVE  /\ lock = None /\ lock' = s
             /\ caller'[s].at = "asked" /\ caller'[s].job = history[IdOf[Sent(s)]]
             /\ \A t \in Caller : t # s => caller'[t] = caller[t]
  BY <1>0, <1>1 DEF Ask, Row
<1>2. CASE NewProcess
  <2>1. lock' = None /\ \A s \in Caller : caller'[s] = Out
    BY <1>2 DEF NewProcess
  <2> QED
    BY <1>0, <2>1 DEF LockInv, Out
<1>3. \A s \in Caller : caller'[s].at = "asked" <=> lock' = s
  <2>1. ASSUME NEW s \in Caller, Ask(s) PROVE \A t \in Caller : caller'[t].at = "asked" <=> lock' = t
    <3> SUFFICES ASSUME NEW t \in Caller PROVE caller'[t].at = "asked" <=> lock' = t
      OBVIOUS
    <3>1. lock = None /\ lock' = s /\ caller'[s].at = "asked"
      BY <1>1, <2>1
    <3>2. t # s => caller'[t].at # "asked"
      BY <1>0, <1>1, <2>1, <3>1
    <3> QED
      BY <3>1, <3>2
  <2>2. ASSUME NEW s \in Caller, lock = s, lock' = None, caller'[s].at # "asked",
               \A t \in Caller \ {s} : caller'[t] = caller[t]
        PROVE  \A t \in Caller : caller'[t].at = "asked" <=> lock' = t
    <3> SUFFICES ASSUME NEW t \in Caller PROVE caller'[t].at # "asked" /\ lock' # t
      OBVIOUS
    <3> QED
      BY <1>0, <2>2
  <2>3. ASSUME UNCHANGED lock, \A s \in Caller : \/ caller'[s] = caller[s]
                                                 \/ caller[s].at # "asked" /\ caller'[s].at # "asked"
        PROVE  \A t \in Caller : caller'[t].at = "asked" <=> lock' = t
    <3> SUFFICES ASSUME NEW t \in Caller PROVE caller'[t].at = "asked" <=> lock' = t
      OBVIOUS
    <3>1. CASE caller'[t] = caller[t]
      BY <1>0, <2>3, <3>1
    <3>2. CASE caller[t].at # "asked" /\ caller'[t].at # "asked"
      BY <1>0, <2>3, <3>2
    <3> QED
      BY <2>3, <3>1, <3>2
  <2>4. CASE NewProcess
    BY <1>2, <2>4 DEF LockInv
  <2> QED
    BY <2>1, <2>2, <2>3, <2>4, LockSteps
<1>4. ASSUME ~NewProcess, NEW s \in Caller, caller'[s].at = "asked"
      PROVE  /\ byRequest'[IdOf[Sent(s)']] = None
             /\ caller'[s].job # None => history'[IdOf[Sent(s)']] = caller'[s].job
  <2>1. CASE caller'[s] = caller[s]
    <3>1. caller[s].at = "asked" /\ lock = s
      BY <1>0, <1>4, <2>1
    <3>2. IdOf[Sent(s)] \in RequestId
      BY <3>1, SentIsRequest, AskedIsHandling
    <3>3. Sent(s)' = Sent(s)
      BY <1>4, <3>1, AskedIsHandling, RecordStays DEF Sent, Record
    <3>4. \A t \in Caller : ~New(t)
      <4> SUFFICES ASSUME NEW t \in Caller, New(t) PROVE FALSE
        OBVIOUS
      <4>1. t = s /\ lock' = None
        BY <1>0, <3>1 DEF New, Answered
      <4> QED
        BY <1>0, <1>3, <1>4, <4>1
    <3>5. byRequest[IdOf[Sent(s)]] = None
      BY <3>1 DEF IInv, LockInv
    <3>6. byRequest'[IdOf[Sent(s)]] = None
      BY <3>2, <3>4, <3>5, IndexSteps
    <3>7. caller[s].job # None => history'[IdOf[Sent(s)]] = caller[s].job
      BY <3>1, <3>2, FoundInHistory, RowsStay
    <3> QED
      BY <2>1, <3>3, <3>6, <3>7
  <2>2. CASE Ask(s)
    <3>1. worker' = worker /\ fetched' = fetched /\ history' = history /\ byRequest' = KeptIndex
      BY <2>2 DEF Ask, Calls, Prune, kafka
    <3>2. Sent(s)' = Sent(s) /\ KeptIndex[IdOf[Sent(s)]] = None
      BY <2>2, <3>1 DEF Ask, Sent, Record, InMemory
    <3>3. caller'[s].job = history[IdOf[Sent(s)]]
      BY <1>1, <2>2
    <3>4. IdOf[Sent(s)'] = IdOf[Sent(s)]
      BY <3>2
    <3>5. byRequest'[IdOf[Sent(s)']] = None /\ history'[IdOf[Sent(s)']] = caller'[s].job
      BY <3>1, <3>2, <3>3, <3>4
    <3> QED
      BY <3>5
  <2>3. caller'[s] = caller[s] \/ Ask(s)
    <3>1. ASSUME NEW t \in Caller, Ask(t) PROVE caller'[s] = caller[s] \/ Ask(s)
      BY <1>1, <3>1
    <3> QED
      BY <1>4, <3>1, LockSteps
  <2> QED
    BY <2>1, <2>2, <2>3
<1> QED
  BY <1>2, <1>3, <1>4 DEF LockInv

-----------------------------------------------------------------------------
(* Callbacks and the end of the service.                                   *)

LEMMA ClaimKept == IInv /\ [Next]_vars => ClaimInv'
<1> SUFFICES ASSUME IInv, [Next]_vars PROVE ClaimInv'
  OBVIOUS
<1>0. /\ status \in [Job -> {"none", "QUEUED", "PROCESSING"} \cup Final]
      /\ consumer \in [Consumer -> Doing] /\ records \subseteq Job /\ None \notin Job
      /\ claimed \subseteq Created /\ kafkaOnly \subseteq Created
      /\ claimed \cap records \cap kafkaOnly = {} /\ ClaimedIsCalledBack
  BY JobsAssumption DEF IInv, TypeInv, JobInv, ClaimInv
\* Who is claimed was claimed before, or is live; nothing new ends.
<1>1. ASSUME records' \subseteq records, kafkaOnly' \subseteq kafkaOnly, accepting' => accepting,
             \A j \in claimed' : j \in claimed \/ (j \notin kafkaOnly' /\ status'[j] \notin Final),
             \A j \in records : status'[j] \in Final => status[j] \in Final,
             called \subseteq called',
             \A c \in Consumer : consumer'[c].job = consumer[c].job \/ consumer[c].job \in called' \cup {None}
      PROVE  ClaimInv'
  <2>1. claimed' \cap records' \cap kafkaOnly' = {}
    BY <1>0, <1>1
  <2>2. ASSUME NEW j \in claimed' \cap records', accepting', status'[j] \in Final
        PROVE  j \in called' \/ \E c \in Consumer : consumer'[c].job = j
    <3>1. j \in claimed /\ j \in records /\ status[j] \in Final /\ accepting /\ j # None
      BY <1>0, <1>1, <2>2
    <3>2. j \in called \/ \E c \in Consumer : consumer[c].job = j
      BY <1>0, <3>1 DEF ClaimedIsCalledBack
    <3> QED
      BY <1>1, <3>1, <3>2
  <2> QED
    BY <2>1, <2>2 DEF ClaimInv, ClaimedIsCalledBack
<1>2. ASSUME NEW s \in Caller, NEW j, j \in Created, Told(s, j) \/ Refused(s), records' \subseteq records,
             UNCHANGED <<status, accepting, called, consumer>>
      PROVE  ClaimInv'
  <2>1. kafkaOnly' \subseteq kafkaOnly
    BY <1>2 DEF Told, Refused
  <2>2. ASSUME NEW i \in claimed', i \notin claimed PROVE i = j /\ Live(j) /\ j \notin kafkaOnly'
    BY <1>2, <2>2 DEF Told, Refused
  <2>3. \A i \in claimed' : i \in claimed \/ (i \notin kafkaOnly' /\ status'[i] \notin Final)
    BY <1>2, <2>2 DEF Live, Final
  <2> QED
    BY <1>1, <1>2, <2>1, <2>3
<1>3. ASSUME NEW s \in Caller, Submit(s) PROVE ClaimInv'
  <2>1. CASE Hit(s)
    <3>1. InMemory(Sent(s)) \in Created
      BY <2>1, FoundInMemory DEF IInv, TableInv
    <3>2. /\ Told(s, InMemory(Sent(s))) \/ Refused(s)
          /\ records' \subseteq records /\ UNCHANGED <<status, accepting, called, consumer>>
      BY <2>1 DEF Hit, Calls, Prune, life
    <3> QED
      BY <1>2, <3>1, <3>2
  <2>2. CASE FromHistory(s)
    <3>1. caller[s].job \in Created
      BY <2>2, FoundInHistory DEF FromHistory, Answered
    <3>2. /\ Told(s, caller[s].job) \/ Refused(s)
          /\ records' \subseteq records /\ UNCHANGED <<status, accepting, called, consumer>>
      BY <2>2 DEF FromHistory, Answered, Prune, memory, life
    <3> QED
      BY <1>2, <3>1, <3>2
  <2>3. CASE Ask(s) \/ QueueFull(s) \/ LookupFails(s)
    <3>1. /\ UNCHANGED <<claimed, kafkaOnly, status, accepting, called, consumer>>
          /\ records' \subseteq records
      BY <2>3 DEF Ask, Calls, QueueFull, LookupFails, Answered, Refused, Prune, memory, life
    <3> QED
      BY <1>1, <3>1
  <2>4. CASE New(s)
    <3>1. NewId \in Job /\ NewId \notin Created /\ NewId \notin records
      BY <2>4 DEF New, NewId, FreshJobs, Created, IInv, TableInv
    <3>2. /\ status' = [status EXCEPT ![NewId] = "QUEUED"] /\ records' = records \cup {NewId}
          /\ UNCHANGED <<consumer, accepting, called>>
      BY <2>4 DEF New, Answered, life
    <3>3. \/ kafkaOnly' = kafkaOnly \cup {NewId} /\ claimed' = claimed
          \/ claimed' = claimed \cup {NewId} /\ kafkaOnly' = kafkaOnly
      BY <2>4 DEF New
    <3>4. claimed' \cap records' \cap kafkaOnly' = {}
      BY <1>0, <3>1, <3>2, <3>3
    <3>5. ASSUME NEW j \in claimed' \cap records', accepting', status'[j] \in Final
          PROVE  j \in called' \/ \E c \in Consumer : consumer'[c].job = j
      <4>1. j # NewId /\ j \in claimed /\ j \in records /\ status'[j] = status[j]
        BY <1>0, <3>1, <3>2, <3>3, <3>5 DEF Final
      <4> QED
        BY <1>0, <3>2, <3>5, <4>1 DEF ClaimedIsCalledBack
    <3> QED
      BY <3>4, <3>5 DEF ClaimInv, ClaimedIsCalledBack
  <2> QED
    BY <1>3, <2>1, <2>2, <2>3, <2>4 DEF Submit
<1>4. ASSUME NEW p \in Task, Worker(p) PROVE ClaimInv'
  <2>1. kafkaOnly' \subseteq kafkaOnly /\ UNCHANGED <<records, claimed, status, accepting, called, consumer>>
    BY <1>4 DEF Worker, Poll, Recheck, SaveView, WorkerFails, Refused, Publish, PublishFails, Commit, CommitFails,
                Revoke, Assign, jobs, memory, life
  <2> QED
    BY <1>1, <2>1
<1>5. ASSUME NEW c \in Consumer, Take(c) PROVE ClaimInv'
  <2>1. consumer[c].job = None /\ UNCHANGED <<records, kafkaOnly, claimed, accepting, called>>
    BY <1>5 DEF Take, IInv, WorkInv, memory, calls, life
  <2>2. \A d \in Consumer : consumer'[d].job = consumer[d].job \/ consumer[d].job = None
    BY <1>0, <1>5, <2>1 DEF Take
  <2>3. \A j \in records : status'[j] \in Final => status[j] \in Final
    BY <1>0, <1>5, QueuedIsLive DEF Take, Final
  <2> QED
    BY <1>1, <2>1, <2>2, <2>3
<1>6. ASSUME NEW c \in Consumer, NEW k \in Final, Finish(c, k) PROVE ClaimInv'
  <2> DEFINE j == consumer[c].job
  <2>1. /\ j \in records /\ kafkaOnly' = kafkaOnly \ {j} /\ status' = [status EXCEPT ![j] = k]
        /\ UNCHANGED <<records, claimed, accepting, called>>
    BY <1>6, RunningIsLive DEF Finish, life
  <2>2. /\ \A d \in Consumer : d # c => consumer'[d].job = consumer[d].job
        /\ j \notin kafkaOnly => consumer'[c].job = j
    BY <1>0, <1>6 DEF Finish
  <2> HIDE DEF j
  <2>3. ASSUME NEW i \in claimed' \cap records', accepting', status'[i] \in Final
        PROVE  i \in called' \/ \E d \in Consumer : consumer'[d].job = i
    <3>1. i \in claimed /\ i \in records /\ i \notin kafkaOnly
      BY <1>0, <2>1, <2>3
    <3>2. CASE i = j
      BY <2>2, <3>1, <3>2
    <3>3. CASE i # j
      <4>1. status[i] \in Final /\ accepting
        BY <1>0, <2>1, <2>3, <3>1, <3>3
      <4>2. i \in called \/ \E d \in Consumer : consumer[d].job = i
        BY <1>0, <3>1, <4>1 DEF ClaimedIsCalledBack
      <4> QED
        BY <2>1, <2>2, <3>3, <4>2 DEF j
    <3> QED
      BY <3>2, <3>3
  <2> QED
    BY <1>0, <2>1, <2>3 DEF ClaimInv, ClaimedIsCalledBack
<1>7. ASSUME NEW c \in Consumer, Saved(c) \/ Called(c) PROVE ClaimInv'
  <2>1. /\ UNCHANGED <<records, kafkaOnly, claimed, status, accepting>> /\ called \subseteq called'
    BY <1>7 DEF Saved, Called, memory, calls, life
  <2>2. CASE Saved(c)
    <3>1. \A d \in Consumer : consumer'[d].job = consumer[d].job
      BY <1>0, <2>2, DoingHas DEF Saved
    <3> QED
      BY <1>1, <2>1, <3>1
  <2>3. CASE Called(c)
    <3>1. \A d \in Consumer : consumer'[d].job = consumer[d].job \/ consumer[d].job \in called'
      BY <1>0, <2>3 DEF Called
    <3> QED
      BY <1>1, <2>1, <3>1
  <2> QED
    BY <1>7, <2>2, <2>3
<1>8. CASE Stop
  <2>1. ~accepting' /\ UNCHANGED <<records, kafkaOnly, claimed>>
    BY <1>8 DEF Stop, calls
  <2> QED
    BY <1>0, <2>1 DEF ClaimInv, ClaimedIsCalledBack
<1>9. CASE NewProcess
  BY <1>9 DEF NewProcess, ClaimInv, ClaimedIsCalledBack
<1>10. ASSUME Read \/ \E j \in Job : TtlPasses(j) \/ FinishInterrupted(j) PROVE ClaimInv'
  <2>1. /\ records' \subseteq records /\ kafkaOnly' \subseteq kafkaOnly /\ called \subseteq called'
        /\ UNCHANGED <<claimed, status, accepting, consumer>>
    BY <1>10 DEF Read, Prune, TtlPasses, FinishInterrupted, memory, calls, life
  <2> QED
    BY <1>1, <2>1
<1>11. CASE UNCHANGED vars
  BY <1>1, <1>11 DEF vars, memory, calls, life
<1> QED
  BY <1>3, <1>4, <1>5, <1>6, <1>7, <1>8, <1>9, <1>10, <1>11 DEF Next, Consume

LEMMA StopKept == IInv /\ [Next]_vars => StopInv'
<1> SUFFICES ASSUME IInv, [Next]_vars, ~accepting'
             PROVE  /\ queue' = <<>> /\ lock' = None
                    /\ \A c \in Consumer : consumer'[c].at = "idle"
                    /\ \A s \in Caller : caller'[s].at = "out"
                    /\ \A p \in Task : ~owned'[p]
  BY DEF StopInv, At
<1>0. Out.at = "out" /\ Idle.at = "idle" /\ Task \subseteq Caller
  BY DEF Out, Idle, Caller
<1>1. CASE Stop
  <2>1. lock = None
    BY <1>1 DEF Stop, IInv, TypeInv, LockInv
  <2> QED
    BY <1>0, <1>1, <2>1 DEF Stop, calls, kafka
<1>2. CASE ~accepting /\ ~Stop
  <2>1. /\ queue = <<>> /\ lock = None /\ \A c \in Consumer : consumer[c].at = "idle"
        /\ \A s \in Caller : caller[s].at = "out"
        /\ \A p \in Task : ~owned[p]
    BY <1>2 DEF IInv, StopInv, At
  <2>2. ASSUME NEW s \in Caller, Submit(s) PROVE FALSE
    BY <1>2, <2>1, <2>2 DEF Submit, Hit, Ask, Calls, FromHistory, QueueFull, LookupFails, New, Answered
  <2>3. ASSUME NEW p \in Task, Worker(p) PROVE FALSE
    <3>1. caller[p].at = "out" /\ ~owned[p] /\ InHand(p)
      BY <1>0, <2>1 DEF IInv, WorkerInv
    <3>2. worker[p] = "none"
      BY <3>1 DEF InHand
    <3>3. ~Poll(p) /\ ~Commit(p) /\ ~CommitFails(p) /\ ~Revoke(p) /\ ~Assign(p)
      BY <1>2, <3>1, <3>2 DEF Poll, Group!Poll, Commit, Group!CommitOk, CommitFails, Group!CommitFails,
                              Revoke, Group!Revoked, Assign
    <3>4. ~Recheck(p) /\ ~SaveView(p) /\ ~WorkerFails(p) /\ ~Publish(p) /\ ~PublishFails(p)
      BY <3>1 DEF Recheck, SaveView, WorkerFails, Publish, PublishFails
    <3> QED
      BY <2>3, <3>3, <3>4 DEF Worker
  <2>4. ASSUME NEW c \in Consumer, Consume(c) PROVE FALSE
    BY <1>2, <2>1, <2>4 DEF Consume, Take, Finish, Saved, Called, At
  <2>5. ~NewProcess /\ ~Read
    BY <1>2 DEF NewProcess, Read
  <2>6. ASSUME NEW j \in Job, TtlPasses(j) \/ FinishInterrupted(j)
        PROVE  UNCHANGED <<queue, lock, consumer, caller, owned>>
    BY <2>6 DEF TtlPasses, FinishInterrupted, calls, kafka
  <2>7. UNCHANGED <<queue, lock, consumer, caller, owned>>
    <3>1. Next => \E j \in Job : TtlPasses(j) \/ FinishInterrupted(j)
      BY <1>2, <2>2, <2>3, <2>4, <2>5 DEF Next
    <3>2. CASE UNCHANGED vars
      BY <3>2 DEF vars, calls, kafka
    <3> QED
      BY <2>6, <3>1, <3>2
  <2> QED
    BY <2>1, <2>7
<1>3. accepting /\ ~Stop => UNCHANGED accepting \/ NewProcess
  BY DEF Next, vars, Submit, Hit, Ask, Calls, FromHistory, QueueFull, LookupFails, New, Answered,
         Worker, Poll, Recheck, SaveView, WorkerFails, Publish, PublishFails, Commit, CommitFails,
         Revoke, Assign, jobs, Consume, Take, Finish, Saved, Called, TtlPasses, FinishInterrupted,
         Read, life
<1>4. ~NewProcess
  BY DEF NewProcess
<1> QED
  BY <1>1, <1>2, <1>3, <1>4

-----------------------------------------------------------------------------
(* Room in the table.                                                      *)

\* Ended jobs have a first one.
LEMMA EndedHasOldest ==
  ASSUME TypeInv, Ended # {}
  PROVE  Oldest # {}
<1> DEFINE Times == {completedAt[j] : j \in Ended}
           Below == OpToRel(<, Nat)
<1>0. completedAt \in [Job -> Nat] /\ Ended \subseteq Job
  BY DEF TypeInv, Ended
<1>1. Times \subseteq Nat /\ Times # {}
  BY <1>0
<1>2. IsWellFoundedOn(Below, Nat)
  BY NatLessThanWellFounded
<1>3. \A x, y \in Nat : <<x, y>> \in Below <=> x < y
  BY DEF OpToRel
<1> HIDE DEF Times, Below
<1>4. PICK t \in Times : \A u \in Times : ~(<<u, t>> \in Below)
  BY <1>1, <1>2, WFMin
<1>5. \A u \in Times : t <= u
  <2> SUFFICES ASSUME NEW u \in Times PROVE t <= u
    OBVIOUS
  <2>1. t \in Nat /\ u \in Nat
    BY <1>1
  <2>2. ~(u < t)
    BY <1>3, <1>4, <2>1
  <2> QED
    BY <2>1, <2>2
<1>6. PICK j \in Ended : completedAt[j] = t
  BY DEF Times
<1>7. j \in Oldest
  BY <1>5, <1>6 DEF Times, Oldest
<1> QED
  BY <1>7

LiveJobs == {j \in records : Live(j)}

\* The queue and the consumers bound the jobs that have not ended.
LEMMA LiveBound ==
  ASSUME IInv
  PROVE  IsFiniteSet(LiveJobs) /\ Cardinality(LiveJobs) < MaxEntries
<1> DEFINE Queued == {queue[i] : i \in 1 .. Len(queue)}
           Running == {consumer[c].job : c \in Consumer}
<1>0. queue \in Seq(Job) /\ Len(queue) \in Nat /\ Len(queue) <= QueueMax /\ QueueMax \in Nat
  BY JobsAssumption DEF IInv, TypeInv, WorkInv
<1>1. LiveJobs \subseteq Queued \cup Running
  <2> SUFFICES ASSUME NEW j \in records, Live(j) PROVE j \in Queued \cup Running
    BY DEF LiveJobs
  <2>1. CASE status[j] = "QUEUED"
    <3>1. \E i \in DOMAIN queue : queue[i] = j
      BY <2>1 DEF IInv, WorkInv, NoJobIsLost
    <3> QED
      BY <1>0, <3>1
  <2>2. CASE status[j] = "PROCESSING"
    <3>1. PICK c \in Consumer : consumer[c] = [at |-> "running", job |-> j]
      BY <2>2 DEF IInv, WorkInv, NoJobIsLost
    <3>2. consumer[c].job = j
      BY <3>1
    <3> QED
      BY <3>2
  <2> QED
    BY <2>1, <2>2 DEF Live
<1>2. IsFiniteSet(Queued) /\ Cardinality(Queued) <= Len(queue)
  <2> DEFINE N == 1 .. Len(queue)
             f == [i \in N |-> queue[i]]
  <2>1. IsFiniteSet(N) /\ Cardinality(N) = Len(queue)
    <3>1. Len(queue) \in Int /\ Len(queue) >= 0
      BY <1>0
    <3> QED
      BY <3>1, FS_Interval
  <2>2. f \in Surjection(N, Queued)
    BY DEF Surjection
  <2> HIDE DEF f, N, Queued
  <2> QED
    BY <2>1, <2>2, FS_Surjection
<1>3. IsFiniteSet(Running) /\ Cardinality(Running) <= Cardinality(Consumer)
  <2> DEFINE g == [c \in Consumer |-> consumer[c].job]
  <2>1. g \in Surjection(Consumer, Running)
    BY DEF Surjection
  <2> HIDE DEF g, Running
  <2> QED
    BY <2>1, JobsAssumption, FS_Surjection
<1> HIDE DEF Queued, Running
<1>4. /\ IsFiniteSet(Queued \cup Running)
      /\ Cardinality(Queued \cup Running)
             = Cardinality(Queued) + Cardinality(Running) - Cardinality(Queued \cap Running)
  BY <1>2, <1>3, FS_Union
<1>5. IsFiniteSet(Queued \cap Running)
  BY <1>2, FS_Subset
<1>6. /\ Cardinality(Queued) \in Nat /\ Cardinality(Running) \in Nat /\ Cardinality(Consumer) \in Nat
      /\ Cardinality(Queued \cap Running) \in Nat
  BY <1>2, <1>3, <1>5, JobsAssumption, FS_CardinalityType
<1>7. IsFiniteSet(LiveJobs) /\ Cardinality(LiveJobs) <= Cardinality(Queued \cup Running)
  BY <1>1, <1>4, FS_Subset
<1>8. Cardinality(LiveJobs) \in Nat
  BY <1>7, FS_CardinalityType
<1> QED
  BY <1>0, <1>2, <1>3, <1>4, <1>6, <1>7, <1>8, RoomAssumption

\* _prune() leaves room for one more.
LEMMA PruneMakesRoom ==
  ASSUME IInv
  PROVE  /\ IsFiniteSet(records) /\ Cardinality(records) \in Nat
         /\ Cardinality(records \ Dropped) < MaxEntries
<1> DEFINE Young == records \ aged
<1>0. /\ IsFiniteSet(records) /\ Cardinality(records) \in Nat
      /\ Cardinality(records) <= MaxEntries /\ MaxEntries \in Nat
  <2>1. IsFiniteSet(records)
    BY JobsAssumption, FS_Subset DEF IInv, TypeInv
  <2> QED
    BY <2>1, FS_CardinalityType, RoomAssumption DEF IInv, WorkInv, NoJobIsLost
<1>1. IsFiniteSet(Young) /\ Cardinality(Young) \in Nat
  BY <1>0, FS_Subset, FS_CardinalityType
<1>2. CASE Cardinality(Young) < MaxEntries
  <2>1. ~(Cardinality(Young) >= MaxEntries)
    BY <1>0, <1>1, <1>2
  <2>2. records \ Dropped = Young
    BY <2>1 DEF Dropped
  <2> QED
    BY <1>0, <1>2, <2>2
<1>3. CASE Cardinality(Young) >= MaxEntries
  <2>1. Ended # {}
    <3> SUFFICES ASSUME Ended = {} PROVE FALSE
      OBVIOUS
    <3>1. Young \subseteq LiveJobs
      <4> SUFFICES ASSUME NEW j \in records, j \notin aged PROVE Live(j)
        BY DEF LiveJobs
      <4>1. completedAt[j] = 0
        BY DEF Ended
      <4>2. status[j] \in {"none", "QUEUED", "PROCESSING"} \cup Final /\ status[j] # "none" /\ status[j] \notin Final
        BY <4>1 DEF IInv, TypeInv, TableInv, Created
      <4> QED
        BY <4>2 DEF Live
    <3>2. Cardinality(Young) <= Cardinality(LiveJobs) /\ Cardinality(LiveJobs) \in Nat
      BY <3>1, LiveBound, FS_Subset, FS_CardinalityType
    <3> QED
      BY <1>0, <1>1, <1>3, <3>2, LiveBound
  <2>2. Dropped = aged \cup Oldest
    BY <1>3 DEF Dropped
  <2>3. Oldest # {} /\ Oldest \subseteq records
    BY <2>1, EndedHasOldest DEF IInv, Oldest, Ended
  <2>4. records \ Dropped \subseteq records /\ records \ Dropped # records
    BY <2>2, <2>3
  <2>5. /\ IsFiniteSet(records \ Dropped)
        /\ Cardinality(records \ Dropped) <= Cardinality(records)
        /\ Cardinality(records \ Dropped) # Cardinality(records)
    BY <1>0, <2>4, FS_Subset
  <2>6. Cardinality(records \ Dropped) \in Nat
    BY <2>5, FS_CardinalityType
  <2> QED
    BY <1>0, <2>5, <2>6
<1> QED
  BY <1>0, <1>1, <1>2, <1>3

\* The table never outgrows its limit, and keeps the room made for a caller.
RoomPart ==
    /\ Cardinality(records) <= MaxEntries
    /\ \A s \in Caller : caller[s].at = "asked" => Cardinality(records) < MaxEntries

LEMMA RoomKept == IInv /\ [Next]_vars => RoomPart'
<1> SUFFICES ASSUME IInv, [Next]_vars PROVE RoomPart'
  OBVIOUS
<1>0. /\ IsFiniteSet(records) /\ Cardinality(records) \in Nat /\ MaxEntries \in Nat
      /\ RoomPart /\ caller \in [Caller -> Calling]
  BY PruneMakesRoom, RoomAssumption DEF IInv, WorkInv, NoJobIsLost, RoomPart, TypeInv
<1>1. ASSUME NEW s \in Caller, New(s) PROVE RoomPart'
  <2>1. records' = records \cup {NewId} /\ lock' = None /\ Cardinality(records) < MaxEntries
    BY <1>0, <1>1 DEF New, Answered, Full
  <2>2. Cardinality(records') <= Cardinality(records) + 1
    <3>1. Cardinality(records') = IF NewId \in records THEN Cardinality(records) ELSE Cardinality(records) + 1
      BY <1>0, <2>1, FS_AddElement
    <3> QED
      BY <1>0, <3>1
  <2>3. IsFiniteSet(records') /\ Cardinality(records') \in Nat
    BY <1>0, <2>1, FS_AddElement, FS_CardinalityType
  <2>4. \A t \in Caller : caller'[t].at # "asked"
    <3>1. LockInv'
      BY LockKept
    <3> QED
      BY <2>1, <3>1, JobsAssumption DEF LockInv, Caller
  <2>5. Cardinality(records') <= MaxEntries
    BY <1>0, <2>1, <2>2, <2>3
  <2> QED
    BY <2>4, <2>5 DEF RoomPart
<1>2. ASSUME NEW s \in Caller, Ask(s) PROVE RoomPart'
  <2>1. Cardinality(records') < MaxEntries
    BY <1>2, PruneMakesRoom DEF Ask, Calls, Prune
  <2>2. IsFiniteSet(records')
    BY <1>0, <1>2, FS_Subset DEF Ask, Calls, Prune
  <2>3. Cardinality(records') <= MaxEntries
    BY <1>0, <2>1, <2>2, FS_CardinalityType
  <2> QED
    BY <2>1, <2>3 DEF RoomPart
<1>3. ASSUME records' \subseteq records, \A s \in Caller : caller'[s].at = "asked" => caller[s].at = "asked"
      PROVE  RoomPart'
  <2>1. Cardinality(records') <= Cardinality(records) /\ Cardinality(records') \in Nat
    BY <1>0, <1>3, FS_Subset, FS_CardinalityType
  <2> QED
    BY <1>0, <1>3, <2>1 DEF RoomPart
<1>4. (\A s \in Caller : ~New(s)) => records' \subseteq records
  BY DEF Next, vars, memory, Submit, Hit, Ask, Calls, FromHistory, QueueFull, LookupFails, Prune,
         Worker, Poll, Recheck, SaveView, WorkerFails, Publish, PublishFails, Commit, CommitFails,
         Revoke, Assign, jobs, Consume, Take, Finish, Saved, Called, TtlPasses, FinishInterrupted,
         Read, Stop, NewProcess
<1>5. \/ \E s \in Caller : Ask(s)
      \/ \A s \in Caller : caller'[s].at = "asked" => caller[s].at = "asked"
  <2>1. NewProcess => \A s \in Caller : caller'[s].at # "asked"
    BY DEF NewProcess, Out
  <2> QED
    BY <2>1, LockSteps
<1> QED
  BY <1>1, <1>2, <1>3, <1>4, <1>5

-----------------------------------------------------------------------------
(* The work.                                                               *)

QueuePart ==
    /\ \A i, k \in DOMAIN queue : queue[i] \in records /\ (queue[i] = queue[k] => i = k)
    /\ Len(queue) <= QueueMax

InQueue(j) == \E i \in DOMAIN queue : queue[i] = j
Runs(c, j) == At(c, "running") /\ consumer[c].job = j

JobPart ==
    \A j \in records :
        /\ status[j] = "QUEUED" <=> InQueue(j)
        /\ status[j] = "PROCESSING" <=> \E c \in Consumer : Runs(c, j)

ConsumerPart ==
    /\ \A c \in Consumer :
        /\ At(c, "idle") <=> consumer[c].job = None
        /\ At(c, "running") => consumer[c].job \in records
        /\ consumer[c].at \in {"saving", "calling"} => status[consumer[c].job] \in Final
    /\ \A c, d \in Consumer : At(c, "running") /\ At(d, "running") /\ consumer[c].job = consumer[d].job => c = d

RestPart == ~accepting => \A j \in records : ~Live(j)

WorkParts == QueuePart /\ JobPart /\ ConsumerPart /\ RestPart

LEMMA RunsHas ==
  ASSUME TypeInv, NEW c \in Consumer, NEW j
  PROVE  consumer[c] = [at |-> "running", job |-> j] <=> Runs(c, j)
BY DEF TypeInv, Doing, Runs, At

LEMMA WorkHasParts == TypeInv => (WorkInv <=> RoomPart /\ WorkParts)
<1> SUFFICES ASSUME TypeInv PROVE WorkInv <=> RoomPart /\ WorkParts
  OBVIOUS
<1>1. JobPart <=> \A j \in records :
                    /\ status[j] = "QUEUED" <=> \E i \in DOMAIN queue : queue[i] = j
                    /\ status[j] = "PROCESSING" <=>
                           \E c \in Consumer : consumer[c] = [at |-> "running", job |-> j]
  <2>1. \A j : (\E c \in Consumer : consumer[c] = [at |-> "running", job |-> j])
              <=> \E c \in Consumer : Runs(c, j)
    BY RunsHas
  <2> QED
    BY <2>1 DEF JobPart, InQueue
<1>2. (\A c, d \in Consumer : At(c, "running") /\ At(d, "running") /\ consumer[c].job = consumer[d].job => c = d)
      <=> \A c, d \in Consumer : consumer[c] = consumer[d] /\ At(c, "running") => c = d
  <2>1. ASSUME NEW c \in Consumer, NEW d \in Consumer
        PROVE  At(c, "running") /\ At(d, "running") /\ consumer[c].job = consumer[d].job
               <=> consumer[c] = consumer[d] /\ At(c, "running")
    <3>1. consumer[c] \in Doing /\ consumer[d] \in Doing
      BY DEF TypeInv
    <3>2. consumer[c] = consumer[d] <=> consumer[c].at = consumer[d].at /\ consumer[c].job = consumer[d].job
      BY <3>1 DEF Doing
    <3> QED
      BY <3>2 DEF At
  <2> QED
    BY <2>1
<1> QED
  BY <1>1, <1>2 DEF WorkInv, NoJobIsLost, RoomPart, WorkParts, QueuePart, ConsumerPart, RestPart

\* Queue and consumers stay, and only ended jobs are forgotten.
LEMMA WorkRests ==
  ASSUME IInv, UNCHANGED <<queue, consumer, accepting, status>>, records' \subseteq records,
         \A j \in records \ records' : status[j] \in Final
  PROVE  WorkParts'
<1>0. QueuePart /\ JobPart /\ ConsumerPart /\ RestPart
  BY WorkHasParts DEF IInv, WorkParts
<1>1. QueuePart'
  <2>1. \A i \in DOMAIN queue : queue[i] \in records'
    BY <1>0 DEF QueuePart, JobPart, InQueue, Final
  <2> QED
    BY <1>0, <2>1 DEF QueuePart
<1>2. JobPart'
  BY <1>0 DEF JobPart, InQueue, Runs, At
<1>3. ConsumerPart'
  <2>1. \A c \in Consumer : At(c, "running") => consumer[c].job \in records'
    BY <1>0 DEF ConsumerPart, JobPart, Runs, Final
  <2> QED
    BY <1>0, <2>1 DEF ConsumerPart, At
<1>4. RestPart'
  BY <1>0 DEF RestPart, Live
<1> QED
  BY <1>1, <1>2, <1>3, <1>4 DEF WorkParts

LEMMA NewKeepsWork ==
  ASSUME IInv, NEW s \in Caller, New(s)
  PROVE  WorkParts'
<1>n. PICK n : n = NewId
  OBVIOUS
<1>0. /\ QueuePart /\ JobPart /\ ConsumerPart
      /\ queue \in Seq(Job) /\ status \in [Job -> {"none", "QUEUED", "PROCESSING"} \cup Final]
      /\ records \subseteq Job /\ consumer \in [Consumer -> Doing] /\ None \notin Job
  BY WorkHasParts, JobsAssumption DEF IInv, WorkParts, TypeInv
<1>1. n \in Job /\ status[n] = "none" /\ n \notin records
  BY <1>n DEF New, NewId, FreshJobs, IInv, TableInv, Created
<1>2. /\ status' = [status EXCEPT ![n] = "QUEUED"] /\ records' = records \cup {n}
      /\ queue' = Append(queue, n) /\ Len(queue) < QueueMax
      /\ UNCHANGED <<consumer, accepting>>
  <2>1. Len(queue) \in Nat /\ QueueMax \in Nat
    BY <1>0, JobsAssumption
  <2> QED
    BY <1>n, <2>1 DEF New, Answered, Full, life
<1>3. /\ DOMAIN queue = 1 .. Len(queue) /\ DOMAIN queue' = 1 .. (Len(queue) + 1)
      /\ \A i \in 1 .. Len(queue) : queue'[i] = queue[i]
      /\ queue'[Len(queue) + 1] = n /\ Len(queue') = Len(queue) + 1 /\ Len(queue) \in Nat
  BY <1>0, <1>1, <1>2
<1>4. \A i \in 1 .. Len(queue) : queue[i] \in records /\ queue[i] # n
  BY <1>0, <1>1, <1>3 DEF QueuePart
<1>5. QueuePart'
  <2>1. \A i \in DOMAIN queue' : i \in 1 .. Len(queue) \/ i = Len(queue) + 1
    BY <1>3
  <2>2. \A i \in DOMAIN queue' : queue'[i] \in records'
    BY <1>2, <1>3, <1>4, <2>1
  <2>3. \A i, k \in DOMAIN queue' : queue'[i] = queue'[k] => i = k
    BY <1>0, <1>3, <1>4, <2>1 DEF QueuePart
  <2>4. Len(queue') <= QueueMax
    BY <1>2, <1>3, JobsAssumption
  <2> QED
    BY <2>2, <2>3, <2>4 DEF QueuePart
<1>6. JobPart'
  <2>1. InQueue(n)' /\ \A c \in Consumer : ~Runs(c, n)'
    <3>1. InQueue(n)'
      <4>1. Len(queue) + 1 \in DOMAIN queue' /\ queue'[Len(queue) + 1] = n
        BY <1>3
      <4> QED
        BY <4>1 DEF InQueue
    <3>2. \A c \in Consumer : ~Runs(c, n)
      BY <1>0, <1>1 DEF ConsumerPart, Runs
    <3> QED
      BY <1>2, <3>1, <3>2 DEF Runs, At
  <2>2. ASSUME NEW j \in records PROVE InQueue(j)' <=> InQueue(j)
    BY <1>1, <1>3, <2>2 DEF InQueue
  <2>3. \A j \in records : status'[j] = status[j] /\ \A c \in Consumer : Runs(c, j)' <=> Runs(c, j)
    BY <1>0, <1>1, <1>2 DEF Runs, At
  <2>4. status'[n] = "QUEUED"
    BY <1>0, <1>1, <1>2
  <2> QED
    BY <1>0, <1>2, <2>1, <2>2, <2>3, <2>4 DEF JobPart
<1>7. ConsumerPart'
  <2>1. \A c \in Consumer : consumer[c].at \in {"saving", "calling"} => status'[consumer[c].job] \in Final
    <3>1. \A c \in Consumer : consumer[c].at \in {"saving", "calling"} => consumer[c].job \in Job
      BY <1>0, DoingHas DEF ConsumerPart, At
    <3> QED
      BY <1>0, <1>1, <1>2, <3>1 DEF ConsumerPart, Final
  <2> QED
    BY <1>0, <1>2, <2>1 DEF ConsumerPart, At
<1>8. RestPart'
  <2>1. accepting
    BY DEF New, Answered, IInv, StopInv
  <2> QED
    BY <1>2, <2>1 DEF RestPart
<1> QED
  BY <1>5, <1>6, <1>7, <1>8 DEF WorkParts

LEMMA TakeKeepsWork ==
  ASSUME IInv, NEW c \in Consumer, Take(c)
  PROVE  WorkParts'
<1>q. PICK q : q = Head(queue)
  OBVIOUS
<1>0. /\ QueuePart /\ JobPart /\ ConsumerPart
      /\ queue \in Seq(Job) /\ status \in [Job -> {"none", "QUEUED", "PROCESSING"} \cup Final]
      /\ records \subseteq Job /\ consumer \in [Consumer -> Doing] /\ None \notin Job
  BY WorkHasParts, JobsAssumption DEF IInv, WorkParts, TypeInv
<1>1. /\ queue # <<>> /\ queue' = Tail(queue) /\ status' = [status EXCEPT ![q] = "PROCESSING"]
      /\ consumer' = [consumer EXCEPT ![c] = [at |-> "running", job |-> q]]
      /\ consumer[c].at = "idle" /\ UNCHANGED <<records, accepting>> /\ accepting
  BY <1>q DEF Take, At, memory, life
<1>2. q \in records /\ status[q] = "QUEUED" /\ q # None
  BY <1>0, <1>1, <1>q, QueuedIsLive
<1>3. /\ DOMAIN queue = 1 .. Len(queue) /\ Len(queue) \in Nat \ {0} /\ queue[1] = q
      /\ DOMAIN queue' = 1 .. (Len(queue) - 1) /\ Len(queue') = Len(queue) - 1
      /\ \A i \in 1 .. (Len(queue) - 1) : queue'[i] = queue[i + 1]
  BY <1>0, <1>1, <1>q
<1>4. \A i \in DOMAIN queue' : i + 1 \in DOMAIN queue /\ queue'[i] = queue[i + 1] /\ queue'[i] # q
  BY <1>0, <1>3 DEF QueuePart
<1>5. \A i \in DOMAIN queue : i = 1 \/ (i - 1 \in DOMAIN queue' /\ queue'[i - 1] = queue[i])
  BY <1>3
<1>6. QueuePart'
  <2>1. \A i \in DOMAIN queue' : queue'[i] \in records'
    BY <1>0, <1>1, <1>4 DEF QueuePart
  <2>2. \A i, k \in DOMAIN queue' : queue'[i] = queue'[k] => i = k
    <3> SUFFICES ASSUME NEW i \in DOMAIN queue', NEW k \in DOMAIN queue', queue'[i] = queue'[k]
                 PROVE  i = k
      OBVIOUS
    <3>1. i + 1 = k + 1
      BY <1>0, <1>4 DEF QueuePart
    <3> QED
      BY <1>3, <3>1
  <2>3. Len(queue') <= QueueMax
    BY <1>0, <1>3, JobsAssumption DEF QueuePart
  <2> QED
    BY <2>1, <2>2, <2>3 DEF QueuePart
<1>7. /\ Runs(c, q)' /\ \A j : j # q => ~Runs(c, j)'
      /\ \A d \in Consumer : d # c => consumer'[d] = consumer[d]
      /\ \A j : ~Runs(c, j)
  <2>1. consumer'[c].at = "running" /\ consumer'[c].job = q
    BY <1>0, <1>1
  <2> QED
    BY <1>0, <1>1, <2>1 DEF Runs, At
<1>8. JobPart'
  <2>1. ~InQueue(q)'
    BY <1>4 DEF InQueue
  <2>2. ASSUME NEW j \in records, j # q PROVE InQueue(j)' <=> InQueue(j)
    <3>1. InQueue(j)' => InQueue(j)
      BY <1>4 DEF InQueue
    <3>2. InQueue(j) => InQueue(j)'
      <4> SUFFICES ASSUME NEW i \in DOMAIN queue, queue[i] = j PROVE InQueue(j)'
        BY DEF InQueue
      <4>1. i - 1 \in DOMAIN queue' /\ queue'[i - 1] = j
        BY <1>3, <1>5, <2>2
      <4> QED
        BY <4>1 DEF InQueue
    <3> QED
      BY <3>1, <3>2
  <2>3. ASSUME NEW j \in records, j # q, NEW d \in Consumer PROVE Runs(d, j)' <=> Runs(d, j)
    BY <1>7, <2>3 DEF Runs, At
  <2>4. status'[q] = "PROCESSING" /\ \A j \in records : j # q => status'[j] = status[j]
    BY <1>0, <1>1, <1>2
  <2> QED
    BY <1>0, <1>1, <1>7, <2>1, <2>2, <2>3, <2>4 DEF JobPart
<1>9. ConsumerPart'
  <2>1. ASSUME NEW d \in Consumer
        PROVE  /\ At(d, "idle")' <=> consumer'[d].job = None
               /\ At(d, "running")' => consumer'[d].job \in records'
               /\ consumer'[d].at \in {"saving", "calling"} => status'[consumer'[d].job] \in Final
    <3>1. CASE d = c
      BY <1>1, <1>2, <1>7, <3>1 DEF Runs, At
    <3>2. CASE d # c
      <4>1. consumer[d].at \in {"saving", "calling"} => consumer[d].job \in Job /\ status[consumer[d].job] \in Final
        BY <1>0, DoingHas DEF ConsumerPart, At
      <4>2. consumer[d].at \in {"saving", "calling"} => status'[consumer[d].job] \in Final
        BY <1>0, <1>1, <1>2, <4>1 DEF Final
      <4> QED
        BY <1>0, <1>1, <1>7, <3>2, <4>2 DEF ConsumerPart, At
    <3> QED
      BY <3>1, <3>2
  <2>2. ASSUME NEW d \in Consumer, d # c, At(d, "running")' PROVE consumer'[d].job # q
    <3>1. consumer'[d] = consumer[d] /\ At(d, "running")
      BY <1>7, <2>2 DEF At
    <3> QED
      BY <1>0, <1>2, <3>1 DEF JobPart, Runs
  <2>3. ASSUME NEW d \in Consumer, NEW e \in Consumer, At(d, "running")', At(e, "running")',
               consumer'[d].job = consumer'[e].job
        PROVE  d = e
    BY <1>0, <1>7, <2>2, <2>3 DEF ConsumerPart, Runs, At
  <2> QED
    BY <2>1, <2>3 DEF ConsumerPart
<1> QED
  BY <1>1, <1>6, <1>8, <1>9 DEF WorkParts, RestPart

\* A consumer leaves its job, or moves on with an ended one.
LEMMA ReturnKeepsWork ==
  ASSUME IInv, NEW c \in Consumer, (\E k \in Final : Finish(c, k)) \/ Saved(c) \/ Called(c)
  PROVE  WorkParts'
<1>j. PICK j : j = consumer[c].job
  OBVIOUS
<1>0. /\ QueuePart /\ JobPart /\ ConsumerPart /\ RestPart
      /\ status \in [Job -> {"none", "QUEUED", "PROCESSING"} \cup Final]
      /\ records \subseteq Job /\ consumer \in [Consumer -> Doing] /\ None \notin Job
  BY WorkHasParts, JobsAssumption DEF IInv, WorkParts, TypeInv
<1>1. consumer[c].at # "idle" /\ j \in Job
  BY <1>j, <1>0, DoingHas DEF Finish, Saved, Called, At, ConsumerPart
<1>2. /\ UNCHANGED <<queue, records, accepting>> /\ accepting
      /\ \A d \in Consumer : d # c => consumer'[d] = consumer[d]
      /\ consumer'[c] = Idle \/ (consumer'[c].at \in {"saving", "calling"} /\ consumer'[c].job = j)
  <2>1. UNCHANGED <<queue, records, accepting>>
    BY DEF Finish, Saved, Called, memory, life
  <2>2. accepting
    BY <1>1 DEF IInv, StopInv, At
  <2>3. ASSUME NEW e \in {Idle, [at |-> "saving", job |-> j], [at |-> "calling", job |-> j]},
               consumer' = [consumer EXCEPT ![c] = e]
        PROVE  /\ \A d \in Consumer : d # c => consumer'[d] = consumer[d]
               /\ consumer'[c] = Idle \/ (consumer'[c].at \in {"saving", "calling"} /\ consumer'[c].job = j)
    BY <1>0, <2>3
  <2>4. CASE \E k \in Final : Finish(c, k)
    BY <1>j, <2>1, <2>2, <2>3, <2>4 DEF Finish
  <2>5. CASE Called(c)
    BY <2>1, <2>2, <2>3, <2>5 DEF Called
  <2>6. CASE Saved(c)
    <3>1. consumer' = [consumer EXCEPT ![c] = [consumer[c] EXCEPT !.at = "calling"]]
      BY <1>0, <2>6 DEF Saved
    <3>2. [consumer[c] EXCEPT !.at = "calling"] = [at |-> "calling", job |-> j]
      BY <1>j, <1>0, DoingHas
    <3> QED
      BY <2>1, <2>2, <2>3, <3>1, <3>2
  <2> QED
    BY <2>4, <2>5, <2>6
<1>3. /\ status'[j] \in Final /\ \A i \in Job : i # j => status'[i] = status[i]
      /\ At(c, "running") \/ status' = status
  <2>1. CASE \E k \in Final : Finish(c, k)
    BY <1>0, <1>1, <1>j, <2>1 DEF Finish
  <2>2. CASE Saved(c) \/ Called(c)
    BY <1>0, <1>j, <2>2 DEF Saved, Called, At, ConsumerPart
  <2> QED
    BY <2>1, <2>2
<1>4. /\ \A i : ~Runs(c, i)'
      /\ \A d \in Consumer : \A i : d # c => (Runs(d, i)' <=> Runs(d, i))
      /\ \A i : Runs(c, i) => i = j
  BY <1>2, <1>j DEF Runs, At, Idle
<1>5. QueuePart'
  BY <1>0, <1>2 DEF QueuePart
<1>6. JobPart'
  <2>1. j \in records => ~InQueue(j)' /\ \A d \in Consumer : ~Runs(d, j)'
    <3>1. j \in records => ~InQueue(j)
      <4>1. CASE At(c, "running")
        BY <1>0, <1>j, <4>1 DEF JobPart, Runs
      <4>2. CASE ~At(c, "running")
        BY <1>0, <1>3, <4>2 DEF JobPart, Final
      <4> QED
        BY <4>1, <4>2
    <3>2. ASSUME NEW d \in Consumer, d # c, Runs(d, j), j \in records PROVE FALSE
      <4>1. status[j] = "PROCESSING"
        BY <1>0, <3>2 DEF JobPart
      <4>2. At(c, "running")
        BY <1>3, <4>1 DEF Final
      <4> QED
        BY <1>0, <1>j, <3>2, <4>2 DEF ConsumerPart, Runs
    <3> QED
      BY <1>2, <1>4, <3>1, <3>2 DEF InQueue
  <2>2. ASSUME NEW i \in records, i # j PROVE (\E d \in Consumer : Runs(d, i)') <=> \E d \in Consumer : Runs(d, i)
    BY <1>4, <2>2
  <2>3. \A i \in records : InQueue(i)' <=> InQueue(i)
    BY <1>2 DEF InQueue
  <2> QED
    BY <1>0, <1>2, <1>3, <2>1, <2>2, <2>3 DEF JobPart, Final
<1>7. ConsumerPart'
  <2>1. ASSUME NEW d \in Consumer
        PROVE  /\ At(d, "idle")' <=> consumer'[d].job = None
               /\ At(d, "running")' => consumer'[d].job \in records'
               /\ consumer'[d].at \in {"saving", "calling"} => status'[consumer'[d].job] \in Final
    <3>1. CASE d = c
      BY <1>0, <1>1, <1>2, <1>3, <3>1 DEF At, Idle
    <3>2. CASE d # c
      <4>1. consumer[d].at \in {"saving", "calling"} => consumer[d].job \in Job /\ status[consumer[d].job] \in Final
        BY <1>0, DoingHas DEF ConsumerPart, At
      <4>2. consumer[d].at \in {"saving", "calling"} => status'[consumer[d].job] \in Final
        BY <1>3, <4>1
      <4> QED
        BY <1>0, <1>2, <3>2, <4>2 DEF ConsumerPart, At
    <3> QED
      BY <3>1, <3>2
  <2>2. ASSUME NEW d \in Consumer, NEW e \in Consumer, At(d, "running")', At(e, "running")',
               consumer'[d].job = consumer'[e].job
        PROVE  d = e
    BY <1>0, <1>2, <1>4, <2>2 DEF ConsumerPart, Runs, At
  <2> QED
    BY <2>1, <2>2 DEF ConsumerPart
<1> QED
  BY <1>2, <1>5, <1>6, <1>7 DEF WorkParts, RestPart

LEMMA StopKeepsParts ==
  ASSUME IInv, Stop \/ NewProcess
  PROVE  WorkParts'
<1>0. status \in [Job -> {"none", "QUEUED", "PROCESSING"} \cup Final] /\ records \subseteq Job
  BY DEF IInv, TypeInv
<1>1. queue' = <<>> /\ consumer' = [c \in Consumer |-> Idle] /\ (NewProcess => records' = {} /\ accepting')
  BY DEF Stop, NewProcess
<1>2. \A j \in records' : status'[j] \notin {"QUEUED", "PROCESSING"}
  <2>1. CASE Stop
    <3>1. \A j \in records : status'[j] = IF j \in {i \in records : Live(i)} THEN "FAILED" ELSE status[j]
      BY <1>0, <2>1 DEF Stop
    <3>2. records' = records
      BY <2>1 DEF Stop
    <3> QED
      BY <3>1, <3>2 DEF Live
  <2> QED
    BY <1>1, <2>1
<1>3. QueuePart'
  BY <1>1, JobsAssumption DEF QueuePart
<1>4. JobPart'
  BY <1>1, <1>2 DEF JobPart, InQueue, Runs, At, Idle
<1>5. ConsumerPart'
  BY <1>1 DEF ConsumerPart, At, Idle
<1>6. RestPart'
  BY <1>2 DEF RestPart, Live
<1> QED
  BY <1>3, <1>4, <1>5, <1>6 DEF WorkParts

LEMMA WorkKept == IInv /\ [Next]_vars => WorkInv'
<1>0. TypeInv' => (WorkInv' <=> RoomPart' /\ WorkParts')
  BY WorkHasParts, PTL
<1> SUFFICES ASSUME IInv, [Next]_vars PROVE WorkParts'
  BY <1>0, TypeKept, RoomKept
<1>1. ASSUME NEW s \in Caller, Submit(s), ~New(s) PROVE WorkParts'
  <2>1. /\ UNCHANGED <<queue, consumer, accepting, status>>
        /\ UNCHANGED records \/ records' = records \ Dropped
    BY <1>1 DEF Submit, Hit, Ask, Calls, FromHistory, QueueFull, LookupFails, Answered, Prune, memory, life
  <2> QED
    BY <2>1, DroppedHaveEnded, WorkRests
<1>2. ASSUME NEW p \in Task, Worker(p) PROVE WorkParts'
  <2>1. UNCHANGED <<queue, consumer, accepting, status, records>>
    BY <1>2 DEF Worker, Poll, Recheck, SaveView, WorkerFails, Publish, PublishFails, Commit, CommitFails,
                Revoke, Assign, jobs, memory, life
  <2> QED
    BY <2>1, WorkRests
<1>3. CASE Read
  <2>1. UNCHANGED <<queue, consumer, accepting, status>> /\ records' = records \ Dropped
    BY <1>3 DEF Read, Prune, life
  <2> QED
    BY <2>1, DroppedHaveEnded, WorkRests
<1>4. ASSUME NEW j \in Job, TtlPasses(j) \/ FinishInterrupted(j) PROVE WorkParts'
  <2>1. UNCHANGED <<queue, consumer, accepting, status, records>>
    BY <1>4 DEF TtlPasses, FinishInterrupted, memory, life
  <2> QED
    BY <2>1, WorkRests
<1>5. CASE UNCHANGED vars
  <2>1. UNCHANGED <<queue, consumer, accepting, status, records>>
    BY <1>5 DEF vars, memory, life
  <2> QED
    BY <2>1, WorkRests
<1> QED
  BY <1>1, <1>2, <1>3, <1>4, <1>5, NewKeepsWork, TakeKeepsWork, ReturnKeepsWork, StopKeepsParts
     DEF Next, Consume

-----------------------------------------------------------------------------
(* Theorems.                                                               *)

LEMMA NextKeepsInv == IInv /\ [Next]_vars => IInv'
BY TypeKept, JobKept, TableKept, TimeKept, LockKept, WorkKept, ClaimKept, StopKept, WorkerKept, EventKept
   DEF IInv

\* The invariant holds in every state of every behaviour.
THEOREM JobsInvariant == Spec => []IInv
<1>1. Init => IInv
  BY InitHolds
<1>2. IInv /\ [Next]_vars => IInv'
  BY NextKeepsInv
<1> QED
  BY <1>1, <1>2, PTL DEF Spec

\* Two submissions that meet at the await of the history never start one
\* request twice, whatever the callers do.
THEOREM OneJobHolds == Spec => []OneJobPerRequest
<1>1. IInv => OneJobPerRequest
  BY DEF IInv, TableInv
<1> QED
  BY <1>1, JobsInvariant, PTL

\* Queue, consumers and table agree on what is under way, the table has room
\* for who comes back from the history, and stop() leaves nothing open.
THEOREM NoJobLostHolds == Spec => []NoJobIsLost
<1>1. IInv => NoJobIsLost
  BY DEF IInv, WorkInv
<1> QED
  BY <1>1, JobsInvariant, PTL

\* A job accepted over HTTP is called back, also when Kafka asked first.
THEOREM ClaimedCalledBackHolds == Spec => []ClaimedIsCalledBack
<1>1. IInv => ClaimedIsCalledBack
  BY DEF IInv, ClaimInv
<1> QED
  BY <1>1, JobsInvariant, PTL

\* A committed record has its row in the history and its event in the topic.
THEOREM CommittedSavedHolds == Spec => []CommittedIsSaved
<1>1. IInv => CommittedIsSaved
  BY DEF IInv, EventInv
<1> QED
  BY <1>1, JobsInvariant, PTL

\* An event is the end of a job for the very body of its record.
THEOREM PublishedRightHolds == Spec => []PublishedIsRight
<1>1. IInv => PublishedIsRight
  BY DEF IInv, EventInv
<1> QED
  BY <1>1, JobsInvariant, PTL

\* A step settles one outcome, announces one, or does neither.
LEMMA StepImplements == IInv /\ [Next]_vars => [Outcome!ONext]_(Outcome!ovars)
<1> SUFFICES ASSUME IInv, [Next]_vars PROVE [Outcome!ONext]_(Outcome!ovars)
  OBVIOUS
<1> DEFINE Said(E) == {<<IdOf[log[e[1]][e[2]]], e[3]>> : e \in E}
<1>1. CASE UNCHANGED <<history, events>>
  <2>1. Said(events') = Said(events)
    BY <1>1
  <2> QED
    BY <1>1, <2>1 DEF Outcome!ovars
<1>2. ASSUME NEW j \in Created, Insert(j), UNCHANGED <<request, events>>
      PROVE  [Outcome!ONext]_(Outcome!ovars)
  <2>1. request[j] \in Request /\ IdOf[request[j]] \in RequestId /\ j \in Job
    BY <1>2, JobsAssumption DEF IInv, JobInv, Created
  <2>2. PICK r \in RequestId : r = IdOf[request[j]]
    BY <2>1
  <2>3. history' = [history EXCEPT ![r] = IF history[r] = None THEN j ELSE history[r]]
    BY <1>2, <2>2 DEF Insert
  <2>4. history \in [RequestId -> Job \cup {None}]
    BY DEF IInv, TypeInv
  <2>5. Said(events') = Said(events)
    BY <1>2
  <2>6. CASE history[r] = None
    <3>1. history' = [history EXCEPT ![r] = j]
      BY <2>3, <2>6
    <3>2. Outcome!Settle(r, j)
      BY <2>5, <2>6, <3>1 DEF Outcome!Settle
    <3> QED
      BY <2>1, <3>2 DEF Outcome!ONext
  <2>7. CASE history[r] # None
    <3>1. history' = history
      BY <2>3, <2>4, <2>7
    <3> QED
      BY <2>5, <3>1 DEF Outcome!ovars
  <2> QED
    BY <2>6, <2>7
<1>3. ASSUME NEW p \in Task, caller[p].at = "publishing", events' = events \cup {Event(p)}, UNCHANGED history
      PROVE  [Outcome!ONext]_(Outcome!ovars)
  <2>1. /\ fetched[p] \in DOMAIN log[p] /\ caller[p].job \in Job /\ history[IdOf[Record(p)]] = caller[p].job
    BY <1>3 DEF IInv, WorkerInv, InHand, Row, Created
  <2>2. Record(p) \in Request /\ IdOf[Record(p)] \in RequestId
    BY <2>1, JobsAssumption DEF Record
  <2>3. PICK r \in RequestId, d \in Job : r = IdOf[Record(p)] /\ d = caller[p].job
    BY <2>1, <2>2
  <2>4. Said(events') = Said(events) \cup {<<r, d>>}
    <3>1. Event(p)[1] = p /\ Event(p)[2] = fetched[p] /\ Event(p)[3] = d
      BY <2>3 DEF Event
    <3>2. <<IdOf[log[Event(p)[1]][Event(p)[2]]], Event(p)[3]>> = <<r, d>>
      BY <2>3, <3>1 DEF Record
    <3>3. Said(events \cup {Event(p)}) = Said(events) \cup {<<IdOf[log[Event(p)[1]][Event(p)[2]]], Event(p)[3]>>}
      OBVIOUS
    <3> QED
      BY <1>3, <3>2, <3>3
  <2>5. history[r] = d /\ d # None
    BY <2>1, <2>3, JobsAssumption
  <2>6. Outcome!Announce(r)
    BY <1>3, <2>4, <2>5 DEF Outcome!Announce
  <2> QED
    BY <2>6 DEF Outcome!ONext
<1>4. CASE UNCHANGED history
  BY <1>1, <1>3, <1>4, EventSteps
<1>5. CASE ~UNCHANGED history
  BY <1>2, <1>5, HistorySteps
<1> QED
  BY <1>4, <1>5

\* One outcome for good: the same request, redelivered, retried or asked again
\* after a restart, is published with the job the history keeps for it.
THEOREM JobsImplementOutcome == Spec => ImplementsOutcome
<1>1. Init => Outcome!OInit
  BY DEF Init, Outcome!OInit
<1>2. IInv /\ [Next]_vars => [Outcome!ONext]_(Outcome!ovars)
  BY StepImplements
<1> QED
  BY <1>1, <1>2, JobsInvariant, PTL DEF Spec, ImplementsOutcome, Outcome!OSpec
=============================================================================
