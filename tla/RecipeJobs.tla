------------------------------ MODULE RecipeJobs ------------------------------
(***************************************************************************)
(* RecipeJobs (fastapi/app/recipes/jobs.py) with its history               *)
(* (job_repository.py), its callback (job_callback.py) and its Kafka       *)
(* boundary (adapters/recommendation_kafka.py).                            *)
(*                                                                         *)
(* HTTP clients and the workers of the request topic submit to one table   *)
(* of jobs; consumers run them; a result reaches the history through       *)
(* _finish() or, for a job only Kafka asked for, through the worker that   *)
(* waits for it.  Everything between two awaits is one step.               *)
(***************************************************************************)
EXTENDS Integers, Sequences, FiniteSets

CONSTANTS
    Job,            \* job ids, drawn fresh for every new job
    RequestId,
    Request,        \* request bodies; the digest of a body is the body
    IdOf,           \* the requestId of a request
    Consumer,       \* recipe_consumer_count consumer tasks
    Client,         \* HTTP clients
    Body,           \* what each of them sends, and sends again
    Task,           \* partitions of the request topic
    log,            \* their records
    QueueMax,       \* recipe_queue_maxsize
    MaxEntries,     \* recipe_result_max_entries
    MaxFaults,      \* faults of database, broker, group and process
    None

ASSUME JobsAssumption ==
    /\ IdOf \in [Request -> RequestId]
    /\ log \in [Task -> Seq(Request)] /\ Body \in [Client -> Request]
    /\ QueueMax \in Nat \ {0} /\ MaxFaults \in Nat
    /\ IsFiniteSet(Job) /\ IsFiniteSet(Consumer)
    /\ None \notin Job \cup Request \cup Client \cup Task
    /\ Client \cap Task = {}

\* config.py: at least 105 entries for at most 100 queued and 4 running jobs.
ASSUME RoomAssumption ==
    MaxEntries \in Nat /\ MaxEntries > QueueMax + Cardinality(Consumer)

Caller == Client \cup Task

VARIABLES
    status, request,    \* of every job ever created
    records,            \* the jobs in memory
    byRequest,          \* requestId -> job in memory
    completedAt,        \* when a job ended, counted from 1, or 0
    aged,               \* those that have outlived the TTL
    queue,
    consumer,           \* what each consumer is at, and the job
    kafkaOnly,          \* kafka_only_jobs
    lock,               \* who is inside submit()
    caller,             \* what each caller is at; its job or the row it read
    accepting,
    draining,           \* the interrupted jobs stop() still has to finish
    history,            \* requestId -> job, the table recommendation_results
    claimed,            \* jobs a client was given before they ended
    called              \* jobs whose callback was sent, or given up

VARIABLES
    owned, fetched, committed, worker,     \* see PartitionConsumer
    events,             \* completed topic: <<partition, offset, job>>
    faults

Group == INSTANCE PartitionConsumer WITH Partition <- Task

memory == <<records, byRequest, completedAt, aged>>
calls  == <<lock, caller, claimed>>
life   == <<accepting, draining>>
kafka  == <<owned, fetched, committed, worker, events>>
vars == <<status, request, memory, queue, consumer, kafkaOnly, calls, life,
          history, called, kafka, faults>>

Final == {"COMPLETED", "FAILED"}
Out == [at |-> "out", job |-> None]
Idle == [at |-> "idle", job |-> None]
Live(j) == status[j] \in {"QUEUED", "PROCESSING"}
Record(p) == log[p][fetched[p]]
Sent(s) == IF s \in Task THEN Record(s) ELSE Body[s]
Row(q) == history[IdOf[q]]
Fault == faults < MaxFaults /\ faults' = faults + 1

Init ==
    /\ status = [j \in Job |-> "none"] /\ request = [j \in Job |-> None]
    /\ records = {} /\ byRequest = [r \in RequestId |-> None]
    /\ completedAt = [j \in Job |-> 0] /\ aged = {}
    /\ queue = <<>> /\ consumer = [c \in Consumer |-> Idle] /\ kafkaOnly = {}
    /\ lock = None /\ caller = [s \in Caller |-> Out]
    /\ accepting = TRUE /\ draining = {}
    /\ history = [r \in RequestId |-> None]
    /\ claimed = {} /\ called = {}
    /\ Group!PInit
    /\ events = {} /\ faults = 0

-----------------------------------------------------------------------------
(* _prune(): all that outlived the TTL and, if the table is still full,    *)
(* the one that ended first.                                               *)

\* Faulty: entries that have not ended are considered as well.
AllEntries == records \ aged

Ended == {j \in records \ aged : completedAt[j] # 0}

Oldest == {j \in Ended : \A k \in Ended : completedAt[j] <= completedAt[k]}

Dropped == aged \cup IF Cardinality(records \ aged) >= MaxEntries THEN Oldest ELSE {}

KeptIndex == [r \in RequestId |-> IF byRequest[r] \in Dropped THEN None ELSE byRequest[r]]

Prune ==
    /\ records' = records \ Dropped
    /\ byRequest' = KeptIndex
    /\ aged' = {}
    /\ UNCHANGED completedAt

-----------------------------------------------------------------------------
(* submit()                                                                *)

\* Faulty: the requestId is enough.
SameRequestId(j, q) == IdOf[request[j]] = IdOf[q]

SameDigest(j, q) == request[j] = q

InMemory(q) == KeptIndex[IdOf[q]]

\* Faulty: a client's hit leaves the job to Kafka.
ToldKafkaOnly(s, j) ==
    IF s \in Client
    THEN /\ caller' = [caller EXCEPT ![s] = Out]
         /\ claimed' = IF Live(j) THEN claimed \cup {j} ELSE claimed
         /\ UNCHANGED kafkaOnly
    ELSE /\ caller' = [caller EXCEPT ![s] =
                [at |-> IF Live(j) THEN "waiting" ELSE "woken", job |-> j]]
         /\ UNCHANGED <<claimed, kafkaOnly>>

\* A job is told to the caller: a client leaves with it; a worker reads the
\* view, and waits if it is not complete.
Told(s, j) ==
    IF s \in Client
    THEN /\ caller' = [caller EXCEPT ![s] = Out]
         /\ claimed' = IF Live(j) THEN claimed \cup {j} ELSE claimed
         /\ kafkaOnly' = kafkaOnly \ {j}
    ELSE /\ caller' = [caller EXCEPT ![s] =
                [at |-> IF Live(j) THEN "waiting" ELSE "woken", job |-> j]]
         /\ UNCHANGED <<claimed, kafkaOnly>>

Refused(s) ==
    /\ caller' = [caller EXCEPT ![s] = Out]
    /\ UNCHANGED <<claimed, kafkaOnly>>

\* s calls submit().
Calls(s) ==
    /\ accepting /\ caller[s].at = "out"
    /\ s \in Task => worker[s] = "handling"
    /\ Prune
    /\ UNCHANGED <<status, request, queue, consumer, life, history, called, kafka, faults>>

\* The lock is free and the request is in memory: no await.
Hit(s) ==
    LET j == InMemory(Sent(s)) IN
    /\ Calls(s) /\ lock = None /\ j # None
    /\ IF SameDigest(j, Sent(s)) THEN Told(s, j) ELSE Refused(s)
    /\ UNCHANGED lock

\* Faulty: submit() without the lock.
AskUnlocked(s) ==
    /\ Calls(s) /\ InMemory(Sent(s)) = None
    /\ lock' = s
    /\ caller' = [caller EXCEPT ![s] = [at |-> "asked", job |-> Row(Sent(s))]]
    /\ UNCHANGED <<claimed, kafkaOnly>>

\* It is not: the history is asked, under the lock.
Ask(s) ==
    /\ Calls(s) /\ lock = None /\ InMemory(Sent(s)) = None
    /\ lock' = s
    /\ caller' = [caller EXCEPT ![s] = [at |-> "asked", job |-> Row(Sent(s))]]
    /\ UNCHANGED <<claimed, kafkaOnly>>

Answered(s) ==
    /\ caller[s].at = "asked"
    /\ lock' = None
    /\ UNCHANGED <<consumer, life, history, called, kafka>>

\* The history knows the request; a worker goes on to get(), which prunes and
\* reads the row again by its job id.
FromHistory(s) ==
    LET j == caller[s].job IN
    /\ Answered(s) /\ j # None
    /\ IF SameDigest(j, Sent(s)) THEN Told(s, j) ELSE Refused(s)
    /\ IF SameDigest(j, Sent(s)) /\ s \in Task THEN Prune ELSE UNCHANGED memory
    /\ UNCHANGED <<status, request, queue, faults>>

Full == Len(queue) >= QueueMax \/ Cardinality(records) >= MaxEntries

QueueFull(s) ==
    /\ Answered(s) /\ caller[s].job = None /\ Full
    /\ Refused(s)
    /\ UNCHANGED <<status, request, memory, queue, faults>>

\* Faulty: the lock stays taken.
LookupKeepsLock(s) ==
    /\ caller[s].at = "asked"
    /\ Refused(s) /\ Fault
    /\ UNCHANGED <<status, request, memory, queue, consumer, lock, life, history, called, kafka>>

LookupFails(s) ==
    /\ Answered(s) /\ Fault
    /\ Refused(s)
    /\ UNCHANGED <<status, request, memory, queue>>

\* uuid4(): an id no job ever had.  Ids are only compared for equality, so it
\* does not matter which.
FreshJobs == {j \in Job : status[j] = "none"}
NewId == CHOOSE j \in FreshJobs : TRUE

\* A new job.  Nothing is looked up again after the await.
New(s) ==
    LET j == NewId IN
    /\ Answered(s) /\ caller[s].job = None /\ ~Full
    /\ FreshJobs # {}
    /\ status' = [status EXCEPT ![j] = "QUEUED"]
    /\ request' = [request EXCEPT ![j] = Sent(s)]
    /\ records' = records \cup {j}
    /\ byRequest' = [byRequest EXCEPT ![IdOf[Sent(s)]] = j]
    /\ queue' = Append(queue, j)
    /\ IF s \in Task
       THEN /\ kafkaOnly' = kafkaOnly \cup {j}
            /\ caller' = [caller EXCEPT ![s] = [at |-> "waiting", job |-> j]]
            /\ UNCHANGED claimed
       ELSE /\ claimed' = claimed \cup {j}
            /\ caller' = [caller EXCEPT ![s] = Out]
            /\ UNCHANGED kafkaOnly
    /\ UNCHANGED <<completedAt, aged, faults>>

\* get(): prunes, and reads.
Read ==
    /\ accepting /\ Dropped # {}
    /\ Prune
    /\ UNCHANGED <<status, request, queue, consumer, kafkaOnly, calls, life, history,
                   called, kafka, faults>>

-----------------------------------------------------------------------------
(* _consume() and _finish()                                                *)

At(c, what) == consumer[c].at = what

Take(c) ==
    /\ accepting /\ At(c, "idle") /\ queue # <<>>
    /\ queue' = Tail(queue)
    /\ status' = [status EXCEPT ![Head(queue)] = "PROCESSING"]
    /\ consumer' = [consumer EXCEPT ![c] = [at |-> "running", job |-> Head(queue)]]
    /\ UNCHANGED <<request, memory, kafkaOnly, calls, life, history, called, kafka, faults>>

\* datetime.now(), later than all before.
Now == 1 + Cardinality({j \in Job : completedAt[j] # 0})

\* The waiters of j are popped and get the view.
Woken(j) ==
    [s \in Caller |-> IF caller[s] = [at |-> "waiting", job |-> j]
                      THEN [caller[s] EXCEPT !.at = "woken"] ELSE caller[s]]

\* recommend() returned, raised or timed out.  The result of a job only Kafka
\* asked for is left to its waiter.
Finish(c, s) ==
    LET j == consumer[c].job IN
    /\ At(c, "running")
    /\ status' = [status EXCEPT ![j] = s]
    /\ completedAt' = [completedAt EXCEPT ![j] = Now]
    /\ caller' = Woken(j)
    /\ kafkaOnly' = kafkaOnly \ {j}
    /\ consumer' = [consumer EXCEPT ![c] =
            IF j \in kafkaOnly THEN Idle ELSE [at |-> "saving", job |-> j]]
    /\ UNCHANGED <<request, records, byRequest, aged, queue, lock, claimed, life, history,
                   called, kafka, faults>>

\* Faulty: ON CONFLICT(request_id) DO UPDATE.
InsertOver(j) ==
    history' = [history EXCEPT ![IdOf[request[j]]] = j]

\* INSERT ... ON CONFLICT(job_id) DO UPDATE, with requestId unique: the row of
\* a request never changes its job.
Insert(j) ==
    history' = [history EXCEPT ![IdOf[request[j]]] = IF @ = None THEN j ELSE @]

\* save() returned, or raised, which is only logged.
Saved(c) ==
    /\ At(c, "saving")
    /\ \/ Insert(consumer[c].job) /\ UNCHANGED faults
       \/ Fault /\ UNCHANGED history
    /\ consumer' = [consumer EXCEPT ![c].at = "calling"]
    /\ UNCHANGED <<status, request, memory, queue, kafkaOnly, calls, life, called, kafka>>

\* RecipeCallback.send() delivered the view, or gave up.
Called(c) ==
    /\ At(c, "calling")
    /\ called' = called \cup {consumer[c].job}
    /\ consumer' = [consumer EXCEPT ![c] = Idle]
    /\ UNCHANGED <<status, request, memory, queue, kafkaOnly, calls, life, history, kafka, faults>>

\* A result outlives recipe_result_ttl_seconds.  At least a minute: more than
\* save() may take, which command_timeout ends after 15 seconds.
TtlPasses(j) ==
    /\ j \in records \ aged /\ status[j] \in Final
    /\ \A c \in Consumer : consumer[c] # [at |-> "saving", job |-> j]
    /\ aged' = aged \cup {j}
    /\ UNCHANGED <<status, request, records, byRequest, completedAt, queue, consumer, kafkaOnly,
                   calls, life, history, called, kafka, faults>>

-----------------------------------------------------------------------------
(* RecommendationKafka.recommend(): submit_and_wait(), then send_and_wait().*)

jobs == <<status, request, memory, queue, consumer, kafkaOnly, lock, claimed, life, called>>

Poll(p) ==
    /\ Group!Poll(p)
    /\ UNCHANGED <<jobs, caller, history, events, faults>>

CallerAt(p, what, j) == caller' = [caller EXCEPT ![p] = [at |-> what, job |-> j]]

\* Faulty: the view is published without a row.
RecheckUnsaved(p) ==
    LET row == Row(Record(p)) IN
    /\ caller[p].at = "woken"
    /\ CallerAt(p, "publishing", IF row = None THEN caller[p].job ELSE row)
    /\ UNCHANGED <<jobs, history, kafka, faults>>

\* submit_and_wait() has a finished view and asks the history for the request.
Recheck(p) ==
    LET row == Row(Record(p)) IN
    /\ caller[p].at = "woken"
    /\ IF row = None THEN CallerAt(p, "saving", caller[p].job)
       ELSE IF SameDigest(row, Record(p)) THEN CallerAt(p, "publishing", row)
       ELSE Refused(p)
    /\ UNCHANGED <<jobs, history, kafka, faults>>

\* save() of the view; another job's row of the requestId makes it raise.
SaveView(p) ==
    LET j == caller[p].job IN
    /\ caller[p].at = "saving"
    /\ Insert(j)
    /\ IF Row(Record(p)) \in {None, j} THEN CallerAt(p, "publishing", j) ELSE Refused(p)
    /\ UNCHANGED <<jobs, kafka, faults>>

\* The database fails in one of the two.
WorkerFails(p) ==
    /\ caller[p].at \in {"woken", "saving"}
    /\ Refused(p) /\ Fault
    /\ UNCHANGED <<status, request, memory, queue, consumer, lock, life, called, history, kafka>>

Event(p) == <<p, fetched[p], caller[p].job>>

Publish(p) ==
    /\ caller[p].at = "publishing"
    /\ events' = events \cup {Event(p)}
    /\ caller' = [caller EXCEPT ![p] = Out]
    /\ Group!HandlerReturns(p)
    /\ UNCHANGED <<jobs, history, faults>>

\* send_and_wait() raised, although the event may have arrived.
PublishFails(p) ==
    /\ caller[p].at = "publishing"
    /\ events' \in {events, events \cup {Event(p)}}
    /\ caller' = [caller EXCEPT ![p] = Out]
    /\ Fault
    /\ UNCHANGED <<jobs, history, owned, fetched, committed, worker>>

Commit(p) ==
    /\ Group!CommitOk(p)
    /\ UNCHANGED <<jobs, caller, history, events, faults>>

CommitFails(p) ==
    /\ Group!CommitFails(p) /\ Fault
    /\ UNCHANGED <<jobs, caller, history, events>>

\* Cancelled wherever it is; the lock it holds is released, its waiter
\* discarded, and a save() under way may or may not have happened.
Revoke(p) ==
    /\ Group!Revoked(p) /\ Fault
    /\ caller' = [caller EXCEPT ![p] = Out]
    /\ lock' = IF lock = p THEN None ELSE lock
    /\ \/ caller[p].at = "saving" /\ Insert(caller[p].job)
       \/ UNCHANGED history
    /\ UNCHANGED <<status, request, memory, queue, consumer, kafkaOnly, claimed, life,
                   called, events>>

Assign(p) ==
    /\ accepting /\ Group!Assigned(p)
    /\ UNCHANGED <<jobs, caller, history, events, faults>>

-----------------------------------------------------------------------------
(* The process.                                                            *)

\* lifespan() stops the Kafka workers first, and the server has answered its
\* clients before lifespan() ends: nobody is inside submit().  The consumers
\* are cancelled wherever they are; a save() under way may have happened.
\* What is not finished is set to FAILED.
Stop ==
    LET lost == {j \in records : Live(j)} IN
    /\ accepting /\ \A p \in Task : ~owned[p]
    /\ \A s \in Caller : caller[s].at = "out"
    /\ accepting' = FALSE
    /\ status' = [j \in Job |-> IF j \in lost THEN "FAILED" ELSE status[j]]
    /\ completedAt' = [j \in Job |-> IF j \in lost THEN Now ELSE completedAt[j]]
    /\ draining' = lost
    /\ queue' = <<>>
    /\ consumer' = [c \in Consumer |-> Idle]
    /\ UNCHANGED <<request, records, byRequest, aged, kafkaOnly, calls, history, called, kafka, faults>>

\* _finish() of an interrupted job.
FinishInterrupted(j) ==
    /\ j \in draining
    /\ draining' = draining \ {j}
    /\ IF j \in kafkaOnly
       THEN UNCHANGED <<history, called, faults>>
       ELSE /\ called' = called \cup {j}
            /\ \/ Insert(j) /\ UNCHANGED faults
               \/ Fault /\ UNCHANGED history
    /\ kafkaOnly' = kafkaOnly \ {j}
    /\ UNCHANGED <<status, request, memory, queue, consumer, calls, accepting, kafka>>

\* A crash, the end of stop() with its timeout, and the next process.
NewProcess ==
    /\ records' = {} /\ byRequest' = [r \in RequestId |-> None]
    /\ completedAt' = [j \in Job |-> 0] /\ aged' = {}
    /\ queue' = <<>> /\ consumer' = [c \in Consumer |-> Idle] /\ kafkaOnly' = {}
    /\ lock' = None /\ caller' = [s \in Caller |-> Out]
    /\ accepting' = TRUE /\ draining' = {}
    /\ Group!Rejoined /\ Fault
    /\ UNCHANGED <<status, request, history, claimed, called, events>>

Worker(p) ==
    \/ Poll(p) \/ Recheck(p) \/ SaveView(p) \/ WorkerFails(p)
    \/ Publish(p) \/ PublishFails(p) \/ Commit(p) \/ CommitFails(p)
    \/ Revoke(p) \/ Assign(p)

Submit(s) ==
    \/ Hit(s) \/ Ask(s) \/ FromHistory(s) \/ QueueFull(s) \/ LookupFails(s) \/ New(s)

Consume(c) ==
    Take(c) \/ (\E s \in Final : Finish(c, s)) \/ Saved(c) \/ Called(c)

Next ==
    \/ \E s \in Caller : Submit(s)
    \/ \E p \in Task : Worker(p)
    \/ \E c \in Consumer : Consume(c)
    \/ \E j \in Job : TtlPasses(j) \/ FinishInterrupted(j)
    \/ Read
    \/ Stop
    \/ NewProcess

Spec == Init /\ [][Next]_vars

\* The loops go on.  asyncio.Lock serves its waiters in order, so a worker that
\* keeps asking gets it; results age.  Faults are bounded, clients free.
Fairness ==
    /\ \A s \in Caller :
        /\ WF_vars(FromHistory(s) \/ QueueFull(s) \/ New(s))
        /\ s \in Task => SF_vars(Hit(s) \/ Ask(s))
    /\ \A p \in Task :
        /\ SF_vars(New(p))
        /\ WF_vars(Poll(p)) /\ WF_vars(Recheck(p) \/ SaveView(p) \/ Publish(p))
        /\ WF_vars(Commit(p)) /\ WF_vars(Assign(p))
    /\ \A c \in Consumer : WF_vars(Consume(c))
    /\ \A j \in Job : WF_vars(TtlPasses(j))

FairSpec == Spec /\ Fairness

-----------------------------------------------------------------------------
(* Properties.                                                             *)

\* One job in memory per requestId, found through by_request, and by nothing
\* that _prune() dropped: two submissions that meet at the await of the
\* history never start the same request twice.
OneJobPerRequest ==
    /\ \A j \in records : byRequest[IdOf[request[j]]] = j
    /\ \A r \in RequestId : byRequest[r] # None => byRequest[r] \in records

\* What _consume() takes from the queue is in memory, each unfinished job is
\* queued or run exactly once, and none is left over when stop() is done.  The
\* table never outgrows its limit, and a caller back from the history finds room
\* in it: what is refused is refused because of the queue.
NoJobIsLost ==
    /\ Cardinality(records) <= MaxEntries
    /\ \A s \in Caller : caller[s].at = "asked" => Cardinality(records) < MaxEntries
    /\ \A i, k \in DOMAIN queue : queue[i] \in records /\ (queue[i] = queue[k] => i = k)
    /\ \A j \in records :
        /\ status[j] = "QUEUED" <=> \E i \in DOMAIN queue : queue[i] = j
        /\ status[j] = "PROCESSING" <=>
               \E c \in Consumer : consumer[c] = [at |-> "running", job |-> j]
    /\ ~accepting => \A j \in records : ~Live(j)

\* kafka.md: a job accepted over HTTP delivers its callback, also when Kafka
\* asked for it first.
ClaimedIsCalledBack ==
    \A j \in claimed \cap records :
        accepting /\ status[j] \in Final =>
            j \in called \/ \E c \in Consumer : consumer[c].job = j

\* kafka.md: the offset is committed after the result is in the history and its
\* event acknowledged.
CommittedIsSaved ==
    \A p \in Task : \A o \in 1 .. committed[p] :
        \E j \in Job : <<p, o, j>> \in events /\ history[IdOf[log[p][o]]] = j

\* What is published for a record is the end of a job for the very body in it.
PublishedIsRight ==
    \A e \in events :
        status[e[3]] \in Final /\ e[2] \in DOMAIN log[e[1]] /\ request[e[3]] = log[e[1]][e[2]]

\* kafka.md: the same request, redelivered, retried or asked for again after a
\* restart, is published with the same job and so with the same event id.
Outcome == INSTANCE RecipeOutcome WITH
    outcome <- history,
    announced <- {<<IdOf[log[e[1]][e[2]]], e[3]>> : e \in events}
ImplementsOutcome == Outcome!OSpec

\* The model has no job id left.
Starved ==
    /\ \E s \in Caller : caller[s].at = "asked"
    /\ FreshJobs = {}

\* Another body holds the requestId.
Conflicts(p, o) ==
    \E j \in Job : /\ request[j] \notin {None, log[p][o]}
                   /\ IdOf[request[j]] = IdOf[log[p][o]]

\* Every record that was read is committed in the end, through refusals and
\* faults, unless its requestId belongs to another body or the service stops.
EveryRecordIsCommitted ==
    \A p \in Task : \A o \in DOMAIN log[p] :
        fetched[p] >= o ~> \/ committed[p] >= o
                           \/ Conflicts(p, o) \/ ~accepting \/ Starved

\* jobs.py: stop() keeps the remaining work in the history, as failed.  Stated
\* for a stop without faults: a client's job is stored or was called back.
StopKeepsWork ==
    ~accepting /\ draining = {} =>
        \A j \in claimed \cap records : history[IdOf[request[j]]] = j \/ j \in called
=============================================================================
