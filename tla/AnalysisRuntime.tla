-------------------------- MODULE AnalysisRuntime --------------------------
(***************************************************************************)
(* AnalysisRuntime (fastapi/app/runtime.py): requests are accepted over    *)
(* HTTP (submit) or by a Kafka handler that waits for the outcome          *)
(* (submit_and_wait), queued, run by several consumers, saved to the       *)
(* history, and reported on one channel: the Kafka waiters or the HTTP     *)
(* callback.                                                               *)
(*                                                                         *)
(* The process runs one asyncio event loop, so an action is the code of    *)
(* one coroutine between two awaits.                                       *)
(***************************************************************************)
EXTENDS AnalysisStore, Sequences

CONSTANTS
    Consumer,      \* ANALYSIS_CONSUMER_COUNT coroutines running _consume
    Task,          \* Kafka handlers that may sit in submit_and_wait
    QueueMax,      \* ANALYSIS_QUEUE_MAXSIZE
    HasHistory     \* DATABASE_URL is set

ASSUME RuntimeAssumption ==
    /\ QueueMax \in Nat \ {0}
    /\ HasHistory \in BOOLEAN
    /\ IsFiniteSet(Consumer)

VARIABLES
    accepting,     \* self.accepting
    queue,         \* self.queue
    pc,            \* where each consumer is suspended, or that it ended
    job,           \* the analysis_id it holds
    pending,       \* self.pending_completion_ids
    kafkaIds,      \* self.kafka_analysis_ids
    waiting,       \* the analysis whose completion_waiters hold the task
    answer,        \* the analysis whose view submit_and_wait gave the task
    history,       \* receipt_analyses: the row of each requestId
    route          \* where the outcome of an analysis was reported

runtimeVars == <<accepting, queue, pc, job, pending, kafkaIds, waiting,
                 answer, history, route>>
vars == <<request, status, stored, older, index, expired, accepting, queue,
          pc, job, pending, kafkaIds, waiting, answer, history, route>>

\* idle: queue.get(); analyzing: analysis_graph.run(); saving, saved: before
\* and after the commit inside save_analysis(); calling: try_send().
\* dead: an exception left _consume; stopped: cancelled by stop().
ConsumerState ==
    {"idle", "analyzing", "saving", "saved", "calling", "dead", "stopped"}

\* The consumers that hold an analysis they have not routed yet.
Analyzing == {c \in Consumer : pc[c] = "analyzing"}
Saving    == {c \in Consumer : pc[c] \in {"saving", "saved"}}

Queued == {queue[i] : i \in DOMAIN queue}

TypeOK ==
    /\ StoreTypeOK
    /\ accepting \in BOOLEAN
    /\ queue \in Seq(AnalysisId)
    /\ pc \in [Consumer -> ConsumerState]
    /\ job \in [Consumer -> AnalysisId \cup {None}]
    /\ pending \subseteq AnalysisId
    /\ kafkaIds \subseteq AnalysisId
    /\ waiting \in [Task -> AnalysisId \cup {None}]
    /\ answer \in [Task -> AnalysisId \cup {None}]
    /\ history \in [RequestId -> AnalysisId \cup {None}]
    /\ route \in [AnalysisId -> {"none", "kafka", "http"}]

\* The first process that runs start().
Init ==
    /\ StoreInit
    /\ accepting = TRUE
    /\ queue = <<>>
    /\ pc = [c \in Consumer |-> "idle"]
    /\ job = [c \in Consumer |-> None]
    /\ pending = {}
    /\ kafkaIds = {}
    /\ waiting = [t \in Task |-> None]
    /\ answer = [t \in Task |-> None]
    /\ history = [r \in RequestId |-> None]
    /\ route = [a \in AnalysisId |-> "none"]

-----------------------------------------------------------------------------
(* submit().  A conflict, and any request once accepting is FALSE, raise   *)
(* before anything changed.                                                *)

Enqueue(a, q) ==
    /\ accepting
    /\ Absent(q)
    /\ Fresh(a)
    /\ Len(queue) < QueueMax
    /\ Create(a, q)
    /\ queue' = Append(queue, a)
    /\ pending' = pending \cup {a}

HttpNew(a, q) ==
    /\ Enqueue(a, q)
    /\ UNCHANGED <<accepting, pc, job, kafkaIds, waiting, answer, history, route>>

HttpHit(q) ==
    /\ accepting
    /\ Hit(q)
    /\ TouchExisting(q)
    /\ UNCHANGED runtimeVars

\* 429 AI_QUEUE_FULL, over HTTP or for a Kafka handler that will retry.
QueueFull(a, q) ==
    /\ accepting
    /\ Absent(q)
    /\ Fresh(a)
    /\ Len(queue) = QueueMax
    /\ CreateAndRemove(a, q)
    /\ UNCHANGED runtimeVars

-----------------------------------------------------------------------------
(* submit_and_wait(), called by a handler that is in no such call.         *)

Outside(t) == waiting[t] = None /\ answer[t] = None

KafkaNew(t, a, q) ==
    /\ Outside(t)
    /\ Enqueue(a, q)
    /\ kafkaIds' = kafkaIds \cup {a}
    /\ waiting' = [waiting EXCEPT ![t] = a]
    /\ UNCHANGED <<accepting, pc, job, answer, history, route>>

\* Faulty: only new submissions are claimed for Kafka.
ClaimNothing(q) ==
    /\ accepting
    /\ Hit(q)
    /\ UNCHANGED <<request, status, stored, older, index, expired, kafkaIds>>

\* submit() claims the analysis for Kafka while its completion is pending;
\* then get_view() prunes the table.
ClaimExisting(q) ==
    /\ accepting
    /\ Hit(q)
    /\ kafkaIds' = kafkaIds \cup ({Existing(q)} \cap pending)
    /\ LET O == Moved(Existing(q), stored, older)
           K == Kept(stored, O, Finished)
       IN  TableBecomes(K, O, stored \ K, index, request)
    /\ UNCHANGED <<request, status>>

\* Faulty: the view is returned whether it is complete or not.
KafkaHitAnyView(t, q) ==
    LET e == Existing(q) IN
    /\ Outside(t)
    /\ ClaimExisting(q)
    /\ e \in stored'
    /\ answer' = [answer EXCEPT ![t] = e]
    /\ UNCHANGED <<accepting, queue, pc, job, pending, waiting, history, route>>

\* completed_at is set and no consumer will answer later: return the view.
KafkaHitDone(t, q) ==
    LET e == Existing(q) IN
    /\ Outside(t)
    /\ ClaimExisting(q)
    /\ e \in stored'
    /\ e \in Finished /\ e \notin kafkaIds'
    /\ answer' = [answer EXCEPT ![t] = e]
    /\ UNCHANGED <<accepting, queue, pc, job, pending, waiting, history, route>>

KafkaHitWaits(t, q) ==
    LET e == Existing(q) IN
    /\ Outside(t)
    /\ ClaimExisting(q)
    /\ e \in stored'
    /\ e \notin Finished \/ e \in kafkaIds'
    /\ waiting' = [waiting EXCEPT ![t] = e]
    /\ UNCHANGED <<accepting, queue, pc, job, pending, answer, history, route>>

\* The hit had expired: get_view() raises, the handler retries later.
KafkaHitExpired(t, q) ==
    /\ Outside(t)
    /\ ClaimExisting(q)
    /\ Existing(q) \notin stored'
    /\ UNCHANGED <<accepting, queue, pc, job, pending, waiting, answer,
                   history, route>>

\* The handler is done with the view it was given.
TaskDone(t) ==
    /\ answer[t] # None
    /\ answer' = [answer EXCEPT ![t] = None]
    /\ UNCHANGED <<request, status, stored, older, index, expired, accepting,
                   queue, pc, job, pending, kafkaIds, waiting, history, route>>

\* The handler's asyncio task is cancelled, as a rebalance does.
TaskCancelled(t) ==
    /\ waiting[t] # None
    /\ waiting' = [waiting EXCEPT ![t] = None]
    /\ UNCHANGED <<request, status, stored, older, index, expired, accepting,
                   queue, pc, job, pending, kafkaIds, answer, history, route>>

-----------------------------------------------------------------------------
(* _consume().                                                             *)

\* The get_record() before the try block: an AnalysisNotFound ends the
\* consumer.
Take(c) ==
    /\ pc[c] = "idle"
    /\ queue # <<>>
    /\ LET a == Head(queue) IN
       /\ queue' = Tail(queue)
       /\ job' = [job EXCEPT ![c] = a]
       /\ GetRecord(a)
       /\ IF Found(a)
          THEN /\ status' = [status EXCEPT ![a] = "PROCESSING"]
               /\ pc' = [pc EXCEPT ![c] = "analyzing"]
          ELSE /\ UNCHANGED status
               /\ pc' = [pc EXCEPT ![c] = "dead"]
    /\ UNCHANGED <<request, accepting, pending, kafkaIds, waiting, answer,
                   history, route>>

\* The pipeline reports a stage: set_stage() reads the record.
SetStage(c) ==
    /\ pc[c] = "analyzing"
    /\ GetRecord(job[c])
    /\ UNCHANGED <<request, status>>
    /\ UNCHANGED runtimeVars

\* Faulty: the channel is chosen by who still waits, not by who claimed.
RouteByWaiters(c) ==
    LET a == job[c]
        W == {t \in Task : waiting[t] = a}
    IN
    /\ pending' = pending \ {a}
    /\ kafkaIds' = kafkaIds \ {a}
    /\ waiting' = [t \in Task |-> IF t \in W THEN None ELSE waiting[t]]
    /\ answer' = [t \in Task |-> IF t \in W THEN a ELSE answer[t]]
    /\ route' = [route EXCEPT ![a] = IF W # {} THEN "kafka" ELSE "http"]
    /\ pc' = [pc EXCEPT ![c] = IF W # {} THEN "idle" ELSE "calling"]
    /\ job' = [job EXCEPT ![c] = IF W # {} THEN None ELSE a]

\* Settle the analysis on one channel.  The Kafka waiters win if any handler
\* claimed it; otherwise build the callback and call try_send().
Route(c) ==
    LET a == job[c] IN
    /\ pending' = pending \ {a}
    /\ kafkaIds' = kafkaIds \ {a}
    /\ IF a \in kafkaIds
       THEN /\ waiting' = [t \in Task |->
                              IF waiting[t] = a THEN None ELSE waiting[t]]
            /\ answer' = [t \in Task |->
                              IF waiting[t] = a THEN a ELSE answer[t]]
            /\ route' = [route EXCEPT ![a] = "kafka"]
            /\ pc' = [pc EXCEPT ![c] = "idle"]
            /\ job' = [job EXCEPT ![c] = None]
       ELSE /\ route' = [route EXCEPT ![a] = "http"]
            /\ pc' = [pc EXCEPT ![c] = "calling"]
            /\ UNCHANGED <<waiting, answer, job>>

\* analysis_graph.run() returned or raised.  Without a history there is no
\* await before the routing.  When even the record just finished does not
\* fit in the table, the finally block raises AnalysisNotFound.
Finish(c, s) ==
    LET a == job[c] IN
    /\ pc[c] = "analyzing"
    /\ s \in Final
    /\ CompleteOrFail(a, s)
    /\ IF a \in TableAtFinish(a) /\ ~HasHistory
       THEN Route(c)
       ELSE /\ pc' = [pc EXCEPT ![c] =
                         IF a \in TableAtFinish(a) THEN "saving" ELSE "dead"]
            /\ UNCHANGED <<job, pending, kafkaIds, waiting, answer, route>>
    /\ UNCHANGED <<accepting, queue, history>>

\* Faulty: two positional arguments of the INSERT are swapped.
HistoryCommitSwapped(c) ==
    /\ pc[c] = "saving"
    /\ history' = [history EXCEPT ![IdOf[request[job[c]]]] = IdOf[request[job[c]]]]
    /\ pc' = [pc EXCEPT ![c] = "saved"]
    /\ UNCHANGED <<request, status, stored, older, index, expired, accepting,
                   queue, job, pending, kafkaIds, waiting, answer, route>>

\* The transaction of save_analysis() commits: the row of this requestId,
\* whichever analysis wrote it, is replaced.
HistoryCommit(c) ==
    /\ pc[c] = "saving"
    /\ history' = [history EXCEPT ![IdOf[request[job[c]]]] = job[c]]
    /\ pc' = [pc EXCEPT ![c] = "saved"]
    /\ UNCHANGED <<request, status, stored, older, index, expired, accepting,
                   queue, job, pending, kafkaIds, waiting, answer, route>>

\* save_analysis() returned, or raised and was logged.
AfterSave(c) ==
    /\ pc[c] \in {"saving", "saved"}
    /\ Route(c)
    /\ UNCHANGED <<request, status, stored, older, index, expired, accepting,
                   queue, history>>

\* try_send() returned, whatever became of its attempts.
CallbackReturns(c) ==
    /\ pc[c] = "calling"
    /\ pc' = [pc EXCEPT ![c] = "idle"]
    /\ job' = [job EXCEPT ![c] = None]
    /\ UNCHANGED <<request, status, stored, older, index, expired, accepting,
                   queue, pending, kafkaIds, waiting, answer, history, route>>

-----------------------------------------------------------------------------
(* Reads, the janitor, the clock, the end of the process.                  *)

\* GET /analyses/{id}, and the feedback service, look the record up.
Read(a) ==
    /\ GetRecord(a)
    /\ UNCHANGED <<request, status>>
    /\ UNCHANGED runtimeVars

Janitor ==
    /\ accepting
    /\ Prune
    /\ UNCHANGED runtimeVars

TtlPasses(a) == Expire(a) /\ UNCHANGED runtimeVars

\* Faulty: submissions are still accepted while nothing consumes them.
StopStillAccepting ==
    /\ accepting
    /\ waiting' = [t \in Task |-> None]
    /\ pc' = [c \in Consumer |-> "stopped"]
    /\ UNCHANGED <<request, status, stored, older, index, expired, accepting,
                   queue, job, pending, kafkaIds, answer, history, route>>

\* Faulty: completion_waiters are left behind.
StopKeepsWaiters ==
    /\ accepting
    /\ accepting' = FALSE
    /\ pc' = [c \in Consumer |-> "stopped"]
    /\ UNCHANGED <<request, status, stored, older, index, expired, queue, job,
                   pending, kafkaIds, waiting, answer, history, route>>

\* stop(): waiters and consumers are cancelled; what was queued or running
\* keeps its status.
Stop ==
    /\ accepting
    /\ accepting' = FALSE
    /\ waiting' = [t \in Task |-> None]
    /\ pc' = [c \in Consumer |-> "stopped"]
    /\ UNCHANGED <<request, status, stored, older, index, expired, queue, job,
                   pending, kafkaIds, answer, history, route>>

\* The process ended, in order or by a crash, and a new one started: only
\* PostgreSQL survives.
Restart ==
    /\ status' = [a \in AnalysisId |->
                     IF status[a] \in Live THEN "LOST" ELSE status[a]]
    /\ stored' = {} /\ older' = {} /\ expired' = {}
    /\ index' = [r \in RequestId |-> None]
    /\ accepting' = TRUE
    /\ queue' = <<>>
    /\ pc' = [c \in Consumer |-> "idle"]
    /\ job' = [c \in Consumer |-> None]
    /\ pending' = {} /\ kafkaIds' = {}
    /\ waiting' = [t \in Task |-> None]
    /\ answer' = [t \in Task |-> None]
    /\ UNCHANGED <<request, history, route>>

-----------------------------------------------------------------------------
KafkaCall(t) ==
    \/ \E q \in Request :
          \/ \E a \in AnalysisId : KafkaNew(t, a, q)
          \/ KafkaHitDone(t, q)
          \/ KafkaHitWaits(t, q)
          \/ KafkaHitExpired(t, q)
    \/ TaskDone(t)
    \/ TaskCancelled(t)

Client ==
    \/ \E q \in Request :
          \/ \E a \in AnalysisId : HttpNew(a, q) \/ QueueFull(a, q)
          \/ HttpHit(q)
    \/ \E a \in AnalysisId : Read(a)

Consume(c) ==
    \/ Take(c)
    \/ SetStage(c)
    \/ \E s \in Final : Finish(c, s)
    \/ HistoryCommit(c)
    \/ AfterSave(c)
    \/ CallbackReturns(c)

Environment ==
    \/ Janitor
    \/ \E a \in AnalysisId : TtlPasses(a)
    \/ Stop
    \/ Restart

Next ==
    \/ Client
    \/ \E t \in Task : KafkaCall(t)
    \/ \E c \in Consumer : Consume(c)
    \/ Environment

Spec == Init /\ [][Next]_vars

\* What the event loop and the timeouts of the calls behind it guarantee: a
\* consumer that can go on does.  Clients, clock, stop and crash are free.
Fairness ==
    \A c \in Consumer :
        /\ WF_vars(Take(c))
        /\ WF_vars(\E s \in Final : Finish(c, s))
        /\ WF_vars(AfterSave(c))
        /\ WF_vars(CallbackReturns(c))

FairSpec == Spec /\ Fairness

-----------------------------------------------------------------------------
(* Properties.                                                             *)

\* The table is sized for the work that may be open at once (1000 entries
\* against 100 queued and 2 running by default).
Sized == MaxEntries >= QueueMax + Cardinality(Consumer)

LiveIds == {a \in AnalysisId : status[a] \in Live}

\* The requestId index and the records stay two views of one table: no entry
\* outlives its record and no record is unreachable by its requestId, through
\* creation, eviction, expiry and the removal after a full queue.
IndexExact ==
    \A r \in RequestId, a \in AnalysisId :
        index[r] = a <=> a \in stored /\ IdOf[request[a]] = r

\* A requestId never has two unfinished analyses, however its submissions
\* over HTTP and Kafka interleave with pruning.
OneRunPerRequest ==
    \A a, b \in LiveIds : IdOf[request[a]] = IdOf[request[b]] => a = b

\* Unfinished work is never pruned and never forgotten: its record is in the
\* table and, while the process runs, it is in the queue once or held by one
\* consumer.  So the get_record() outside _consume's try block cannot fail.
WorkIsStored ==
    /\ LiveIds \subseteq stored
    /\ \A i \in DOMAIN queue : status[queue[i]] = "QUEUED"
    /\ \A i, j \in DOMAIN queue : queue[i] = queue[j] => i = j
    /\ \A c \in Analyzing : status[job[c]] = "PROCESSING"
    /\ \A c, d \in Analyzing : job[c] = job[d] => c = d
    /\ accepting => LiveIds = Queued \cup {job[c] : c \in Analyzing}

\* No exception ever leaves _consume: the queue keeps all its consumers.
ConsumersSurvive == \A c \in Consumer : pc[c] # "dead"

\* A handler inside submit_and_wait is always owed an answer: its analysis is
\* claimed for Kafka and still has to pass through a consumer's routing, so
\* the outcome cannot go to the HTTP callback instead.
WaiterIsOwed ==
    \A t \in Task : waiting[t] # None =>
        /\ waiting[t] \in pending \cap kafkaIds
        /\ \/ waiting[t] \in Queued
           \/ \E c \in Analyzing \cup Saving : job[c] = waiting[t]

\* The table never outgrows its limit between two steps: unfinished work
\* alone does not fill it, and every insertion prunes.
StoreBounded == Cardinality(stored) <= MaxEntries

\* The runtime keeps the promises of AnalysisDelivery: it starts analyses in
\* order, ends each once, and reports each at most once, on Kafka if and only
\* if a handler claimed it in time.
Promise == INSTANCE AnalysisDelivery WITH
    phase <- status, line <- queue, unreported <- pending,
    claimed <- kafkaIds, channel <- route
ImplementsDelivery == Promise!DSpec

\* kafka.md: an analysis accepted over both HTTP and Kafka before its
\* completion was delivered is reported on Kafka only.  Here: while the HTTP
\* callback of an analysis is still being sent, no handler was given the
\* same analysis to publish.
ReportedOnce ==
    \A c \in Consumer, t \in Task :
        pc[c] = "calling" => answer[t] # job[c]

\* feedback_repository.py: the history row of an older analysis gives way to
\* the new analysis of its requestId.  Here: the row of the analysis the
\* index currently leads to is not replaced by another's.
HistoryKeepsCurrent ==
    [][\A r \in RequestId :
          history[r] # None /\ index[r] = history[r] /\ index'[r] = index[r]
              => history'[r] = history[r]]_vars

\* Every accepted analysis ends, unless its process does.
EveryAnalysisEnds ==
    \A a \in AnalysisId :
        status[a] = "QUEUED" ~> status[a] \in Final \cup {"LOST"} \/ ~accepting

\* Every handler inside submit_and_wait leaves it.
EveryWaiterLeaves ==
    \A t \in Task : waiting[t] # None ~> waiting[t] = None

=============================================================================
