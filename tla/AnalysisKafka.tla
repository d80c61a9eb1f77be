---------------------------- MODULE AnalysisKafka ----------------------------
(***************************************************************************)
(* AnalysisKafka (fastapi/app/adapters/kafka.py) on top of the analysis    *)
(* runtime: each partition's worker runs analyze(): submit_and_wait(),     *)
(* then send_and_wait() of the completed event; then its offset is         *)
(* committed.  HTTP clients submit to the same runtime.                    *)
(*                                                                         *)
(* A Task of AnalysisRuntime is the worker of a partition, and answer[p]   *)
(* the view it is publishing.                                              *)
(***************************************************************************)
EXTENDS AnalysisRuntime

CONSTANTS
    log,          \* [Task -> sequence of records], as the backend wrote them
    Malformed,    \* a record that breaks the contract of the event
    MaxFaults     \* how many faults of broker, group and process are explored

VARIABLES
    owned, fetched, committed, worker,     \* see PartitionConsumer
    events,       \* the completed topic: <<partition, offset, analysis>>
    faults        \* faults so far

Group == INSTANCE PartitionConsumer WITH Partition <- Task

ASSUME KafkaAssumption ==
    /\ log \in [Task -> Seq(Request \cup {Malformed})]
    /\ Malformed \notin Request
    /\ MaxFaults \in Nat

kafkaVars == <<owned, fetched, committed, worker, events, faults>>
kvars == <<vars, kafkaVars>>

KTypeOK ==
    /\ TypeOK
    /\ Group!PTypeOK
    /\ events \subseteq Task \X Nat \X AnalysisId
    /\ faults \in Nat

KInit ==
    /\ Init
    /\ Group!PInit
    /\ events = {}
    /\ faults = 0

Fault == faults < MaxFaults /\ faults' = faults + 1

Poll(p) ==
    /\ Group!Poll(p)
    /\ UNCHANGED <<vars, events, faults>>

\* The record the worker of p handles.
Record(p) == log[p][fetched[p]]

\* analyze() up to the await.  A refusal, an expired hit, a conflict and a
\* malformed record raise, and the worker tries again later; the last two
\* change nothing, so they are no step here.
Handle(p) ==
    /\ worker[p] = "handling"
    /\ Record(p) # Malformed
    /\ LET q == Record(p) IN
       \/ \E a \in AnalysisId : KafkaNew(p, a, q)
       \/ KafkaHitDone(p, q)
       \/ KafkaHitWaits(p, q)
       \/ KafkaHitExpired(p, q)
       \/ Outside(p) /\ \E a \in AnalysisId : QueueFull(a, q)
    /\ UNCHANGED kafkaVars

Event(p) == <<p, fetched[p], answer[p]>>

\* send_and_wait() returned: the broker acknowledged the event.
Publish(p) ==
    /\ worker[p] = "handling"
    /\ TaskDone(p)
    /\ events' = events \cup {Event(p)}
    /\ Group!HandlerReturns(p)
    /\ UNCHANGED faults

\* It raised, although the event may have arrived: the handler starts over.
PublishFails(p) ==
    /\ worker[p] = "handling"
    /\ TaskDone(p)
    /\ events' \in {events, events \cup {Event(p)}}
    /\ Fault
    /\ UNCHANGED <<owned, fetched, committed, worker>>

Commit(p) ==
    /\ Group!CommitOk(p)
    /\ UNCHANGED <<vars, events, faults>>

CommitFails(p) ==
    /\ Group!CommitFails(p)
    /\ Fault
    /\ UNCHANGED <<vars, events>>

\* The worker is cancelled in submit_and_wait(), in send_and_wait() or in
\* commit(); what the broker got of the last two is PublishFails or
\* CommitFails, then this.
Cancelled(p) ==
    \/ TaskCancelled(p)
    \/ TaskDone(p)
    \/ Outside(p) /\ UNCHANGED vars

Revoke(p) ==
    /\ Group!Revoked(p)
    /\ Cancelled(p)
    /\ Fault
    /\ UNCHANGED events

Assign(p) ==
    /\ accepting
    /\ Group!Assigned(p)
    /\ UNCHANGED <<vars, events, faults>>

\* lifespan() stops the Kafka consumers, which revokes all partitions, before
\* the runtime.
Shutdown ==
    /\ \A p \in Task : ~owned[p]
    /\ Stop
    /\ UNCHANGED kafkaVars

\* A crash, or the start after a Shutdown.
NewProcess ==
    /\ Restart
    /\ Group!Rejoined
    /\ Fault
    /\ UNCHANGED events

Worker(p) ==
    \/ Poll(p)
    \/ Handle(p)
    \/ Publish(p) \/ PublishFails(p)
    \/ Commit(p) \/ CommitFails(p)
    \/ Revoke(p)
    \/ Assign(p)

Rest ==
    /\ \/ Client
       \/ \E c \in Consumer : Consume(c)
       \/ Janitor
       \/ \E a \in AnalysisId : TtlPasses(a)
    /\ UNCHANGED kafkaVars

KNext ==
    \/ \E p \in Task : Worker(p)
    \/ Rest
    \/ Shutdown
    \/ NewProcess

KSpec == KInit /\ [][KNext]_kvars

\* The workers' loops go on, the group hands partitions back, results age and
\* the janitor prunes them.  Faults are bounded, clients are free.
KFairness ==
    /\ \A p \in Task :
        /\ WF_kvars(Poll(p))
        /\ WF_kvars(Handle(p))
        /\ WF_kvars(Publish(p))
        /\ WF_kvars(Commit(p))
        /\ WF_kvars(Assign(p))
    /\ \A c \in Consumer :
        /\ WF_kvars(Take(c) /\ UNCHANGED kafkaVars)
        /\ WF_kvars((\E s \in Final : Finish(c, s)) /\ UNCHANGED kafkaVars)
        /\ WF_kvars(AfterSave(c) /\ UNCHANGED kafkaVars)
        /\ WF_kvars(CallbackReturns(c) /\ UNCHANGED kafkaVars)
    /\ \A a \in AnalysisId : WF_kvars(TtlPasses(a) /\ UNCHANGED kafkaVars)
    /\ WF_kvars(Janitor /\ UNCHANGED kafkaVars)

FairKSpec == KSpec /\ KFairness

-----------------------------------------------------------------------------
(* Properties.                                                             *)

\* What is published for a record is a finished analysis of the very request
\* in that record, whatever ran in between: retries, revocations, evictions,
\* restarts, or other submissions of the same requestId.
PublishedIsRight ==
    \A e \in events :
        /\ status[e[3]] \in Final
        /\ e[2] \in DOMAIN log[e[1]] /\ request[e[3]] = log[e[1]][e[2]]

\* kafka.md: an offset is committed only after a terminal result was published
\* and acknowledged, so no committed record lacks its completed event.
NothingSkipped ==
    \A p \in Task : \A o \in 1 .. committed[p] :
        \E a \in AnalysisId : <<p, o, a>> \in events

\* kafka.md: a later record of a partition never overtakes the commit of an
\* earlier one, so no event is published ahead of an uncommitted predecessor.
NoOvertaking ==
    \A e \in events : e[2] <= committed[e[1]] + 1

\* validate_key(): the key of a record is its userId, so the records of one
\* request, a user's own, are in one partition.
OnePartition ==
    \A p, t \in Task : \A i \in DOMAIN log[p], j \in DOMAIN log[t] :
        log[p][i] = log[t][j] /\ log[p][i] \in Request => p = t

\* kafka.md: while the process keeps a result in memory, the same request is
\* published again with the same analysis, never a new one.  (In a topic with
\* OnePartition: the workers of two partitions could publish an analysis that
\* was pruned meanwhile after the one that replaced it.)
SameResultWhileStored ==
    [][\A e \in events' \ events, f \in events :
          log[e[1]][e[2]] = log[f[1]][f[2]] /\ f[3] \in stored
              => e[3] = f[3]]_kvars

\* The model has no analysis id left for the record of p.
Starved(p) ==
    /\ worker[p] = "handling" /\ Outside(p)
    /\ Record(p) # Malformed /\ ~Hit(Record(p))
    /\ \A a \in AnalysisId : ~Fresh(a)

\* Every record that was read is committed in the end, through refusals,
\* conflicts, expired hits and faults, unless it is malformed, the service
\* stops, or the model runs out of analysis ids: a bad record blocks its own
\* partition only.
EveryRecordIsCommitted ==
    \A p \in Task : \A o \in DOMAIN log[p] :
        fetched[p] >= o ~>
            \/ committed[p] >= o
            \/ log[p][o] = Malformed
            \/ ~accepting
            \/ Starved(p)
=============================================================================
