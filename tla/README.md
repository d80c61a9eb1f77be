# A TLA+ model of the 다먹자 AI backend

The repository is the AI side of a refrigerator app. `fastapi/app` is one
asyncio process (one event loop, `--workers 1`) that accepts receipt and
product photos for analysis, runs them on a remote GPU worker, reports the
results to the main backend over an HTTP callback or over Kafka, learns from
user feedback, and recommends recipes. `runpod` is the GPU worker.

This project models the code in TLA+, checks small instances of the models with
TLC, and proves the properties that matter most with TLAPS for every size.

    tlc -workers 2 -config AnalysisCapacity.cfg MCAnalysisRuntime.tla
    tlapm AnalysisRuntimeProofs.tla

## 1. Inventory

| Component | State | Operations | Hard behaviour |
| --- | --- | --- | --- |
| Analysis store, `store.py` | records in LRU order, requestId index | create_or_get, get_record, remove, mark/complete/fail, prune | every read prunes by age and size; the index must follow |
| Analysis runtime, `runtime.py` | queue, consumers, pending completions, Kafka claims, waiters | submit, submit_and_wait, `_consume`, janitor, start, stop | two channels race for one outcome; awaits between taking, saving and reporting; shutdown in the middle |
| Kafka adapter, `adapters/kafka.py` | one worker per partition, offsets | poll, process, commit, revoke, assign | at-least-once redelivery, rebalances, retry for ever |
| HTTP callback, `adapters/callback.py` | none | build payload, try_send with attempts | long await while Kafka asks for the same result |
| History and feedback, `feedback_repository.py`, `feedback.py` | `receipt_analyses`, feedback rows, corrections | save, load, record under advisory locks | late saves, duplicate submissions |
| Analysis graph, `analysis_graph.py` | attempts | analyze, retry, wait | stacked retries |
| Recipe jobs, `recipes/jobs.py` | queue, records, requestId index, kafka-only set, waiters | submit, submit_and_wait, `_consume`, `_finish`, prune, stop | awaits inside submit and finish; drain at stop |
| Recipe service, `recipes/service.py`, `planning.py`, `weather.py` | decisions, situations, deferred recipes, weather snapshot | recommend: find, attach, supply, rank, choose | two ranks and one search per request; every step may fail and the rest must go on |
| Recipe result cache, `result_cache.py` | entries, flights | get_or_load | single flight with cancellation |
| Recipe circuit, `reliability.py` | failures, generation, probe | acquire, finish, cancel | late answers of an old generation |
| Web recipe supply, `replenishment.py`, `web_provider.py`, `source_processing.py` | remembered pages, page readings | replenish, search, process | shared readings, time limits within time limits |
| Stock and choice, `quantities.py`, `suitability.py`, `selection.py`, `candidate_pool.py` | none | allocate, rate, order, choose, window | lots shared between lines, ties, small windows |
| Caches, pool, `_cache.py` | LRU, lazily made pool | get_or_load, forget | forget during a load |
| Remote client, `remote_inference.py` | discovered address and its age | discover, post, invalidate | stale address, second post |
| Pod scripts, `.github/scripts/control_runpod.py` | none; the Pods are the state | start, stop, migrate, deploy, remove_obsolete | a script that stops half-way; two scripts at once |
| GPU worker, `gpu_worker/engine.py` | three semaphores, OCR engines | infer, reason_recipe | nested waiting, budgets, crashes |
| Receipt pipeline, `pipeline.py`, `domain/receipt_rules.py` on both sides, `ocr.py` | none | rows, numbers, candidates, decisions per item | precedence of many sources; two readings of one photo |
| Feedback, `feedback.py`, `feedback_repository.py` | feedback rows, corrections | record under advisory locks, learn, forget | duplicates, lock order, stale cache |

How they interact: `main.build_runtime` wires them. HTTP routers and the Kafka
handlers call `AnalysisRuntime.submit` / `submit_and_wait`; consumers call the
pipeline, then the history, then release the Kafka waiters or send the callback.
`lifespan` stops the Kafka consumers first, then the recipe jobs, then the
runtime. All shared state lives in memory of one process, so the unit of
interleaving is the code between two awaits; only PostgreSQL and the Kafka
broker survive a crash.

What makes each part correct:

- store: table and index agree; live work is never pruned; the size limit holds;
- runtime: one run per requestId; no work lost; consumers live for ever; each
  outcome reported once, on the right channel; no waiter is left;
- Kafka: events carry the right result; nothing committed without its event;
  order kept; every good record gets through;
- history: the newest analysis of a requestId stays;
- recipe jobs: as the runtime, plus one result per requestId in the history;
- result cache, page readings: what others wait for is not cancelled; circuit:
  one probe at a time, old answers change nothing;
- recommendation: verdicts rest on evidence, failures are not kept for others,
  stock is shared fairly, urgent food gets a place in the window;
- GPU worker and its client: slots follow the work, a post is repeated only for
  a reason, nothing that serves is removed, every call ends;
- receipts: what is printed arrives under the right product; corrections stay
  with their refrigerator; feedback counts once, without deadlock.

The hazards, line by line, are in `PROJECT.json`.

## 2. Modules

| Module | Models |
| --- | --- |
| `AnalysisStore` | `store.py`: a method is one indivisible change |
| `AnalysisRuntime` | `runtime.py` on that store; callers, clock, stop, restart |
| `AnalysisDelivery` | abstract: accepted, started in order, ended once, reported once on the right channel |
| `PartitionConsumer` | the class of that name: offsets and workers, any handler |
| `AnalysisKafka` | the requested topic: `PartitionConsumer` (by INSTANCE) around `submit_and_wait` |
| `RecipeOutcome` | abstract: a requestId has one outcome for good, and every event published for it names that outcome |
| `RecipeJobs` | `jobs.py`, its history and its Kafka topic (`PartitionConsumer` by INSTANCE) |
| `GpuWorker` | a worker's slots, steps, failures and death |
| `PodControl` | Pods and the control script; EXTENDS `GpuWorker` |
| `RemoteInference` | discovery, posts, repeats, time budget; EXTENDS `PodControl` |
| `Inference` | the analysis graph's retry loop and the environment; EXTENDS `RemoteInference` |
| `RecipeCircuit` | the circuit breaker |
| `RecipeStock` | allocation, suitability, order, choice, window, as operators |
| `RecipeRanker` | what an answer and stored facts say of a preference, as operators |
| `RecipeSupply` | official source, web search, shared readings of pages |
| `RecipeService` | a recommendation from request to answer; EXTENDS the four before |
| `ReceiptRows` | rows, their numbers and how they reach the names |
| `WorkerReading` | what the GPU worker does with lines, boxes and answers |
| `ReceiptItems` | the pipeline's decisions per item; EXTENDS `WorkerReading` and `ReceiptRows` |
| `Receipts` | analyses with their lookups, the cache, the feedback transactions |
| `MC...` | small instances and their symmetry |
| `...Proofs` | theorems |

### Store

`stored` is `_records.keys()`; `older` is the order of the OrderedDict as a
relation, so that symmetric states coincide; `index` is `_request_index`;
`request` and `status` are the fields of a record and are remembered after the
record is gone, so that properties can speak of it. Time is the set `expired`
of terminal records past their TTL. `Kept` is `prune()`: expired records go,
then the oldest terminal ones until the limit holds. `remove()` pops the index
entry by requestId, whatever it points at (`WithoutIndex`); the proofs show it
never removes another's entry. A fingerprint is equality of requests.

### Runtime

One action is the code of one coroutine between two awaits:

| Action | Code |
| --- | --- |
| `HttpNew`, `HttpHit`, `QueueFull` | `submit()` over HTTP |
| `KafkaNew`, `KafkaHitDone`, `KafkaHitWaits`, `KafkaHitExpired` | `submit_and_wait()` up to its await: the claim, then the `get_view()` that may find the hit gone |
| `TaskDone`, `TaskCancelled` | the caller goes on with its view, or is cancelled |
| `Take` | `queue.get()` to `graph.run()`, with the `get_record()` outside the `try` |
| `SetStage` | the stage callback in the pipeline |
| `Finish` | complete/fail and the `finally` block; without a history straight on to routing |
| `HistoryCommit`, `AfterSave` | the transaction inside `save_analysis()`, and its return (or logged error) followed by `Route` |
| `CallbackReturns` | the end of `try_send()` |
| `Read`, `Janitor`, `TtlPasses` | lookups, the periodic prune, the clock |
| `Stop`, `Restart` | `stop()`; a new process after it or after a crash |

An outcome of the pipeline is just COMPLETED or FAILED. An `asyncio` waiter
whose future is set resumes in a later step (`answer`). A consumer ended by an
exception is `dead`.

### Kafka

Offsets count from 1; `fetched` is the position and `committed` the broker's
offset. `events` is the completed topic as a set: duplicates of one event look
the same, as their uuid5 message id does. Failures that change nothing (a
malformed record, a conflict) are no step: the worker just tries again. A commit or
publish that raises may or may not have taken effect. A revocation cancels a
worker wherever it is. Handlers of a partition are the tasks of the runtime.

The completed event repeats the request's ids and is not modelled further; a
malformed record stands for every contract error.

### Recipe jobs

The table is `records` with the index `byRequest`, `completedAt` for the order
in which results age, and `aged` for those past their TTL. `lock` is the
asyncio.Lock around `submit()`. Clients of HTTP and the workers of the topic
are both callers, for both run `submit()`.

| Action | Code |
| --- | --- |
| `Ask`, `Hit`, `FromHistory`, `QueueFull`, `LookupFails`, `New` | `submit()`, split at the lock and at `history.by_request()` |
| `Read` | `get()` |
| `Take`, `Finish`, `Saved`, `Called` | `_consume()` and `_finish()` with the awaits of save and callback between them |
| `Recheck`, `SaveView`, `WorkerFails`, `Publish`, `PublishFails` | `submit_and_wait()` and the topic's handler after it |
| `Poll`, `Commit`, `CommitFails`, `Revoke`, `Assign` | `PartitionConsumer` |
| `Stop`, `FinishInterrupted`, `NewProcess` | `stop()`, what it leaves to unwind, and the next process |

The history maps a requestId to the job whose result is its row; a row once
there stays: the insert is `ON CONFLICT(job_id) DO UPDATE`, which writes a job's own
snapshot again, and the unique requestId refuses another job's. An event is a record and the job it
names, so that a result under the wrong requestId shows.

### Inference

A call waits in the order of arrival for an inference slot, then an OCR slot,
then an LLM slot, and gives each back in the `finally` of its block; crop calls
run beside each other under slots of their own. `Rent`, `Read`, `AskModel`,
`Judge`, `Detect` are the phases of `infer()`; `Lost` is a crash of the Pod,
`Timeout` the client's cancellation. The control script is one actor that goes
through start, stop, migrate or deploy step by step and may die in any of them.
What it is told need not be what RunPod did: a start is refused (`StartRefused`), or
takes effect while an error is reported (`StartUnheard`: a lost response, a poll that
fails or sees RUNNING too late), and the termination of a source likewise
(`TerminateUnheard`). A 200 whose body cannot be read (`Unreadable`) ends the
attempt as DependencyUnavailable, so that the graph may post the photo again. The client keeps an address with an age, asks for
it under a lock, and counts posts; recipe calls carry a budget that loses time
while they wait.

### Recommendations

A load bears the name of the caller that started it. `Start` is `recommend()`
up to the cache, `Found` and `Attached` the reading of the stores and all that
follows without an await, `Slot`, `Answered`, `Failed` the rank, `Replenishes`,
`PageRead` and `Supplied` the search for recipes, `Deliver`, `Abandon` and
`Unwound` the callers' side of `get_or_load()`. The supply in the background is
one more supplier, `Later`.

Abstractions: names are canonical; what a text can prove is a constant, one
quote per tag; the score that orders equals is a fixed rank; context factors
are one boolean; the retry of a transient failure is part of the call; needed
amounts are whole numbers. A page is one of three kinds: sections the rules can
read, prose only the model can, several recipes in one; pages the rules can
read need no reading to wait for. The waiters of a page go on in the step that
ends its reading. The cache of search hits, which only repeats an answer, and
`close()` are left out.

### Receipts

A photo is a set of printed lines with places and widths; `ReceiptRows` turns
them into rows as `receipt_rules.py` does, `WorkerReading` adds the second
reading, the boxes and the answers of the classifier, `ReceiptItems` decides
per item. Names are sequences of words, similar when they are equal after one
correction, a word counts as two letters. What the OCR and the classifier
return is a parameter of the photo. Since nothing concurrent affects them, the
worker's answer and the reading before the first lookup are computed once per
photo (`Taken`); the interleavings are those of the lookups, the cache and the
feedback transactions. Dates, shelf life and the package count of single crops
are left out; only the parallel product path, the default, is modelled. Locks
are advisory locks in one space, as in the code; two different keys do not
collide. PostgreSQL would end a deadlock by aborting a transaction; the model
lets it wait, so that the order of the locks is what excludes it.

## 3. Runs

| Run | Instance | Shows |
| --- | --- | --- |
| `runtime_capacity` | 3 ids, 3 requestIds, queue 1, table 2, 1 consumer, 2 handlers | TypeOK, IndexExact, ConsumersSurvive, WaiterIsOwed, StoreBounded |
| `runtime_live` | 2 ids, 3 requests of 2 requestIds (a conflict), 2 consumers, fair | OneRunPerRequest, WorkIsStored, ImplementsDelivery, EveryAnalysisEnds, EveryWaiterLeaves |
| `kafka_safety` | one partition q1 q2 q1, 2 faults, HTTP clients | PublishedIsRight, NothingSkipped, NoOvertaking, SameResultWhileStored |
| `kafka_live` | two partitions, a malformed record, a conflict, 1 fault, fair | EveryRecordIsCommitted |
| `small_table` | table of one | violates ConsumersSurvive |
| `two_channels` | HTTP and Kafka for one request | violates ReportedOnce |
| `recipe_jobs` | 3 jobs, log q1 q2 q1', 2 clients, queue 1, table 3, 1 consumer, 1 fault, fair | OneJobPerRequest, NoJobIsLost, ClaimedIsCalledBack, CommittedIsSaved, PublishedIsRight, ImplementsOutcome, EveryRecordIsCommitted |
| `inference` | 7 scenes of at most two calls, 3 Pods, 2 inference, 1 OCR, 1 LLM and 2 crop slots, 3 crops, fair | SlotsFollowWork, ReasoningEndsFirst, RepeatsAreJustified, RepostIsRediscovered, RemovalLosesNothing, EveryCallEnds |
| `recipe_service` | 3 callers, 5 dishes, scenes Outage, Sharing, Searching, Crisp, Classes, Rain, Empty, Pages, Salty and 96 stocks, fair | ProbeIsAlone, PreferenceHonoured, PinnedIsJudged, StockIsSharedFairly, UrgentFoodIsShown, WaitedLoadsGoOn, EveryRecommendationEnds |
| `receipts` | about 200 photos alone, 4 stories of two analyses and two feedback requests, cache of 2, fair | ItemsAreTrue, ProductsAreKept, CorrectionsStayHome, FeedbackCountsOnce, EveryCorrectionCounts |
| `late_save` | two consumers, one requestId | violates HistoryKeepsCurrent |
| `recipe_stop` | one client, stop during the save | violates StopKeepsWork |

Bounds. The supply of ids bounds a run: an id is never drawn twice, so the
number of accepted analyses is bounded and nothing else needs a counter except
`MaxFaults`. Three requestIds against a table of two force eviction by capacity
while another analysis runs and a third is refused by the full queue; this is
the tightest table the sizing assumption `Sized` allows. Two consumers and two ids
suffice for two saves, two routings and shutdown to interleave. The log q1 q2 q1
lets a result be asked for again after another record and after expiry. The
proofs remove the bounds for the safety properties.

In `recipe_jobs` the third record reuses the first one's requestId, which gives
a conflict with a live job, a stored result and a row of the history; a queue
of one and three ids let a request be refused and come again. In `inference` a
scene fixes the calls, the Pods there are, and how many faults, scripts and
expiries may happen: two calls and one slot of the inner kinds are enough to
wait inside a wait, three Pods to have an old, a new and a stopped one;
`MaxPosts` 6 is the most the code can use, three posts in each of two attempts,
so it names the posts and cuts nothing off. The budget of 4 leaves room to run out before, between and during
posts. The scenes of `recipe_service` and `receipts` replace one large instance
in which everything may happen by many in which one thing may; a threshold of one,
one kept result, a window of two and three candidates make the limits bite.

Deadlock is checked in the analysis runs: `Restart` and reads are always
possible. In the other runs it is not: a stopped recipe service whose restarts are
used up, and clients and scenes that come once, may come to an end. There the
liveness properties exclude that anything ends too early.

Fairness. A runnable coroutine runs, and every call a consumer awaits returns: the
pipeline's calls and the callback have timeouts. `save_analysis()` has none, so
that it returns or raises is an assumption about PostgreSQL and its driver. So
consumers are weakly fair in `Take`, `Finish`,
`AfterSave`, `CallbackReturns`. Clients, the clock, stop and crash are not
fair. In the Kafka run the retry loops, the group's assignment, the TTL and the
janitor are fair as well, because a record that conflicts with a stored result
goes through only once that result is gone; faults are bounded.

`recipe_jobs` is fair in the same way; what waits for the lock of `submit()`
(the workers' `Ask`, `Hit`, `New`) is strongly fair, because asyncio.Lock serves in the
order of arrival. `inference` is weakly fair in every step that is not a fault,
an expiry or a new script. `recipe_service` and `receipts` are weakly fair in
the steps of the event loop and the database; `Ready`, `AnalysisReady`,
`FeedbackReady` and `TimeReady` are their ENABLED written out.

### Disagreements found

1. `small_table`: `config.py:33` accepts a result table smaller than queue plus
   consumers. Then the record that just finished can be pruned at once and
   `get_record()` in the `finally` block (`runtime.py:235`) raises out of
   `_consume`, which the comment at `runtime.py:261` wants to prevent. With
   the default sizes it cannot happen, and the theorem says exactly when.
2. `two_channels`: `docs/kafka.md:6` says no HTTP callback duplicates a Kafka
   completion before delivery; the claim window closes before the callback is
   sent (`runtime.py:252`), so a record that arrives meanwhile is published too.
3. `late_save`: `save_analysis()` deletes every other row of the requestId, so
   an older analysis saved late replaces the newer one
   (`feedback_repository.py:22-27, 98`).
4. `recipe_stop`: the comment at `jobs.py:43` says work left at an orderly
   shutdown is kept in the history as failed; a consumer cancelled inside
   `_finish()` has already ended its job, and `stop()` no longer looks at it.

Things met while modelling that no run refutes, for whoever changes this code:

- **Recipe jobs.** With two consumers and a table at its minimum, `_prune()`
  can drop a result that is still being saved; the request is then accepted
  again under a new jobId (against `recipe_async_api.md:56`), the history keeps
  the first result and both are called back.
- **Shared loads** (`result_cache.py:69-74`, `source_processing.py:75-84`). A
  caller that joins a load while the cancelled task unwinds gets its
  CancelledError; in a recipe job this ends the consumer. The flight is then
  popped by key, which may be a newer one, so a key can be loaded twice
  although the comment at `result_cache.py:48` says once. A cancellation that
  arrives while the leaver awaits the task it has cancelled is swallowed by
  `except CancelledError: pass`, and a load that should end goes on. A page
  remembered as unavailable makes every search that meets it report
  WEB_SEARCH_UNAVAILABLE for 15 seconds without a call.
- **Tags a profile overlooks** (`planning.py:114-115`). `recipe_async_api.md:128` keeps
  NOT_MATCHED for what was judged and UNKNOWN for what was not, and the comment at
  `planning.py:149` keeps candidates outside the window UNKNOWN. A stored profile with
  a verdict on one tag of the request makes `hydrate()` count the recipe as evaluated
  for all of them, so a tag it does not name comes out as NOT_MATCHED though no
  model judged it: the call failed, the circuit was open, or the recipe was outside the
  window. `PreferenceHonoured` says of every mismatch that it was judged or refuted
  by a stored fact, except on such a tag (`Overlooked`). Without the exception TLC
  finds it violated in the scene Crisp, after a call that fails.
- **Starts that were not heard of** (`control_runpod.py:209-212`). The comment at lines
  226-227 says a Pod that already runs is not migrated. The handler takes any error for
  a start that failed, also when RunPod has started the Pod. Line 192 then terminates
  the source without another look, though it may have become ready and serve
  requests. `RemovalLosesNothing` excepts exactly this Pod (`RunsStill`). Without the
  exception TLC finds a serving source removed.
- **Pods.** When `migrate()` times out waiting for the new Pod, `start()`
  migrates again: two Pods of one version, which `current_pod` and the
  discovery refuse (against the comment at `control_runpod.py:226-227`).
- **Client.** `docs/deployment.md:24-26` says a failed post is rediscovered
  once; two causes add up to twice. The last post's failure does not invalidate
  the address. A 4xx of the discovery's own listing becomes InvalidRequest.
- **Worker** (`engine.py:289`). `gather` raises with the first failing crop: the
  LLM slot is released while other crop calls go on, against the comment at
  `engine.py:65`.
- **Receipts.** A restaurant row `2 Lunch` with an amount gets quantity 1, for
  the amount rule comes before the prefix rule (against the comment at
  `receipt_rules.py:363-364`). A discount that still divides makes the price
  ratio override the quantity read (comment at 606-607). A numbered receipt of
  one row keeps its numbers only within 1.4 line heights. Candidates of the
  classifier land on a standalone "001" line while the row goes by the name's
  line, and are dropped. When the worker's only anchor is a metadata line, the
  pipeline falls back to lines the model was never shown. Main and supplemental
  rows may read the same numbers. Several packages with fewer than two boxes
  yield one candidate. More than 20 unresolved foods fail the answer's
  validation and with it the analysis.
- **Feedback.** The refrigeratorId of a request is not compared with that of
  its analysis. A loader that read before a correction and stores after
  `forget()` keeps the old value for the TTL; the comment at `_cache.py:14-16`
  rests on one analysis at a time, and the default is two.

## 4. Proofs

Assumptions: `StoreAssumption`, `FiniteIds`, `RuntimeAssumption`,
`KafkaAssumption`, and those named below, all evaluated by the runs. Nothing else is taken on trust.

**Runtime.** The safety properties are not inductive. `IInv` adds to the types:

- `TableInv`: what is stored is live or final, live work is stored, only
  stored terminal records are expired, and the index is exact. It needs the live part
  because pruning must be known to spare live records, and the exact
  index because `remove()` pops by requestId;
- `WorkInv`: the queue holds distinct QUEUED ids, running consumers hold
  distinct PROCESSING ids, and saving ones distinct final ids;
- `RouteInv`: claims are pending, and what is queued or held is pending and
  not yet reported. It is what makes every report the first.

`InvariantHolds` proves it by one lemma per group of actions over lemmas about
the store's operators. Each theorem reads its property off `IInv`:
`TypeCorrect`, `IndexIsExact`, `WorkStaysStored`, `RequestsRunOnce`.
`SizedConsumersSurvive`, `SizedWaitersAreOwed` and `SizedStoreIsBounded` assume
`Sized` (table at least queue plus consumers) and count: the unfinished records
of a running process are in the queue or with a consumer (`LiveBound`), so the
table always has room for one that just finished (`FinishedRecordSurvives`), and
an insertion that makes one record too many finds a finished one. The limit
needs `RoomInv` too: the order of the table never runs in a circle, so the
finished records have an oldest, which `prune()` removes (`HasOldest`,
`KeptFits`).

**Refinement.** `RuntimeImplementsDelivery`: every step is a step of
`AnalysisDelivery` or leaves its variables alone, with no sizing assumption.

**Kafka.** `KInv`: the position is at most one ahead of the committed offset
and equal to it when an assigned partition is idle; what a worker waits for or
was given is an analysis of its own record; a worker that commits has
published. It rests on two facts about the runtime: requests and final
statuses never change (`NextStable`), and handlers are only ever given the
finished analysis they wait for (`RestServes`). `KafkaUsesRuntime` shows the
composition implements the runtime's specification, and `EventsAreRight`,
`CommittedIsPublished` and `PartitionOrder` the three safety properties.
`SameResultSpec` adds `SameInv`: what a worker waits for or was given is the
analysis already published for its record, if that is still stored. A pruned
record never comes back (`NeverReturns`), so the submission that started the
wait met the same table entry. It assumes `OnePartition`, that equal requests are in one
partition, which the key of the topic, the userId, justifies. The assumption is
needed: with one request in two partitions TLC lets a worker publish an analysis
that was pruned while `send_and_wait()` ran, after the other partition published
the analysis that replaced it.

**Circuit.** `CInv` is the type invariant with `ProbeIsAlone`, which is
inductive: a call's ticket carries the generation it was let through in, every trip
starts a new one, and only a ticket of the current generation can be the probe.
`CircuitTypeCorrect` and `CircuitProbesAlone` hold for any set of calls and any
threshold.

**Recipe jobs.** Assumptions: `JobsAssumption`, and `RoomAssumption`, which is
config.py's minimum of 105 entries for 100 queued and 4 running jobs. `IInv` is
the conjunction of

- `TypeInv`; `JobInv`: a created job keeps its request, and a row of the history
  is the final job of its requestId;
- `TableInv`, `TimeInv`: table and index agree, and `completedAt` tells exactly the
  stored jobs that have ended, for `_prune()` goes by it;
- `LockInv`: who waits for the history holds the lock, nobody else has
  submitted that requestId meanwhile, and a row it was given is still there; so `New`
  creates the only job of its requestId;
- `WorkInv`, `ClaimInv`, `StopInv`: consumers run distinct jobs that are in
  memory, a job a client was given is not left to Kafka, a stopped service is
  at rest;
- `WorkerInv`, `EventInv`: a worker has a job of its own record in hand, and what
  it publishes is the row of the history.

Room is counted: live jobs are in the queue or with a consumer (`LiveBound`), so
a full table holds an ended one, one of them the oldest (`EndedHasOldest`, by the
well-foundedness of the naturals), pruning makes room (`PruneMakesRoom`) and the table never outgrows its
limit. From `JobsInvariant` follow `OneJobHolds`, `NoJobLostHolds`,
`ClaimedCalledBackHolds`, `CommittedSavedHolds`, `PublishedRightHolds`.
`JobsImplementOutcome` is the refinement: a step that fills a row of the history
is `Settle`, one that publishes an event is `Announce`, all others stutter.

**Inference.** Assumptions: `WorkerAssumption` (slots are positive, requests and
Pods finite), `RemoteAssumption` (the three kinds of caller are different, and a
margin smaller than the budget), `GraphAssumption`, `SceneAssumption` (a scene
starts with Pods that are ready only when they run). `InferenceInv` proves
`IInv == WorkInv /\ PodInv /\ NetInv`:

- `WorkInv`: `SlotInv` says of each semaphore that it is not overdrawn, that nobody
  stands in it twice and that nobody waits beside a free slot, so a slot given back must
  go to the first who waits; `PlaceInv` ties holders and waiters to the phase and the
  Pod of their request, and every request at work to its inference slot;
- `PodInv`: who is at work is served by a Pod that is ready (`ServeInv`), and what the
  script saw before its last call to RunPod still holds at the next
  (`ScriptInv`): the source exists, it and the target are two, and the target's
  version is the next one. It does not say that the source of a migration is stopped, for
  it need not be. Stopping and removing are safe only because of the two together, and
  the removal of a source that runs is what `RemovalSpec` has to except;
- `NetInv`: `CallInv` follows one call: its posts are counted against the stage of
  its attempt, the first answer that is read ends it, and a call that failed is *suspect* until
  a worker was seen ready since. That must be said for every place between failure and
  post: in the lock's line it still insists on a new address, and what it finds
  cures it only if found since. `LineInv` makes the discovery lock a queue of
  those that seek, its holder first. `ClockInv` bounds the worker's remaining time,
  with the way there, by the caller's.

From it follow `SlotsSpec`, `ReasoningSpec`, `RepeatsSpec`, `RepostSpec`,
`DiscoverySpec` (one caller of a client at a time lists and asks) and, as an action property from the same
invariant, `RemovalSpec`.

**Receipts.** Assumption: `ReceiptsAssumption` (a request has entries and names an
analysis there is; what is stored at the beginning of an analysis is of one
request). The photos, the catalog and what the worker makes of them are arbitrary.
`ReceiptsInv` proves `Shapes /\ FeedbackInv /\ CacheInv /\ HomeInv`:

- `FeedbackInv`: an advisory lock has one holder; a transaction holds the lock of its
  analysis, which is done, so the learning keys it computes do not change under it; its
  keys are held or still to be locked; at commit all are held, and what was
  absent then is absent still, so the unique index never refuses; after the second look no
  row of the analysis is there, and every answer tells of one that is;
- `CacheInv`: the lookup cache is a dictionary of bounded size;
- `HomeInv`: every correction is backed by a row of its fridge, and what is cached,
  being loaded or already matched was learned from the fridge of its key, which is the
  context of the analysis.

From it follow `FeedbackSpec`, `CorrectionsSpec` and `CacheSpec`. The order of the keys
does not matter for these: it excludes the deadlock, which is EveryCorrectionCounts.

A second invariant, `LookInv`, says what a lookup may answer, whatever was cached,
evicted, expired, corrected or forgotten on the way: a correction the analysis's own fridge
gave for the very text, else an exact entry of the catalog, else, where there is none, a
similar one, else nothing; nothing otherwise only if the database failed. What is
cached is one of these for its key, what is loaded or matched one for the analysis's
own text. `ItemsSpec` follows: a finished analysis has one answer to each of its
texts, in their order, and its items are what `Items` makes of its photo and of those.
It takes the interleavings out of ItemsAreTrue and ProductsAreKept: what stays
with TLC is what `Items` computes, without further steps, from a photo and such answers.

**Recipe operators** (`RecipeStockProofs`). What the code computes in loops is a
fold over a list in the model. A fold is a chain of intermediate results, so each
loop gets an invariant of its own, and the naturals carry it from end to end.
Assumptions: `RankAssumption` (identities are compared as strings, no two the same),
`RecipeAssumption` (a snapshot's amounts and servings are positive or unknown), and,
of a request, `IsRequest`: what `RecommendationRequest` validates.

- Sorting: `Best` exists and is unique, for keys are compared position by position and
  end in a place no two share; so `Sorted`, `Kept` and `Ordered` hold each element
  once. `SelectedIn` says the choice picks what may be picked.
- `AllocationFair`: what a line got is what its lots lost (`FairSoFar`, kept by
  `LineKeepsFair`), within a line by the sums over its lots; a later lot is drawn from
  only if the earlier ones of its unit are empty, and they stay empty.
- `RepresentativeIs`: while a food is open, each row chosen covers a new one
  (`CoverProgress`), so as many steps as there are foods cover them all; the
  second loop and the rest only add rows (`FillAllIs`). `ShortlistIs` puts the
  order of the preferences before it.

**Recipe service.** Assumption: `ServiceAssumption` (finitely many callers, one
supply in the background besides those of the loads, room for a result: config.py's
minimum is 1). Recipes, requests, scenes and every bound are arbitrary.
`ServiceInv` proves `Shapes /\ WaitInv /\ LinkInv /\ StoreInv /\ ReadInv`:

- `Shapes`: the records have their fields, and a load with a rank that failed has a warning
  of it. That is what makes the warnings, all that `_load()` looks at, tell
  whether a judgement is missing; it must survive the search, the second rank and
  the stored verdicts, so `GoesOn` says what each computation between two awaits keeps;
- `WaitInv`: `waiters` is the number of callers that wait, so the one that finds it
  at 1 is the last, and a caller that has not asked has no load yet;
- `LinkInv`: only a load that calls the model has a ticket, and only one that waits
  for a supply has it running; so a load that gets a slot asks the circuit without one;
- `StoreInv`: what is stored is a finished load without a failed rank, and finished
  loads do not change;
- `ReadInv`: a reading has its own id. Two readings of one page, one of them
  cancelled and off the list, would otherwise be the same to whoever waits.

`Sustained` says of every step that it keeps all this, takes a step of the circuit or none, and cancels only what nobody
waits for. From it follow `ServiceUsesCircuit` (the service implements the
specification of the circuit), hence `ServiceProbesAlone`, and `PinnedSpec` and `WaitedSpec`.

What it recommends is a second invariant, `ServiceData`, which builds on the first.
It assumes those of the operators, `TasteAssumption` (a stored profile holds a verdict on
every taste, as `validate_profile` requires) and `SceneAssumption` (requests are valid
and sources hold recipes). `DataInv` is the conjunction of

- `SceneInv`, `SourceInv`, `AskInv`: what is asked, stored, searched and read is made of
  valid requests and of recipes, so the lemmas about the operators apply;
- `Decisive`: what is remembered of a recipe and a set of tags is supported by its
  text, and a set that is not complete is there only because somebody judged the
  recipe for exactly these tags. This is what lets verdicts be shared by requests;
- `Right` of every load, which is `Holds` (its rows may be used, its window is among
  them), `Firm` (each verdict of its ranker is supported, vague or explained: refuted, on a
  tag the profile overlooks, or on an attribute tag, which the stored facts decide), `Timely`
  (until a search brings more rows, the shortlist represents all rows), and of a
  result that it is shared fairly and `Honoured`.

`Firm` does not hold in the middle of a step: after a rank a tag may be neither
proven nor refuted because the stored profile has still to speak. `Soft` is what holds
there, and `hydrate()` makes it firm again. One lemma per action (`StartData`,
`AnsweredData`, ...) shows that `DataInv` is kept. From it follow `SharedSpec`,
`UrgentSpec` and `HonouredSpec`, whose mismatches are refuted or overlooked.

Only model-checked: liveness (EveryAnalysisEnds, EveryWaiterLeaves,
EveryRecordIsCommitted, EveryCallEnds, EveryRecommendationEnds,
EveryCorrectionCounts: fairness is beyond the prover); ItemsAreTrue and
ProductsAreKept, which compare what several nested folds and recursive functions
make of a photo with what is printed on it, for the layouts the run lists and not for
every layout (section 3 tells of some that are misread); and the four violations.

## 5. Plan

Done: the analysis and recipe services with their Kafka boundary, the inference
path down to the Pods, the recommendation, the receipt pipeline and the
feedback; proofs for the runtime, the Kafka topic, the circuit, the recipe
jobs, the inference path, the recipe service, what it recommends, and the feedback. Next, in order:

1. The feedback topic on `PartitionConsumer`, around the same handler.
2. The attempts and the backoff of the callbacks.

## 6. Not modelled

- The feedback topic: a third use of `PartitionConsumer`, whose handler is modelled
  in `Receipts`.
- The attempts of the HTTP callbacks: one call that returns stands for them.
- The shelf-life rules and the lazily made pool: they only read.
- OCR, detection and language models, the web and its pages' text: external;
  what they answer is a parameter or a choice.
- `_merge_crop_ranges` in `ocr.py`: the second reading returns lines for the gaps it is
  asked for, whether their crops were joined or not.
- Dates, names and reasons as text; prompts; parsing and quoting.
- Database migrations and scripts, settings, logging, metrics, health endpoints
  beyond the worker's readiness.
- aiokafka, modelled only from how the adapters use it: positions, manual
  commits, pause, rebalance callbacks. Several server processes: the code runs
  one.
