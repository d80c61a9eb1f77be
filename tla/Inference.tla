----------------------------- MODULE Inference -----------------------------
(***************************************************************************)
(* Analyses and recipe calls from the backend to the GPU workers:          *)
(* AnalysisGraph (fastapi/app/analysis_graph.py) repeats an analysis that  *)
(* failed, RemoteInference finds a worker and posts, GpuWorker serves      *)
(* what arrives, and PodControl starts, migrates and stops the Pods.       *)
(*                                                                         *)
(* A scene says which calls are made, which Pods there are and how many    *)
(* faults, script runs and expiries are explored.                          *)
(***************************************************************************)
EXTENDS RemoteInference

CONSTANTS
    RetryCount,     \* analysis_retry_count
    Scene           \* the situations explored

ASSUME GraphAssumption ==
    /\ RetryCount \in Nat
    /\ MaxPosts = 3 * (RetryCount + 1)

\* A worker is ready only while its Pod runs.
ASSUME SceneAssumption ==
    \A s \in Scene :
        /\ s.fixed \in Pod \cup {None}
        /\ s.pods \in [Pod -> [status : Status, version : Nat, ready : BOOLEAN]]
        /\ \A p \in Pod : s.pods[p].ready => s.pods[p].status = "RUNNING"

VARIABLES
    scene,
    spent           \* faults, script runs and expiries so far

allVars == <<scene, spent, remoteVars>>

Init ==
    /\ scene \in Scene
    /\ spent = [faults |-> 0, runs |-> 0, expiries |-> 0]
    /\ fixed = scene.fixed
    /\ pod = scene.pods
    /\ script = IdleScript
    /\ RemoteInit /\ WorkerInit

Free == UNCHANGED <<scene, spent>>
Fault == /\ spent.faults < scene.faults
         /\ spent' = [spent EXCEPT !.faults = @ + 1] /\ UNCHANGED scene
Run == /\ spent.runs < scene.runs
       /\ spent' = [spent EXCEPT !.runs = @ + 1] /\ UNCHANGED scene
Expiry == /\ spent.expiries < scene.expiries
          /\ spent' = [spent EXCEPT !.expiries = @ + 1] /\ UNCHANGED scene

\* Mutant form: any error is retried.
MayRetryAny(c) == call[c].pc \in {"down", "bad"} /\ call[c].tries <= RetryCount

\* _route_after_analysis(): DependencyUnavailable is retryable, InvalidRequest is not.
MayRetry(c) == call[c].pc = "down" /\ call[c].tries <= RetryCount

\* _retry_wait(), and the pipeline runs once more.
Retry(c) ==
    /\ c \in Analysis /\ MayRetry(c)
    /\ Seek(c, [Quiet EXCEPT !.tries = call[c].tries + 1])
    /\ suspect' = [suspect EXCEPT ![c] = FALSE]
    /\ UNCHANGED <<fixed, addr, fresh, posted, clock, podVars, workerVars>>

\* What the code does without anything going wrong.
CallStep(c) ==
    \/ c \in scene.calls /\ Begin(c)
    \/ Retry(c)
    \/ Acquire(c) \/ List(c) \/ Probe(c) \/ Found(c) \/ NoneReady(c)
    \/ BudgetGone(c) \/ Assign(c) \/ Deliver(c) \/ HealthAnswer(c)
    \/ NoWorker(c) \/ Answered(c) \/ GivesUp(c)

\* Only photos of products go to the detector.
Photo(r) == r[1] \in scene.photos
WorkerStep(r) ==
    \/ Load(r) \/ Rent(r) \/ Read(r) \/ AskModel(r) \/ CropEnds(r)
    \/ ~Photo(r) /\ Judge(r)
    \/ Photo(r) /\ Detect(r)

WorkerFault(r) == LoadFails(r) \/ ReadFails(r) \/ JudgeFails(r) \/ CropFails(r)

ScriptStep ==
    \/ Started \/ Rename \/ TargetReady \/ ReadySeen
    \/ \E t \in Pod : Migrated(t)

ScriptTrouble == StartRefused \/ StartUnheard \/ MigrationFails \/ TerminateUnheard \/ ScriptDies

\* What goes on by itself: calls, time and the workers.
System ==
    \/ \E c \in Call : CallStep(c)
    \/ Tick
    \/ \E c \in Reasoning : BudgetEnds(c)
    \/ \E r \in Req : WorkerStep(r) /\ UNCHANGED <<netVars, podVars>>

Next ==
    \/ Free /\ System
    \/ Free /\ ScriptStep /\ UNCHANGED netVars
    \/ Free /\ \E p \in Pod : Warm(p) /\ UNCHANGED netVars
    \/ Expiry /\ \E k \in Client : TtlPasses(k)
    \/ Run /\ \E p \in Pod : (StartRunning(p) \/ StartStopped(p) \/ Stop(p) \/ Deploy(p)) /\ UNCHANGED netVars
    \/ Fault /\ \E c \in Call : ListFails(c) \/ Impatient(c) \/ Unreadable(c)
    \/ Fault /\ \E r \in Req : WorkerFault(r) /\ UNCHANGED <<netVars, podVars>>
    \/ Fault /\ ScriptTrouble /\ UNCHANGED netVars
    \/ Fault /\ \E p \in Pod : Reset(p) /\ UNCHANGED netVars

Spec == Init /\ [][Next]_allVars

\* Something that can go on does; as each call, request and clock takes finitely
\* many steps, all of them come to their end.
Fairness == WF_allVars(Free /\ System)

FairSpec == Spec /\ Fairness

----------------------------------------------------------------------------
(* Properties *)

\* The semaphores of a worker and the work agree, however a request ends: a
\* request that is over holds and awaits nothing, one at work has its inference
\* slot, nobody holds more than there is, and nobody waits for a free slot.
SlotsFollowWork ==
    \A p \in Pod, k \in Kind :
        LET s == sem[p][k] IN
        /\ Cardinality(s.held) <= Slots[k]
        /\ s.queue # << >> => Cardinality(s.held) = Slots[k]
        /\ \A r \in s.held \cup Range(s.queue) :
            /\ at[r] = p
            /\ CASE k = "inference" -> phase[r] \in Active
                 [] k = "ocr" -> phase[r] = "ocr"
                 [] k = "llm" -> phase[r] \in {"llm", "crops"}
            /\ phase[r] \in Active \ {"queued"} => r \in sem[p]["inference"].held

\* When the planner has given a recipe call up, the worker's own time for it is
\* over: a call nobody waits for keeps no slot any longer.
ReasoningEndsFirst ==
    \A c \in Reasoning : call[c].pc \in Ended /\ Working(c) => clock[c].worker = 0

\* A photo is posted again only after a connection error, a timeout, a 5xx or a
\* body that could not be read, the last in a new attempt alone; never after an
\* answer that was read or a refusal; and at most three times an attempt.
RepeatsAreJustified ==
    \A c \in Call :
        /\ Len(posted[c]) <= 3 * call[c].tries
        /\ Running(c) /\ call[c].stage # "first" => Last(posted[c]) \in {"lost", "5xx"}
        /\ \A i \in 1 .. Len(posted[c]) : posted[c][i] \in {"ok", "4xx"} =>
            i = Len(posted[c]) /\ call[c].pc \in {"ok", "bad"}
        /\ c \in Analysis /\ call[c].pc = "ok" => Last(posted[c]) = "ok"

\* Within an attempt, a post that failed is repeated only to a worker that was
\* seen ready after the failure, whatever other callers cached meanwhile.
RepostIsRediscovered ==
    \A c \in Call : call[c].pc = "send" => ~suspect[c]

\* The source of a migration that is complete, and that runs all the same, for its
\* start took effect though the script was told of an error: whatever it serves ends
\* with it, against the comment at control_runpod.py:226-227.
RunsStill(p) == script.step = "target" /\ p = script.of /\ pod[p].status = "RUNNING"

\* The script removes a Pod only once a newer one answers as ready, and only if
\* it serves nothing, but for the running source of a migration.
RemovalLosesNothing ==
    [][\A p \in Pod : pod[p].status # "gone" /\ pod'[p].status = "gone" =>
            /\ RunsStill(p) \/ \A r \in Req : at[r] = p => phase[r] \notin Active
            /\ \E q \in Pod : pod[q].ready /\ pod[q].version > pod[p].version]_allVars

\* Every analysis, recipe call and health check that begins ends, whatever
\* fails in between and whoever holds the discovery lock.
EveryCallEnds ==
    \A c \in Call : (call[c].pc # "idle") ~> (call[c].pc \in Ended)
=============================================================================
