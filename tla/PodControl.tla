----------------------------- MODULE PodControl -----------------------------
(***************************************************************************)
(* The RunPod Pods and .github/scripts/control_runpod.py, which starts and *)
(* stops the newest of them and, when it does not start, migrates it to    *)
(* another machine under the next version.  One run of the script at a     *)
(* time: the workflows share a concurrency group.                          *)
(*                                                                         *)
(* What RunPod does (a Pod warms up, is reset, is refused a GPU, a         *)
(* migration ends) is a choice.                                            *)
(***************************************************************************)
EXTENDS GpuWorker

VARIABLES
    pod,            \* Pod -> status, version (0: not named yet), ready
    script          \* step of the run, its Pod, the migration's target, tries

podVars == <<pod, script>>

Status == {"none", "EXITED", "RUNNING", "gone"}
IdleScript == [step |-> "idle", of |-> None, target |-> None, tries |-> 0]
MigrationTries == 3

\* list_managed_pods(): those whose name ends in a version.
Managed == {p \in Pod : pod[p].version > 0 /\ pod[p].status \in {"EXITED", "RUNNING"}}

\* current_pod() raises unless this is a single Pod.
Newest == {p \in Managed : \A q \in Managed : pod[q].version <= pod[p].version}

\* Mutant form: the status is not looked at.
ObsoleteRunning(p) == {q \in Managed : q # p}

\* Older stopped Pods, which a successful start removes.
Obsolete(p) ==
    {q \in Managed : pod[q].version < pod[p].version /\ pod[q].status = "EXITED"}

Without(S) == [p \in Pod |-> IF p \in S THEN [pod[p] EXCEPT !.status = "gone", !.ready = FALSE] ELSE pod[p]]

----------------------------------------------------------------------------
StartRunning(p) ==
    /\ script.step = "idle"
    /\ Newest = {p} /\ pod[p].status = "RUNNING"
    /\ script' = [IdleScript EXCEPT !.step = "ready", !.of = p]
    /\ UNCHANGED <<pod, workerVars>>

StartStopped(p) ==
    /\ script.step = "idle"
    /\ Newest = {p} /\ pod[p].status = "EXITED"
    /\ script' = [IdleScript EXCEPT !.step = "starting", !.of = p]
    /\ UNCHANGED <<pod, workerVars>>

\* pod_action() is accepted and wait_status() sees RUNNING.
Started ==
    /\ script.step = "starting"
    /\ pod' = [pod EXCEPT ![script.of].status = "RUNNING"]
    /\ script' = [script EXCEPT !.step = "ready"]
    /\ UNCHANGED workerVars

Migrating == [script EXCEPT !.step = "migrating", !.tries = 1]

\* No GPU is free: the script turns to migration.
StartRefused ==
    /\ script.step = "starting"
    /\ script' = Migrating
    /\ UNCHANGED <<pod, workerVars>>

\* RunPod starts the Pod, but the script is told of an error, or a poll of
\* wait_status() fails or sees RUNNING too late: the same handler turns to
\* migration.  (A start that takes effect later yet leads to the same states.)
StartUnheard ==
    /\ script.step = "starting"
    /\ pod' = [pod EXCEPT ![script.of].status = "RUNNING"]
    /\ script' = Migrating
    /\ UNCHANGED workerVars

\* COMPLETED: the target runs under a name of RunPod's.
Migrated(t) ==
    /\ script.step = "migrating" /\ pod[script.of].status # "gone"
    /\ pod[t].status = "none"
    /\ pod' = [pod EXCEPT ![t].status = "RUNNING"]
    /\ script' = [script EXCEPT !.step = "renaming", !.target = t]
    /\ UNCHANGED workerVars

Rename ==
    /\ script.step = "renaming"
    /\ pod' = [pod EXCEPT ![script.target].version = pod[script.of].version + 1]
    /\ script' = [script EXCEPT !.step = "target"]
    /\ UNCHANGED workerVars

\* The source is terminated only when the target answers as ready, and then
\* whatever it is doing.
Terminated ==
    /\ script.step = "target"
    /\ pod[script.target].ready
    /\ pod' = Without({script.of})
    /\ Lost(script.of)

TargetReady == Terminated /\ script' = IdleScript

\* migrate() raised: it is called again, three times in all.
NextTry ==
    script' = IF script.tries < MigrationTries
              THEN [script EXCEPT !.step = "migrating", !.tries = @ + 1]
              ELSE IdleScript

\* In any of its steps; the target stays as it is.
MigrationFails ==
    /\ script.step \in {"migrating", "renaming", "target"}
    /\ NextTry
    /\ UNCHANGED <<pod, workerVars>>

\* The source is removed, but the script is told of an error.
TerminateUnheard == Terminated /\ NextTry

\* wait_ready() returned; a Pod that RunPod refuses to remove is left for later.
ReadySeen ==
    /\ script.step = "ready"
    /\ pod[script.of].ready
    /\ \E S \in SUBSET Obsolete(script.of) : pod' = Without(S)
    /\ script' = IdleScript
    /\ UNCHANGED workerVars

\* wait_ready() of a Pod that runs gave up, a read timed out, which nobody
\* catches, or the job was cancelled: the script ends where it is.
ScriptDies ==
    /\ script.step # "idle"
    /\ script' = IdleScript
    /\ UNCHANGED <<pod, workerVars>>

Stop(p) ==
    /\ script.step = "idle"
    /\ Newest = {p} /\ pod[p].status = "RUNNING"
    /\ pod' = [pod EXCEPT ![p].status = "EXITED", ![p].ready = FALSE]
    /\ Lost(p)
    /\ UNCHANGED script

\* find_runpod_worker.py chooses the Pod a new image goes to: the newest, if it
\* is ready, and only while no migration's target awaits its name.  The new
\* image restarts the container.
Deploy(p) ==
    /\ script.step = "idle"
    /\ Newest = {p} /\ pod[p].status = "RUNNING" /\ pod[p].ready
    /\ \A q \in Pod : pod[q].status = "RUNNING" => pod[q].version > 0
    /\ pod' = [pod EXCEPT ![p].ready = FALSE]
    /\ Lost(p)
    /\ UNCHANGED script

----------------------------------------------------------------------------
\* The worker of a Pod has loaded its models: /health/ready says so.
Warm(p) ==
    /\ pod[p].status = "RUNNING" /\ ~pod[p].ready
    /\ pod' = [pod EXCEPT ![p].ready = TRUE]
    /\ UNCHANGED <<script, workerVars>>

\* Its container crashes and restarts.
Reset(p) ==
    /\ pod[p].status = "RUNNING" /\ pod[p].ready
    /\ pod' = [pod EXCEPT ![p].ready = FALSE]
    /\ Lost(p)
    /\ UNCHANGED script
=============================================================================
