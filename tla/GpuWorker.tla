------------------------------ MODULE GpuWorker ------------------------------
(***************************************************************************)
(* GpuInferenceEngine (runpod/gpu_worker/engine.py) with its OCR pool      *)
(* (app/adapters/ocr.py) on every Pod: what a request holds while it is    *)
(* downloaded, read and judged.                                            *)
(*                                                                         *)
(* A request takes an inference slot, then an OCR slot, then an LLM slot,  *)
(* keeping the first throughout; a recipe call shares the inference and    *)
(* the LLM slots and is bounded by asyncio.timeout.  The images and the    *)
(* answers of the models are choices.                                      *)
(***************************************************************************)
EXTENDS Integers, Sequences, FiniteSets, SequencesExt

CONSTANTS
    Pod,            \* RunPod Pods, each with one worker process
    Req,            \* requests a Pod may receive: one per HTTP post
    Recipe,         \* those that ask for recipe reasoning
    Slots,          \* worker_max_concurrency, worker_ocr_.. and worker_llm_..
    CropSlots,      \* worker_product_crop_concurrency
    MaxCrops,       \* packages a detector finds in one photo
    None

Kind == {"inference", "ocr", "llm"}

ASSUME WorkerAssumption ==
    /\ Slots \in [Kind -> Nat \ {0}]
    /\ Recipe \subseteq Req
    /\ IsFiniteSet(Req) /\ IsFiniteSet(Pod)
    /\ CropSlots \in Nat \ {0} /\ MaxCrops \in Nat \ {0}
    /\ None \notin Req \cup Pod

VARIABLES
    sem,            \* Pod -> kind -> holders and waiters of the semaphore
    phase,          \* request -> how far it is
    at,             \* request -> the Pod that has it
    answer,         \* request -> what was answered
    crops,          \* request -> model calls of its crops, begun and waiting
    reader          \* Pod -> OCR engines that are rented, by request

workerVars == <<sem, phase, at, answer, crops, reader>>

Engine == 1 .. Slots["ocr"]
NoCrops == [running |-> 0, waiting |-> 0]
Empty == [held |-> {}, queue |-> << >>]
Idle == [k \in Kind |-> Empty]
Active == {"queued", "ocr", "llm", "crops"}

WorkerInit ==
    /\ sem = [p \in Pod |-> Idle]
    /\ phase = [r \in Req |-> "none"]
    /\ at = [r \in Req |-> None]
    /\ answer = [r \in Req |-> None]
    /\ crops = [r \in Req |-> NoCrops]
    /\ reader = [p \in Pod |-> [e \in Engine |-> None]]

----------------------------------------------------------------------------
(* asyncio.Semaphore: first come, first served; a slot that is given back   *)
(* goes to the first waiter, and a cancelled waiter leaves the line.        *)

Enter(s, k, r) ==
    IF Cardinality(s.held) < Slots[k] /\ s.queue = << >>
    THEN [s EXCEPT !.held = @ \cup {r}]
    ELSE [s EXCEPT !.queue = Append(@, r)]

\* The line without x, who stands in it once at most.
OutOf(q, x) == IF x \in Range(q) THEN RemoveAt(q, CHOOSE i \in DOMAIN q : q[i] = x) ELSE q

\* Mutant form: the first waiter is not let in.
LeaveUnseen(s, r) == [held |-> s.held \ {r}, queue |-> OutOf(s.queue, r)]

Leave(s, r) ==
    CASE r \notin s.held -> [s EXCEPT !.queue = OutOf(@, r)]
      [] r \in s.held /\ s.queue = << >> -> [s EXCEPT !.held = @ \ {r}]
      [] OTHER -> [held |-> (s.held \ {r}) \cup {Head(s.queue)}, queue |-> Tail(s.queue)]

Holds(r, k) == r \in sem[at[r]][k].held

\* The same slots with r out of the line for OCR and in the line for the LLM.
OnToModel(p, r) ==
    [sem[p] EXCEPT !["ocr"] = Leave(@, r), !["llm"] = Enter(@, "llm", r)]

\* Every `async with` of r is left, whatever way it ends.
AllLeft(p, r) == [k \in Kind |-> Leave(sem[p][k], r)]

Ends(r, a) ==
    /\ sem' = [sem EXCEPT ![at[r]] = AllLeft(at[r], r)]
    /\ phase' = [phase EXCEPT ![r] = "over"]
    /\ answer' = [answer EXCEPT ![r] = a]

----------------------------------------------------------------------------
\* infer() and reason_recipe() begin at the inference semaphore.
Arrive(p, r) ==
    /\ phase[r] = "none"
    /\ at' = [at EXCEPT ![r] = p]
    /\ phase' = [phase EXCEPT ![r] = "queued"]
    /\ sem' = [sem EXCEPT ![p]["inference"] = Enter(@, "inference", r)]
    /\ UNCHANGED <<answer, crops, reader>>

\* The image is downloaded and its type decided; then the OCR semaphore.
Load(r) ==
    /\ phase[r] = "queued" /\ r \notin Recipe /\ Holds(r, "inference")
    /\ phase' = [phase EXCEPT ![r] = "ocr"]
    /\ sem' = [sem EXCEPT ![at[r]]["ocr"] = Enter(@, "ocr", r)]
    /\ UNCHANGED <<at, answer, crops, reader>>

\* A URL, size, digest or format that is refused is the sender's error; a
\* download or a classifier that fails is the worker's.
LoadFails(r) ==
    /\ phase[r] = "queued" /\ r \notin Recipe /\ Holds(r, "inference")
    /\ \E a \in {"4xx", "5xx"} : Ends(r, a)
    /\ UNCHANGED <<at, crops, reader>>

\* An engine is rented from the pool in the order the engines came back.
Rent(r) ==
    /\ phase[r] = "ocr" /\ Holds(r, "ocr")
    /\ r \notin Range(reader[at[r]])
    /\ \E e \in Engine :
        /\ reader[at[r]][e] = None
        /\ reader' = [reader EXCEPT ![at[r]][e] = r]
    /\ UNCHANGED <<sem, phase, at, answer, crops>>

Returned(r) ==
    reader' = [reader EXCEPT ![at[r]] = [e \in Engine |-> IF @[e] = r THEN None ELSE @[e]]]

\* A document of another type is answered without the model; a photo of
\* products goes to the detector, anything else to one model call.
Read(r) ==
    /\ phase[r] = "ocr" /\ r \in Range(reader[at[r]])
    /\ Returned(r)
    /\ \/ Ends(r, "ok") /\ UNCHANGED crops
       \/ /\ sem' = [sem EXCEPT ![at[r]] = OnToModel(at[r], r)]
          /\ phase' = [phase EXCEPT ![r] = "llm"]
          /\ UNCHANGED <<answer, crops>>
    /\ UNCHANGED at

ReadFails(r) ==
    /\ phase[r] = "ocr" /\ r \in Range(reader[at[r]])
    /\ Returned(r)
    /\ Ends(r, "5xx")
    /\ UNCHANGED <<at, crops>>

\* reason_recipe() goes from the inference slot straight to the LLM slot.
AskModel(r) ==
    /\ phase[r] = "queued" /\ r \in Recipe /\ Holds(r, "inference")
    /\ phase' = [phase EXCEPT ![r] = "llm"]
    /\ sem' = [sem EXCEPT ![at[r]]["llm"] = Enter(@, "llm", r)]
    /\ UNCHANGED <<at, answer, crops, reader>>

\* One model call judges the lines, the image or the recipes.
Judge(r) ==
    /\ phase[r] = "llm" /\ Holds(r, "llm")
    /\ Ends(r, "ok")
    /\ UNCHANGED <<at, crops, reader>>

JudgeFails(r) ==
    /\ phase[r] = "llm" /\ Holds(r, "llm")
    /\ Ends(r, "5xx")
    /\ UNCHANGED <<at, crops, reader>>

\* A photo of products: one call per crop, CropSlots of them at a time.
Detect(r) ==
    /\ phase[r] = "llm" /\ r \notin Recipe /\ Holds(r, "llm")
    /\ phase' = [phase EXCEPT ![r] = "crops"]
    /\ \E n \in 1 .. MaxCrops :
        LET now == IF n < CropSlots THEN n ELSE CropSlots
        IN crops' = [crops EXCEPT ![r] = [running |-> now, waiting |-> n - now]]
    /\ UNCHANGED <<sem, at, answer, reader>>

\* The call of one crop returns and the next one begins.
Fewer(c) ==
    IF c.waiting > 0 THEN [c EXCEPT !.waiting = @ - 1] ELSE [c EXCEPT !.running = @ - 1]

CropEnds(r) ==
    /\ crops[r].running > 0
    /\ crops' = [crops EXCEPT ![r] = Fewer(@)]
    /\ IF phase[r] = "crops" /\ Fewer(crops[r]) = NoCrops
       THEN Ends(r, "ok") ELSE UNCHANGED <<sem, phase, answer>>
    /\ UNCHANGED <<at, reader>>

\* gather() raises the first failure at once and cancels none of the others:
\* they go on without the slots of the request.
CropFails(r) ==
    /\ phase[r] = "crops" /\ crops[r].running > 0
    /\ crops' = [crops EXCEPT ![r] = Fewer(@)]
    /\ Ends(r, "5xx")
    /\ UNCHANGED <<at, reader>>

\* asyncio.timeout(budget) of a recipe call, wherever it waits.
Timeout(r) ==
    /\ r \in Recipe /\ phase[r] \in Active
    /\ Ends(r, "5xx")
    /\ UNCHANGED <<at, crops, reader>>

\* The process of a Pod is gone, and all it was doing.
Lost(p) ==
    /\ sem' = [sem EXCEPT ![p] = Idle]
    /\ phase' = [r \in Req |-> IF at[r] = p /\ phase[r] \in Active THEN "over" ELSE phase[r]]
    /\ answer' = [r \in Req |-> IF at[r] = p /\ phase[r] \in Active THEN "lost" ELSE answer[r]]
    /\ crops' = [r \in Req |-> IF at[r] = p THEN NoCrops ELSE crops[r]]
    /\ reader' = [reader EXCEPT ![p] = [e \in Engine |-> None]]
    /\ UNCHANGED at
=============================================================================
