-------------------------- MODULE RemoteInference --------------------------
(***************************************************************************)
(* RemoteInferenceClient (fastapi/app/adapters/remote_inference.py): how   *)
(* an analysis, a recipe call and the health check find a worker and call  *)
(* it.  Analyses and health checks share one client, the recipe reasoner   *)
(* has its own; each remembers one address, under a lock.                  *)
(*                                                                         *)
(* Time runs for recipe calls only: what is left to the caller and to the  *)
(* worker, and how much longer a post may travel.                          *)
(***************************************************************************)
EXTENDS PodControl

CONSTANTS
    Analysis, Reasoning, Health,    \* calls, by what they are for
    Budget,         \* time a recipe call is given
    Margin,         \* recipe_worker_transport_margin_seconds
    MaxPosts        \* posts of one call, over all its attempts

Call == Analysis \cup Reasoning \cup Health
Client == {"image", "recipe"}
ClientOf(c) == IF c \in Reasoning THEN "recipe" ELSE "image"

ASSUME RemoteAssumption ==
    /\ Recipe = Reasoning \X {1}
    /\ Req = (Analysis \X (1 .. MaxPosts)) \cup Recipe
    /\ Analysis \cap Reasoning = {} /\ Analysis \cap Health = {} /\ Reasoning \cap Health = {}
    /\ Budget \in Nat /\ Margin \in Nat /\ Margin < Budget

VARIABLES
    fixed,          \* remote_inference_url, or None: discover
    addr, fresh,    \* client -> discovered address, and whether its TTL lasts
    line,           \* client -> callers at the discovery lock, its holder first
    call,           \* call -> what it is doing, see Quiet
    posted,         \* call -> what its posts came to, a sequence
    suspect,        \* call -> its post failed and no worker has been asked since
    clock           \* recipe call -> time left: caller, worker, transit

netVars == <<fixed, addr, fresh, line, call, posted, suspect, clock>>
remoteVars == <<netVars, podVars, workerVars>>

Quiet == [pc |-> "idle", url |-> None, force |-> FALSE, stage |-> "first", tries |-> 0, cands |-> << >>, cures |-> {}]
Ended == {"ok", "bad", "down"}

RemoteInit ==
    /\ addr = [k \in Client |-> None]
    /\ fresh = [k \in Client |-> FALSE]
    /\ line = [k \in Client |-> << >>]
    /\ call = [c \in Call |-> Quiet]
    /\ posted = [c \in Call |-> << >>]
    /\ suspect = [c \in Call |-> FALSE]
    /\ clock = [c \in Reasoning |-> [caller |-> Budget, worker |-> 0, transit |-> 0]]

Post(c) == <<c, Len(posted[c]) + 1>>

\* Mutant form: a listing that raises keeps the lock.
UnlockedLate(c) == line

\* `async with` of the discovery lock is left, from wherever c stands in it.
Unlocked(c) == [line EXCEPT ![ClientOf(c)] = OutOf(@, c)]

Fails(c, how) ==
    /\ call' = [call EXCEPT ![c].pc = how]
    /\ line' = Unlocked(c)

----------------------------------------------------------------------------
(* _worker_url() *)

\* x is the record of c, before it has an address.
Seek(c, x) ==
    LET k == ClientOf(c) IN
    CASE fixed # None ->
            /\ call' = [call EXCEPT ![c] = [x EXCEPT !.pc = "send", !.url = fixed]]
            /\ UNCHANGED line
      [] fixed = None /\ fresh[k] ->
            /\ call' = [call EXCEPT ![c] = [x EXCEPT !.pc = "send", !.url = addr[k]]]
            /\ UNCHANGED line
      [] OTHER ->
            /\ call' = [call EXCEPT ![c] = [x EXCEPT !.pc = "lock"]]
            /\ line' = [line EXCEPT ![k] = Append(@, c)]

\* Mutant form: force is forgotten once the lock is there.
SettledAnyway(c) == fresh[ClientOf(c)]

\* The address is looked at again under the lock, unless it must be found anew.
Settled(c) == fresh[ClientOf(c)] /\ ~call[c].force

Acquire(c) ==
    /\ call[c].pc = "lock" /\ Head(line[ClientOf(c)]) = c
    /\ IF Settled(c)
       THEN /\ call' = [call EXCEPT ![c].pc = "send", ![c].url = addr[ClientOf(c)]]
            /\ line' = Unlocked(c)
       ELSE call' = [call EXCEPT ![c].pc = "list"] /\ UNCHANGED line
    /\ UNCHANGED <<fixed, addr, fresh, posted, suspect, clock, podVars, workerVars>>

----------------------------------------------------------------------------
(* _discover_worker() *)

Listed == {p \in Managed : pod[p].status = "RUNNING"}
SameVersion == \E p, q \in Listed : p # q /\ pod[p].version = pod[q].version

\* pods.sort(reverse=True)
NewestFirst(s) == \A i, j \in DOMAIN s : i < j => pod[s[i]].version > pod[s[j]].version

\* The listing of RunPod's API; two workers of one version are refused.
List(c) ==
    /\ call[c].pc = "list"
    /\ IF SameVersion
       THEN Fails(c, "down")
       ELSE /\ \E s \in [1 .. Cardinality(Listed) -> Listed] :
                /\ NewestFirst(s)
                /\ call' = [call EXCEPT ![c].pc = "probe", ![c].cands = s]
            /\ UNCHANGED line
    /\ UNCHANGED <<fixed, addr, fresh, posted, suspect, clock, podVars, workerVars>>

\* The API answers 4xx, which infer() takes for the worker's, or not at all.
ListFails(c) ==
    /\ call[c].pc = "list"
    /\ \E how \in {"bad", "down"} : Fails(c, how)
    /\ UNCHANGED <<fixed, addr, fresh, posted, suspect, clock, podVars, workerVars>>

\* The next candidate is asked whether it is ready, and says what it is now.
Probe(c) ==
    /\ call[c].pc = "probe" /\ call[c].cands # << >>
    /\ call' = [call EXCEPT ![c].pc = IF pod[Head(call[c].cands)].ready THEN "found" ELSE "probe",
                            ![c].cands = IF pod[Head(@)].ready THEN @ ELSE Tail(@),
                            ![c].cures = {d \in Call : suspect[d] /\ ClientOf(d) = ClientOf(c)}]
    /\ UNCHANGED <<fixed, addr, fresh, line, posted, suspect, clock, podVars, workerVars>>

\* Its answer arrives: it becomes the address.
Found(c) ==
    /\ call[c].pc = "found"
    /\ LET p == Head(call[c].cands) IN
        /\ addr' = [addr EXCEPT ![ClientOf(c)] = p]
        /\ fresh' = [fresh EXCEPT ![ClientOf(c)] = TRUE]
        /\ call' = [call EXCEPT ![c].pc = "send", ![c].url = p]
    /\ suspect' = [d \in Call |-> suspect[d] /\ d \notin call[c].cures]
    /\ line' = Unlocked(c)
    /\ UNCHANGED <<fixed, posted, clock, podVars, workerVars>>

NoneReady(c) ==
    /\ call[c].pc = "probe" /\ call[c].cands = << >>
    /\ Fails(c, "down")
    /\ UNCHANGED <<fixed, addr, fresh, posted, suspect, clock, podVars, workerVars>>

TtlPasses(k) ==
    /\ fresh[k]
    /\ fresh' = [fresh EXCEPT ![k] = FALSE]
    /\ UNCHANGED <<fixed, addr, line, call, posted, suspect, clock, podVars, workerVars>>

----------------------------------------------------------------------------
(* _post_inference() and reason_recipe() *)

\* infer(), ready() or reason_recipe() begins.
Begin(c) ==
    /\ call[c].pc = "idle"
    /\ Seek(c, [Quiet EXCEPT !.tries = 1])
    /\ UNCHANGED <<fixed, addr, fresh, posted, suspect, clock, podVars, workerVars>>

\* Mutant form: the worker is given all that is left.
WholeBudget(c) == clock[c].caller

WorkerBudget(c) == clock[c].caller - Margin

\* What discovery left is too little for the worker and the way back.
BudgetGone(c) ==
    /\ call[c].pc = "send" /\ c \in Reasoning
    /\ WorkerBudget(c) <= 0
    /\ Fails(c, "down")
    /\ UNCHANGED <<fixed, addr, fresh, posted, suspect, clock, podVars, workerVars>>

\* The budget is fixed and the request is on its way.
Assign(c) ==
    /\ call[c].pc = "send" /\ c \in Reasoning
    /\ WorkerBudget(c) > 0
    /\ call' = [call EXCEPT ![c].pc = "sent"]
    /\ clock' = [clock EXCEPT ![c].worker = WorkerBudget(c), ![c].transit = Margin]
    /\ UNCHANGED <<fixed, addr, fresh, line, posted, suspect, podVars, workerVars>>

Sends(c) == call[c].pc = (IF c \in Reasoning THEN "sent" ELSE "send")

\* The post reaches a worker.
Deliver(c) ==
    /\ Sends(c) /\ c \notin Health
    /\ pod[call[c].url].ready
    /\ Arrive(call[c].url, Post(c))
    /\ call' = [call EXCEPT ![c].pc = "wait"]
    /\ UNCHANGED <<fixed, addr, fresh, line, posted, suspect, clock, podVars>>

\* ready() asks for /health/ready at the same address, once.
HealthAnswer(c) ==
    /\ call[c].pc = "send" /\ c \in Health
    /\ call' = [call EXCEPT ![c].pc = IF pod[call[c].url].ready THEN "ok" ELSE "down"]
    /\ UNCHANGED <<fixed, addr, fresh, line, posted, suspect, clock, podVars, workerVars>>

Invalidated(c) ==
    /\ addr' = [addr EXCEPT ![ClientOf(c)] = None]
    /\ fresh' = [fresh EXCEPT ![ClientOf(c)] = FALSE]

\* How a post of an analysis goes on after a connection error ("lost") or a
\* 5xx: another discovery and another post, until the last one.
Repeats(c, a) ==
    /\ fixed = None
    /\ call[c].stage # "final"
    /\ a = "5xx" \/ call[c].stage = "first"

Again(c, a) ==
    [call[c] EXCEPT !.force = TRUE, !.stage = IF a = "5xx" THEN "final" ELSE "second"]

\* A post of c came to a: what the worker answered, "lost", or "unread", a 200
\* whose body is not the answer's JSON.  That one is no connection error and no
\* 5xx: the post is not repeated here, the call fails as DependencyUnavailable.
Outcome(c, a) ==
    /\ posted' = [posted EXCEPT ![c] = Append(@, a)]
    /\ IF a \in {"lost", "5xx"} /\ c \in Analysis /\ Repeats(c, a)
       THEN /\ Invalidated(c)
            /\ suspect' = [suspect EXCEPT ![c] = TRUE]
            /\ line' = [line EXCEPT ![ClientOf(c)] = Append(@, c)]
            /\ call' = [call EXCEPT ![c] = [Again(c, a) EXCEPT !.pc = "lock"]]
       ELSE /\ call' = [call EXCEPT ![c].pc = CASE a = "ok" -> "ok" [] a = "4xx" -> "bad" [] OTHER -> "down"]
            /\ UNCHANGED <<addr, fresh, line, suspect>>
    /\ UNCHANGED <<fixed, clock, podVars>>

\* Nobody serves the address: no connection, or the proxy's 5xx.
NoWorker(c) ==
    /\ Sends(c) /\ c \notin Health
    /\ ~pod[call[c].url].ready
    /\ \E a \in {"lost", "5xx"} : Outcome(c, a)
    /\ UNCHANGED workerVars

Answered(c) ==
    /\ call[c].pc = "wait" /\ phase[Post(c)] = "over"
    /\ \E a \in (IF answer[Post(c)] = "lost" THEN {"lost", "5xx"} ELSE {answer[Post(c)]}) : Outcome(c, a)
    /\ UNCHANGED workerVars

\* A 200 arrives whose body response.json() or model_validate() refuses.
Unreadable(c) ==
    /\ call[c].pc = "wait" /\ phase[Post(c)] = "over" /\ answer[Post(c)] = "ok"
    /\ Outcome(c, "unread")
    /\ UNCHANGED workerVars

\* remote_inference_timeout_seconds: to the client it is a connection error;
\* the worker is not told.
Impatient(c) ==
    /\ call[c].pc = "wait" /\ c \in Analysis /\ phase[Post(c)] \in Active
    /\ Outcome(c, "lost")
    /\ UNCHANGED workerVars

\* The planner's timeout cancels a recipe call wherever it stands.
GivesUp(c) ==
    /\ c \in Reasoning /\ call[c].pc \notin Ended \cup {"idle"}
    /\ clock[c].caller = 0
    /\ Fails(c, "down")
    /\ UNCHANGED <<fixed, addr, fresh, posted, suspect, clock, podVars, workerVars>>

----------------------------------------------------------------------------
(* Time *)

Working(c) == phase[<<c, 1>>] \in Active
Running(c) == call[c].pc \notin Ended \cup {"idle"}
Due(c) ==
    \/ Running(c) /\ clock[c].caller = 0
    \/ Working(c) /\ clock[c].worker = 0
    \/ call[c].pc = "sent" /\ clock[c].transit = 0

Tick ==
    /\ \E c \in Reasoning : Running(c) \/ Working(c)
    /\ \A c \in Reasoning : ~Due(c)
    /\ clock' = [c \in Reasoning |->
            [caller  |-> IF Running(c) THEN clock[c].caller - 1 ELSE clock[c].caller,
             worker  |-> IF Working(c) THEN clock[c].worker - 1 ELSE clock[c].worker,
             transit |-> IF call[c].pc = "sent" THEN clock[c].transit - 1 ELSE clock[c].transit]]
    /\ UNCHANGED <<fixed, addr, fresh, line, call, posted, suspect, podVars, workerVars>>

\* asyncio.timeout(budget) at the worker.
BudgetEnds(c) ==
    /\ c \in Reasoning /\ Working(c) /\ clock[c].worker = 0
    /\ Timeout(<<c, 1>>)
    /\ UNCHANGED <<netVars, podVars>>
=============================================================================
