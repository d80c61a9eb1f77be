-------------------------- MODULE PartitionConsumer --------------------------
(***************************************************************************)
(* PartitionConsumer (fastapi/app/adapters/kafka.py): one worker task per  *)
(* assigned partition handles one record at a time, and commits its offset *)
(* only when the handler returned.  The handler is a parameter of the      *)
(* class; the modules that instantiate this one say when it returns.       *)
(*                                                                         *)
(* Offsets count from 1: fetched[p] and committed[p] are the numbers of    *)
(* records read and committed, so the record at work is log[p][fetched[p]].*)
(***************************************************************************)
EXTENDS Integers, Sequences

CONSTANTS
    Partition,
    log             \* the records of each partition of the topic

VARIABLES
    owned,          \* the partition is assigned to this process
    fetched,        \* its position: the worker's record is the last one read
    committed,      \* the group's committed offset, kept by the broker
    worker          \* self.workers[p]: none, in the handler, in commit()

pvars == <<owned, fetched, committed, worker>>

PTypeOK ==
    /\ owned \in [Partition -> BOOLEAN]
    /\ fetched \in [Partition -> Nat]
    /\ committed \in [Partition -> Nat]
    /\ worker \in [Partition -> {"none", "handling", "committing"}]

PInit ==
    /\ owned = [p \in Partition |-> TRUE]
    /\ fetched = [p \in Partition |-> 0]
    /\ committed = [p \in Partition |-> 0]
    /\ worker = [p \in Partition |-> "none"]

\* Faulty: the partition is not paused while its worker runs.
PollUnpaused(p) ==
    /\ owned[p]
    /\ fetched[p] < Len(log[p])
    /\ fetched' = [fetched EXCEPT ![p] = @ + 1]
    /\ worker' = [worker EXCEPT ![p] = "handling"]
    /\ UNCHANGED <<owned, committed>>

\* getmany() returned a record of p: the partition is paused, a worker starts.
Poll(p) ==
    /\ owned[p] /\ worker[p] = "none"
    /\ fetched[p] < Len(log[p])
    /\ fetched' = [fetched EXCEPT ![p] = @ + 1]
    /\ worker' = [worker EXCEPT ![p] = "handling"]
    /\ UNCHANGED <<owned, committed>>

HandlerReturns(p) ==
    /\ worker[p] = "handling"
    /\ worker' = [worker EXCEPT ![p] = "committing"]
    /\ UNCHANGED <<owned, fetched, committed>>

\* The worker's entry is popped and the partition resumed.
CommitOk(p) ==
    /\ worker[p] = "committing"
    /\ committed' = [committed EXCEPT ![p] = fetched[p]]
    /\ worker' = [worker EXCEPT ![p] = "none"]
    /\ UNCHANGED <<owned, fetched>>

\* commit() raised, before or after the broker stored the offset: the loop
\* runs the handler on the same record again.
CommitFails(p) ==
    /\ worker[p] = "committing"
    /\ \E stored \in BOOLEAN :
          committed' = [committed EXCEPT ![p] = IF stored THEN fetched[p] ELSE @]
    /\ worker' = [worker EXCEPT ![p] = "handling"]
    /\ UNCHANGED <<owned, fetched>>

\* Faulty: a worker cancelled by a rebalance commits what it was handling.
RevokedCommits(p) ==
    /\ owned[p]
    /\ owned' = [owned EXCEPT ![p] = FALSE]
    /\ committed' = [committed EXCEPT ![p] = fetched[p]]
    /\ worker' = [worker EXCEPT ![p] = "none"]
    /\ UNCHANGED fetched

\* on_partitions_revoked(), in a rebalance or in stop(): the worker is
\* cancelled wherever it is.
Revoked(p) ==
    /\ owned[p]
    /\ owned' = [owned EXCEPT ![p] = FALSE]
    /\ worker' = [worker EXCEPT ![p] = "none"]
    /\ UNCHANGED <<fetched, committed>>

\* Faulty: the client goes on from where it was before the revocation.
AssignedContinues(p) ==
    /\ ~owned[p]
    /\ owned' = [owned EXCEPT ![p] = TRUE]
    /\ UNCHANGED <<fetched, committed, worker>>

\* The client fetches from the committed offset.
Assigned(p) ==
    /\ ~owned[p]
    /\ owned' = [owned EXCEPT ![p] = TRUE]
    /\ fetched' = [fetched EXCEPT ![p] = committed[p]]
    /\ UNCHANGED <<committed, worker>>

\* A new process joins the group.
Rejoined ==
    /\ owned' = [p \in Partition |-> TRUE]
    /\ fetched' = committed
    /\ worker' = [p \in Partition |-> "none"]
    /\ UNCHANGED committed

=============================================================================
