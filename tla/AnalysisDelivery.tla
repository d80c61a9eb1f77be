-------------------------- MODULE AnalysisDelivery --------------------------
(***************************************************************************)
(* What the analysis service promises of one process's work, without       *)
(* table, consumers or waiters: accepted analyses start in the order they  *)
(* were accepted, end once, and are reported once, on Kafka exactly when a *)
(* Kafka handler claimed the analysis before it was reported (kafka.md).   *)
(***************************************************************************)
EXTENDS Integers, Sequences

CONSTANT AnalysisId

VARIABLES
    phase,      \* the public status of each analysis
    line,       \* accepted, not started
    unreported, \* accepted by this process, not reported yet
    claimed,    \* of those, the ones a Kafka handler asked for
    channel     \* where the outcome was reported

dvars == <<phase, line, unreported, claimed, channel>>

DInit ==
    /\ phase = [a \in AnalysisId |-> "NONE"]
    /\ line = <<>>
    /\ unreported = {}
    /\ claimed = {}
    /\ channel = [a \in AnalysisId |-> "none"]

Accept(a, byKafka) ==
    /\ phase[a] = "NONE"
    /\ phase' = [phase EXCEPT ![a] = "QUEUED"]
    /\ line' = Append(line, a)
    /\ unreported' = unreported \cup {a}
    /\ claimed' = IF byKafka THEN claimed \cup {a} ELSE claimed
    /\ UNCHANGED channel

Claim(a) ==
    /\ a \in unreported
    /\ claimed' = claimed \cup {a}
    /\ UNCHANGED <<phase, line, unreported, channel>>

Start(a) ==
    /\ line # <<>> /\ a = Head(line)
    /\ line' = Tail(line)
    /\ phase' = [phase EXCEPT ![a] = "PROCESSING"]
    /\ UNCHANGED <<unreported, claimed, channel>>

ReportOn(a) ==
    /\ a \in unreported
    /\ channel[a] = "none"
    /\ channel' = [channel EXCEPT ![a] = IF a \in claimed THEN "kafka" ELSE "http"]
    /\ unreported' = unreported \ {a}
    /\ claimed' = claimed \ {a}

End(a, s) ==
    /\ phase[a] = "PROCESSING"
    /\ phase' = [phase EXCEPT ![a] = s]
    /\ \/ ReportOn(a)
       \/ UNCHANGED <<unreported, claimed, channel>>
    /\ UNCHANGED line

Report(a) ==
    /\ phase[a] \in {"COMPLETED", "FAILED"}
    /\ ReportOn(a)
    /\ UNCHANGED <<phase, line>>

\* The process is replaced: what had not ended is lost, what had not been
\* reported never is by this service.
Replace ==
    /\ phase' = [a \in AnalysisId |->
                    IF phase[a] \in {"QUEUED", "PROCESSING"} THEN "LOST"
                                                             ELSE phase[a]]
    /\ line' = <<>>
    /\ unreported' = {}
    /\ claimed' = {}
    /\ UNCHANGED channel

DNext ==
    \/ \E a \in AnalysisId :
          \/ \E byKafka \in BOOLEAN : Accept(a, byKafka)
          \/ Claim(a)
          \/ Start(a)
          \/ \E s \in {"COMPLETED", "FAILED"} : End(a, s)
          \/ Report(a)
    \/ Replace

DSpec == DInit /\ [][DNext]_dvars
=============================================================================
