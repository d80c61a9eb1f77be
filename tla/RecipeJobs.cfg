\* One partition whose third record reuses a requestId, and two clients, one of
\* which sends the request of the first record.
CONSTANTS
    j1 = j1  j2 = j2  j3 = j3
    r1 = r1  r2 = r2  r3 = r3
    q1 = q1  q1b = q1b  q2 = q2  q3 = q3
    p1 = p1  h1 = h1  h2 = h2
    None = None
    Job = {j1, j2, j3}
    RequestId = {r1, r2, r3}
    Request = {q1, q1b, q2, q3}
    IdOf <- MCIdOf
    Consumer = {c1}
    Client = {h1, h2}
    Body <- MCBody
    Task = {p1}
    log <- MCLog
    QueueMax = 1
    MaxEntries = 3
    MaxFaults = 1

SPECIFICATION FairSpec
CHECK_DEADLOCK FALSE

INVARIANTS
    OneJobPerRequest
    NoJobIsLost
    ClaimedIsCalledBack
    CommittedIsSaved
    PublishedIsRight

PROPERTIES
    ImplementsOutcome
    EveryRecordIsCommitted
