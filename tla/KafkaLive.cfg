\* A conflicting and a malformed record.
CONSTANTS
    a1 = a1  a2 = a2  a3 = a3
    r1 = r1  r2 = r2
    q1 = q1  q1b = q1b  q2 = q2
    p1 = p1  p2 = p2
    AnalysisId = {a1, a2}
    RequestId = {r1, r2}
    Request <- ThreeRequests
    IdOf <- MCIdOf
    Consumer = {c1}
    Task = {p1, p2}
    QueueMax = 1
    MaxEntries = 2
    HasHistory = FALSE
    None = None
    Malformed = Malformed
    log <- LogHard
    MaxFaults = 1

SPECIFICATION FairKSpec

PROPERTY
    EveryRecordIsCommitted
