\* Two consumers saving the history of one requestId.
CONSTANTS
    a1 = a1  a2 = a2  a3 = a3
    r1 = r1  r2 = r2  r3 = r3
    q1 = q1  q1b = q1b  q2 = q2  q3 = q3
    AnalysisId = {a1, a2}
    RequestId = {r1, r2}
    Request <- TwoRequests
    IdOf <- MCIdOf
    Consumer = {c1, c2}
    Task = {t1}
    QueueMax = 1
    MaxEntries = 3
    HasHistory = TRUE
    None = None

SPECIFICATION Spec

PROPERTY HistoryKeepsCurrent
