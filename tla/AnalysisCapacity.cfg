\* One consumer, a queue of one and a table of two: capacity pruning bites.
CONSTANTS
    a1 = a1  a2 = a2  a3 = a3
    r1 = r1  r2 = r2  r3 = r3
    q1 = q1  q1b = q1b  q2 = q2  q3 = q3
    AnalysisId = {a1, a2, a3}
    RequestId = {r1, r2, r3}
    Request <- ThreeIds
    IdOf <- MCIdOf
    Consumer = {c1}
    Task = {t1, t2}
    QueueMax = 1
    MaxEntries = 2
    HasHistory = TRUE
    None = None

SPECIFICATION Spec
SYMMETRY Symmetric

INVARIANTS
    TypeOK
    IndexExact
    ConsumersSurvive
    WaiterIsOwed
    StoreBounded
