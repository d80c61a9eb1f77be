\* Seven scenes of up to two calls, three Pods and two faults.
CONSTANTS
    p1 = p1  p2 = p2  p3 = p3
    a1 = a1  a2 = a2  k1 = k1  h1 = h1
    None = None
    Pod = {p1, p2, p3}
    Analysis = {a1, a2}
    Reasoning = {k1}
    Health = {h1}
    MaxPosts = 6
    RetryCount = 1
    Budget = 4
    Margin = 1
    CropSlots = 2
    MaxCrops = 3
    Req <- MCReq
    Recipe <- MCRecipe
    Slots <- MCSlots
    Scene <- MCScene

SPECIFICATION FairSpec
CHECK_DEADLOCK FALSE

INVARIANTS
    SlotsFollowWork
    ReasoningEndsFirst
    RepeatsAreJustified
    RepostIsRediscovered

PROPERTIES
    RemovalLosesNothing
    EveryCallEnds
