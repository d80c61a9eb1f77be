\* The recipe service: who shares a load, what a verdict rests on, the circuit.
SPECIFICATION FairSpec
CHECK_DEADLOCK FALSE
CONSTANTS
    None = None
    Unknown = Unknown
    Load <- MCLoad
    Threshold = 1
    Dish <- MCDish
    Tag <- MCTag
    Recipe <- MCRecipe
    Rank <- MCRank
    Water <- MCWater
    Seasoning <- MCSeasoning
    Side <- MCSide
    MainFood <- MCMainFood
    Family <- MCFamily
    ClassTags <- MCClassTags
    UncertainTags <- MCUncertainTags
    SpicyTags <- MCSpicyTags
    Signs <- MCSigns
    Supplier <- MCSupplier
    PageText <- MCPageText
    MaxExtractions = 1
    Quotes <- MCQuotes
    Profile <- MCProfile
    Class <- MCClass
    Scene <- MCScene
    MaxEntries = 1
    MaxCandidates = 3
    Fit = 2
    AiSlots = 2
INVARIANTS
    ProbeIsAlone
    PreferenceHonoured
    PinnedIsJudged
    StockIsSharedFairly
    UrgentFoodIsShown
PROPERTIES
    WaitedLoadsGoOn
    EveryRecommendationEnds
