SPECIFICATION FairSpec
CONSTANTS
    KnownFood <- MCKnownFood
    NonFood = {"tissue"}
    Description = {"origin"}
    English = {"snack", "food"}
    Correction <- MCCorrection
    Strong = {"cake"}
    Short = {"big"}
    ShelfLife <- MCShelfLife
    Catalog <- MCCatalog
    Scenes <- MCScenes
    KeyOrder <- MCKeyOrder
    CacheSize = 2
    Tries = 2
    None = None
INVARIANTS
    ItemsAreTrue
    ProductsAreKept
    CorrectionsStayHome
    FeedbackCountsOnce
PROPERTY EveryCorrectionCounts
CHECK_DEADLOCK FALSE
