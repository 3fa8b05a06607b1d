SPECIFICATION FrontEndSpec
CONSTANTS
    Watchers = {1, 2, 3, 4, 5, 6, 7, 8, 9}
    MaxUpdateCount = 1
    MaxQueue = 9
    MaxTicks = 2
    MaxChildren = 2
    MaxWrites = 3
    Arrays = {1, 2}
    NoKey = NoKey
    NoRef = NoRef
    Families <- MCFamilies
    Texts = {"", "t", "u"}
    Falsy = "falsy"
    VNodeData <- MCVNodeData
    Empty <- MCEmpty
    TransitionClasses = {"x", "y"}
    MaxChanges = 4
    Vocabularies <- MCVocabularies
    Environments <- MCEnvironments
    MaxTokens = 5
    Modes = {"show", "default", "out-in", "in-out"}
    Kinds = {"A", "B"}
    MaxToggles = 3
    Pictures = {1, 2, 3}
    MaxDeletes = 3
    Digits = {0, 3, 9}
    MaxWhole = 4
    MaxDecimals = 3
INVARIANTS
    CachedIsFresh
    StaleIsQueued
    TickSeesUpdate
    FlushOnItsWay
    DocumentIsNewList
    KeyedNodesStay
    RefsAndComponentsLive
    ElementShowsData
    
    SettlesOnData
    PicturesMatch
    PricesConvert
PROPERTY
    ImplementsPriorityFlush
CHECK_DEADLOCK FALSE
