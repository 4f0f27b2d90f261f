CONSTANTS
    Users = {"u1", "u2"}
    ApiKeys = {k1, k2}
    AllowLists <- MCAllowLists
    Entries <- MCEntries
    MaxFile = 2
    k1 = k1
    k2 = k2
    NoRow = NoRow
    Providers = {1, 2}
    Models <- MCModels
    RuleChoices <- MCRuleChoices
    PolicyChoices <- MCPolicyChoices
    RowIds = {"x", "y"}
    Principals = {"a", "b"}
    Prints = {"f", "g"}
    i1 = i1
    i2 = i2
    CallIds = {i1, i2}
    Messages <- MCMessages
    None = None
    MaxMessages = 4
    MaxTurns = 2
    Requests = {r1}
    Anything = Anything
    Ask <- MCAsk
    Answered <- MCAnswered
    Asked <- MCAsked
    Owner <- MCOwner
    Thinkers = {"n"}
    Pictures = {"p", "q", "r"}
    Scenes <- MCScenes
    Viewers = {"v", "w"}
    Helpers = {"g", "h"}
    ImageLimits = {1, 2}
    CacheSize = 2
    Slots = 2
    MaxChanges = 3
    MaxRows = 2
SPECIFICATION Spec
CHECK_DEADLOCK FALSE
INVARIANTS
    ServedAsAllowed
    RoutedAsRuled
    EachUpstreamOnce
    HistorySound
    ImagesKeepTheirWords
PROPERTIES
    KeysStayPut
