CONSTANTS
    Limit = Limit
    Option = Option
    MaxVersion = 2
    Columns = {"capabilities", "responses_tools_status"}
    SchemaColumns = {"capabilities"}
    Requests = {r1, r2}
    Old = {o1}
    BatchSize = 1
    MaxStarts = 2
    MaxWork = 3
SPECIFICATION LifeSpec
SYMMETRY Symmetry
CHECK_DEADLOCK FALSE
INVARIANTS
    ConfigAsWanted
    UpgradeKeepsData
    LogsAreTrue
PROPERTIES
    NewestKept
