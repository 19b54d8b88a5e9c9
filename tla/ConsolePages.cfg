SPECIFICATION ConsoleSpec
CONSTANTS
    None = None
    Lists = {"patterns", "entries", "ranges", "access", "apps"}
    Ids = {1, 2, 3}
    PageSizes = {1, 2}
    Rules = {1, 2, 3, 4}
    Opened = {2}
    MaxClicks = 3
    RuleClicks = 3
    MaxSends = 2
    MaxUpsets = 1
INVARIANTS
    RowsFollowOwnChanges
    OptimismSettles
    TiesAreExplained
PROPERTIES
    ImplementsSharedRows
CHECK_DEADLOCK FALSE
