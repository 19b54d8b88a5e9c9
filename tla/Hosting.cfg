CONSTANTS
    Apps = {a, b}
    Admins = {w1, w2}
    Forms <- MCForms
    Tables <- MCTables
    Ports = {1, 2}
    MaxRequests = 2
SPECIFICATION Spec
INVARIANTS
    ServedAsStored
    ClashIsExplained
    FilesFollowRows
PROPERTY SnapshotCatchesUp
