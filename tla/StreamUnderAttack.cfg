CONSTANTS
    Apps = {a}
    Admins = {w1}
    Forms <- MCForms
    Tables <- MCTables
    Ports = {1}
    MaxRequests = 3
SPECIFICATION Spec
INVARIANT StreamsNotUnderAttack
