CONSTANTS
    Hosts = {"www"}
    Zones = {"example"}
    Parent <- MCParent
    Admins = {w1, w2}
    MaxRequests = 3
    MaxCerts = 2
    Pages = {1, 2}
    Slots = {1, 2}
    Changes = 1
    MaxEvents = 3
SPECIFICATION CertificatesSpec
CHECK_DEADLOCK FALSE
INVARIANTS
    QueueIsServed
    
PROPERTIES
    
    PageComesToRest
