SPECIFICATION Spec
CONSTANTS
  Browsers = {b1, b2}
  Sections = {"waf", "scoring", "anomaly", "bot", "ratelimit", "reputation", "app"}
  None = None
  LimitTypes = {"error"}
  Extensions = {"js"}
  Inputs = {0}
  MaxEdits = 2
  MaxSaves = 2
  MaxUpsets = 1
INVARIANTS
  FormFollowsCache
  OwnSavesShown
PROPERTY ImplementsSharedSettings
CHECK_DEADLOCK FALSE
SYMMETRY Symmetry
