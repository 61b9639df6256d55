SPECIFICATION FairSpec
CONSTANTS
  rf = rf
  skew = skew
  roles = roles
  p1 = p1
  Rc <- MCRc
  Deps <- MCDeps
  Gated = {rf}
  Servers <- MCServers
  Reader = {p1}
  PauseWhenIdle = TRUE
INVARIANTS NoLostWakeup StaleIsLabelled FullDataFirst RecomputedWhenLoaded
PROPERTIES NobodyStuck
