SPECIFICATION FairSpec
CONSTANTS
  nodes = nodes
  s1 = s1
  s2 = s2
  MaxCalls = 2
  Path = {nodes}
  Use <- MCUse
  MaxAttempts = 1
  MaxVersion = 1
  Socket = {s1, s2}
  Pushed = {nodes}
INVARIANTS FreshAfterRefresh OneWatchedSocket
PROPERTIES BannerClears SilentIsReplaced
CHECK_DEADLOCK FALSE
