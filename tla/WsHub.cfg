SPECIFICATION FairSpec
CONSTANTS
  c1 = c1
  c2 = c2
  c3 = c3
  public = public
  proxy = proxy
  Client <- MCClient
  IP <- MCIP
  ipOf <- MCIpOf
  Distinct = {public}
  Denied = {}
  MaxClients = 2
  MaxConnsPerIP = 2
  UpgradesPerMin = 1
  Window = 1
  IdleGC = 0
  SendQueue = 1
  MaxTime = 1
INVARIANTS SlotsAgree NoSendOnClosed RateHolds
PROPERTIES ImplementsSlotPool SlotsComeBack
CHECK_DEADLOCK FALSE
