SPECIFICATION FairSpec
CONSTANTS
  None = None
  Device = {d1}
  Invite = {i1, i2}
  Browser = {b1}
  Request = {r1, r2}
  SessionTTL = 1
  Grace = 1
  Horizon = 2
  Workloads = {{"login", "create", "delete", "claim"},
               {"login", "create", "delete", "push"},
               {"login", "create", "delete", "list"},
               {"login", "logout", "create", "list"},
               {"login", "invite", "qr"}}
  Faults = {"db"}
INVARIANTS TypeOK AnsweredIsStored RevokedIsShut QRNotStale
PROPERTIES LoginIsRecent SignalledStops RequestEnds
