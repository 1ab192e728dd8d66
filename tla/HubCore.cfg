SPECIFICATION Spec
CONSTANTS
  None = None
  Device = {d1, d2}
  Source = {}
  Conn = {c1, c2, c3}
  Task = {t1}
  Handler = {}
  Buffer = 1
SYMMETRY Symmetric
INVARIANTS TypeOK OpenIffRegistered RegisteredIsLive
PROPERTIES ReplacementStays RevokedStaysOffline KeepsHubContract
