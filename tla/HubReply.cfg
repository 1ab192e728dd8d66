SPECIFICATION Spec
CONSTANTS
  None = None
  Device = {d1}
  Source = {}
  Conn = {c1, c2}
  Task = {t1}
  Handler = {}
  Buffer = 1
INVARIANTS ReconnectIsSafe
