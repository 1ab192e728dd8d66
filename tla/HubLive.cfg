SPECIFICATION FairSpec
CONSTANTS
  None = None
  Device = {d1, s1}
  Source = {s1}
  Conn = {c1, c2}
  Task = {t1}
  Handler = {t1}
  Buffer = 1
PROPERTIES DisplacedEnds DeadIsUnregistered
