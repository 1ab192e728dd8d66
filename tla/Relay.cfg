SPECIFICATION Spec
CONSTANTS
  None = None
  Device = {d1, d2}
  Online = {d1, d2}
  Otp = {o1}
  Call = {a1, a2}
  TTL = 1
  Window = 1
  Prompt = FALSE
  Faults = {"crash", "panic"}
  Conn = {k1}
  Handler = {h1}
  Buffer = 1
SYMMETRY Symmetric
INVARIANTS TypeOK NobodyIsStuck
PROPERTIES LossHasCause
