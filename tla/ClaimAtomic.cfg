SPECIFICATION Spec
CONSTANTS
  None = None
  Device = {d1, d2}
  Otp = {o1}
  Call = {c1, c2, c3}
  TTL = 2
  Window = 1
  Prompt = TRUE
  Faults = {}
SYMMETRY Symmetric
PROPERTIES AtomicClaim
