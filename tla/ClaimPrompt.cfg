SPECIFICATION Spec
CONSTANTS
  None = None
  Device = {d1, d2, d3}
  Otp = {o1}
  Call = {c1, c2, c3, c4}
  TTL = 3
  Window = 1
  Prompt = TRUE
  Faults = {"crash"}
SYMMETRY Symmetric
INVARIANTS AtMostOneDelivery
PROPERTIES NoLateDelivery KeepsPromptContract
