SPECIFICATION Spec
CONSTANTS
  None = None
  Device = {d1, d2, d3}
  Otp = {o1}
  Call = {c1, c2, c3}
  TTL = 2
  Window = 1
  Prompt = FALSE
  Faults = {"db", "crash", "panic"}
SYMMETRY Symmetric
INVARIANTS TypeOK WindowHasTimer PaidSettled OnlyRivalsInvalidate WinnerClaimed
PROPERTIES SettledStays NoClaimForgotten KeepsContract
