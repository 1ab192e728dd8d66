SPECIFICATION FairSpec
CONSTANTS
  None = None
  Device = {d1, d2, d3}
  Sub = {s1, s2}
  Otp = {o1}
  Deaf = {s1}
INVARIANTS TypeOK FanInExact RevokedHearsNothing
PROPERTIES KeepsPushContract NobodyWaitsForTheDeaf IngestReturns
