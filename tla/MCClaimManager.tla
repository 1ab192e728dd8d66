--------------------------- MODULE MCClaimManager ---------------------------
(* ClaimManager on small sets; the bounds of each run are in its .cfg.      *)
EXTENDS ClaimManager, TLC

(* Devices are interchangeable, and so are activities and OTP ids.  Used    *)
(* for safety only.                                                         *)
Symmetric == Permutations(Device) \cup Permutations(Call) \cup Permutations(Otp)
=============================================================================
