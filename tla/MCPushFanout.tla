----------------------------- MODULE MCPushFanout -----------------------------
(* PushFanout on small sets; the bounds of each run are in its .cfg.        *)
EXTENDS PushFanout, TLC

(* Used for safety, with no deaf subscription. *)
Symmetric == Permutations(Device) \cup Permutations(Sub) \cup Permutations(Otp)
===============================================================================
