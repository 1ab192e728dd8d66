-------------------------------- MODULE MCHub --------------------------------
(* Hub on small sets; the bounds of each run are in its .cfg.               *)
EXTENDS Hub, TLC

Symmetric == Permutations(Device) \cup Permutations(Conn) \cup Permutations(Task)
==============================================================================
