-------------------------------- MODULE MCRelay --------------------------------
(* Relay on small sets; the bounds of the run are in its .cfg.              *)
EXTENDS Relay, TLC

Symmetric == Permutations(Call) \cup Permutations(Device)
================================================================================
