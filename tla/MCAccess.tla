------------------------------- MODULE MCAccess -------------------------------
(* Access on small sets; the bounds of the run are in its .cfg.             *)
EXTENDS Access, TLC
===============================================================================
