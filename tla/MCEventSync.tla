------------------------------ MODULE MCEventSync ------------------------------
(* Instances of EventSync for TLC: the values are in the cfg files.         *)
EXTENDS EventSync
===============================================================================
