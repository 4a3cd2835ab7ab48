------------------------------- MODULE MCStream -------------------------------
(* Instances of Stream for TLC: the values are in the cfg files.            *)
EXTENDS Stream
===============================================================================
