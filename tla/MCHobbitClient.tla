---------------------------- MODULE MCHobbitClient ----------------------------
(* Instances of HobbitClient for TLC: the values are in the cfg files.      *)
EXTENDS HobbitClient
===============================================================================
