----------------------------- MODULE MCGameManager -----------------------------
(* Instances of GameManager for TLC: the values are in the cfg files.       *)
EXTENDS GameManager
===============================================================================
