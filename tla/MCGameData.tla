------------------------------ MODULE MCGameData ------------------------------
(* Instances of GameData for TLC: the values are in the cfg files.          *)
EXTENDS GameData
===============================================================================
