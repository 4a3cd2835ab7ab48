--------------------------------- MODULE MCApp ---------------------------------
(* Instances of App for TLC: the values are in the cfg files.               *)
EXTENDS App
===============================================================================
