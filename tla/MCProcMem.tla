------------------------------- MODULE MCProcMem -------------------------------
(* Instances of ProcMem for TLC: the game's code can be executed, its data  *)
(* read and written.                                                        *)
EXTENDS ProcMem, TLC

CONSTANTS t1, t2, t3, data, code

GameProtection == data :> "READWRITE" @@ code :> "EXECUTE_READ"
Symmetric == Permutations(Threads)
===============================================================================
