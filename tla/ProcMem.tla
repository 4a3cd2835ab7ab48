-------------------------------- MODULE ProcMem --------------------------------
(***************************************************************************)
(* Access to the game's memory: readData and writeData of                   *)
(* HobbitGameManager/ProcessAnalyzer.h.  Both change the protection of the  *)
(* page, access it, and change the protection back, in three calls of the   *)
(* operating system, without a lock, from every thread of the client.       *)
(*                                                                          *)
(* A page is a model value and its contents are left out: an access stays   *)
(* within a page.  Windows is external: VirtualProtectEx fails if the       *)
(* process is gone or if it is given no place for the old protection.       *)
(***************************************************************************)
EXTENDS Naturals, FiniteSets

CONSTANTS
  Threads,
  Pages,
  Written,      \* the pages that are written: data of the game, which it writes itself
  Protection,   \* the protection the game has given its pages
  Refusals      \* a read may be refused although the page can be read

Protections == {"READONLY", "READWRITE", "EXECUTE_READ", "EXECUTE_READWRITE"}
Writable == {"READWRITE", "EXECUTE_READWRITE"}

ASSUME MemoryAssumption ==
  /\ Written \subseteq Pages
  /\ Protection \in [Pages -> Protections]
  /\ \A p \in Written : Protection[p] \in Writable
  /\ Refusals \in BOOLEAN

VARIABLES
  prot,         \* the protection of the pages
  pc, page, op, \* where a thread is in an access, to which page, to read or to write it
  old,          \* oldProtect: what VirtualProtectEx said the protection was
  alive,        \* the game's process
  disturbed     \* history: pages that were written, accessed by two threads at a time, or
                \* whose reading was refused

vars == <<prot, pc, page, op, old, alive, disturbed>>

Init ==
  /\ prot = Protection
  /\ pc = [t \in Threads |-> "idle"]
  /\ page \in [Threads -> Pages]
  /\ op = [t \in Threads |-> "read"]
  /\ old = [t \in Threads |-> "unset"]
  /\ alive = TRUE /\ disturbed = {}

Accessing(p) == {t \in Threads : pc[t] # "idle" /\ page[t] = p}

\* What the access is given: PAGE_READWRITE or PAGE_EXECUTE_READWRITE.  Mutant: a
\* reader asks for less.
WantedLess(o) == IF o = "read" THEN "READONLY" ELSE "EXECUTE_READWRITE"
Wanted(o) == IF o = "read" THEN "READWRITE" ELSE "EXECUTE_READWRITE"

\* Whether ReadProcessMemory or WriteProcessMemory is allowed.
Allowed(o, p) == o = "read" \/ prot[p] \in Writable

-------------------------------------------------------------------------------
\* readData or writeData is called; the process was found.
Begin(t, p, o) ==
  /\ pc[t] = "idle" /\ (o = "write" => p \in Written)
  /\ pc' = [pc EXCEPT ![t] = "protect"]
  /\ page' = [page EXCEPT ![t] = p]
  /\ op' = [op EXCEPT ![t] = o]
  /\ disturbed' = IF o = "write" \/ Accessing(p) # {} THEN disturbed \cup {p} ELSE disturbed
  /\ UNCHANGED <<prot, old, alive>>

\* VirtualProtectEx(..., &oldProtect).
Saved(t) == [old EXCEPT ![t] = prot[page[t]]]

Protect(t) ==
  /\ pc[t] = "protect"
  /\ IF alive
       THEN /\ old' = Saved(t)
            /\ prot' = [prot EXCEPT ![page[t]] = Wanted(op[t])]
            /\ pc' = [pc EXCEPT ![t] = "access"]
       ELSE pc' = [pc EXCEPT ![t] = "idle"] /\ UNCHANGED <<old, prot>>
  /\ UNCHANGED <<page, op, alive, disturbed>>

\* A refused write is logged, a refused read returns at once.
Access(t) ==
  /\ pc[t] = "access"
  /\ \/ /\ alive /\ Allowed(op[t], page[t])
        /\ pc' = [pc EXCEPT ![t] = "restore"]
        /\ UNCHANGED disturbed
     \/ /\ ~(alive /\ Allowed(op[t], page[t])) \/ Refusals
        /\ pc' = [pc EXCEPT ![t] = IF op[t] = "read" THEN "idle" ELSE "restore"]
        /\ disturbed' = disturbed \cup {page[t]}
  /\ UNCHANGED <<prot, page, op, old, alive>>

\* The reader passes &oldProtect to the call that restores, the writer passes NULL, so
\* that the call fails.  Mutant: so does the reader.
RestoresNothing(t) == prot
Restored(t) == IF op[t] = "read" THEN [prot EXCEPT ![page[t]] = old[t]] ELSE prot

Restore(t) ==
  /\ pc[t] = "restore"
  /\ prot' = IF alive THEN Restored(t) ELSE prot
  /\ old' = IF alive /\ op[t] = "read" THEN [old EXCEPT ![t] = prot[page[t]]] ELSE old
  /\ pc' = [pc EXCEPT ![t] = "idle"]
  /\ UNCHANGED <<page, op, alive, disturbed>>

GameEnds ==
  /\ alive' = FALSE
  /\ UNCHANGED <<prot, pc, page, op, old, disturbed>>

Next ==
  \/ \E t \in Threads :
       \/ \E p \in Pages, o \in {"read", "write"} : Begin(t, p, o)
       \/ Protect(t) \/ Access(t) \/ Restore(t)
  \/ GameEnds

Spec == Init /\ [][Next]_vars

-------------------------------------------------------------------------------
(* Properties.                                                              *)

\* Every variable has values of its type.
TypeOK ==
  /\ prot \in [Pages -> Protections]
  /\ pc \in [Threads -> {"idle", "protect", "access", "restore"}]
  /\ page \in [Threads -> Pages] /\ op \in [Threads -> {"read", "write"}]
  /\ old \in [Threads -> Protections \cup {"unset"}]
  /\ alive \in BOOLEAN /\ disturbed \subseteq Pages

\* A thread that restores the protection it found does not take away what another
\* thread has just been given: no write is refused while the game runs, although the
\* three calls of two accesses are not kept apart (ProcessAnalyzer.h:78-91, 105-119).
WritesAllowed ==
  \A t \in Threads : pc[t] = "access" /\ op[t] = "write" => prot[page[t]] \in Writable

\* While the game runs, a page that was only read, by one thread at a time, has the
\* protection the game has given it when it is not being read: "Restore the old
\* protection" (ProcessAnalyzer.h:118).
ReadsLeaveNoTrace ==
  \A p \in Pages \ disturbed : alive /\ Accessing(p) = {} => prot[p] = Protection[p]

===============================================================================
