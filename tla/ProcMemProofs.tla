----------------------------- MODULE ProcMemProofs -----------------------------
(***************************************************************************)
(* Theorems about ProcMem, for any threads and pages.  The inductive        *)
(* invariant says, besides the types:                                       *)
(*   Granted  that pages that are written stay writable, since whatever a   *)
(*            thread may restore is writable;                               *)
(*   Alone    that a page that is not disturbed has one reader at most;     *)
(*   Kept     that this reader knows the page's protection, and that it is  *)
(*            in force without a reader.                                    *)
(***************************************************************************)
EXTENDS ProcMem, TLAPS

Granted ==
  /\ \A p \in Written : prot[p] \in Writable
  /\ \A t \in Threads : /\ pc[t] \in {"access", "restore"} => old[t] \in Protections
                        /\ pc[t] \in {"access", "restore"} /\ page[t] \in Written => old[t] \in Writable
                        /\ pc[t] # "idle" /\ op[t] = "write" => page[t] \in Written

InUse(t, p) == pc[t] # "idle" /\ page[t] = p

Alone ==
  \A p \in Pages \ disturbed : \A t, u \in Threads :
    InUse(t, p) /\ InUse(u, p) => t = u /\ op[t] = "read"

Kept ==
  alive =>
    \A p \in Pages \ disturbed :
      /\ \A t \in Threads : InUse(t, p) =>
           /\ pc[t] = "protect" => prot[p] = Protection[p]
           /\ pc[t] \in {"access", "restore"} => old[t] = Protection[p]
      /\ (\A t \in Threads : ~InUse(t, p)) => prot[p] = Protection[p]

IndInv == TypeOK /\ Granted /\ Alone /\ Kept

-------------------------------------------------------------------------------
\* What an access is given makes the page writable.
LEMMA WantedWritable == \A o \in {"read", "write"} : Wanted(o) \in Writable /\ Wanted(o) \in Protections
BY DEF Wanted, Writable, Protections

\* Nobody accesses a page that is given its protection by the game.
LEMMA InitInv == Init => IndInv
<1> SUFFICES ASSUME Init PROVE IndInv
  OBVIOUS
<1>1. TypeOK
  BY MemoryAssumption DEF Init, TypeOK
<1>2. Granted /\ Alone /\ Kept
  BY MemoryAssumption DEF Init, Granted, Alone, Kept, InUse
<1> QED
  BY <1>1, <1>2 DEF IndInv

-------------------------------------------------------------------------------
(* The four steps of an access, and the end of the game, keep the invariant. *)

\* A second thread, or a writer, disturbs the page it begins to access.
LEMMA BeginInv ==
  ASSUME IndInv, NEW t \in Threads, NEW p \in Pages, NEW o \in {"read", "write"}, Begin(t, p, o)
  PROVE  IndInv'
<1>1. TypeOK'
  BY DEF IndInv, TypeOK, Begin
<1>2. Granted'
  BY DEF IndInv, TypeOK, Granted, Begin
<1>3. /\ disturbed \subseteq disturbed'
      /\ p \notin disturbed' => o = "read" /\ \A u \in Threads : ~InUse(u, p)
  BY DEF Begin, Accessing, InUse
<1>4. \A u \in Threads, q \in Pages : InUse(u, q)' <=> IF u = t THEN q = p ELSE InUse(u, q)
  BY DEF IndInv, TypeOK, Begin, InUse
<1>5. /\ pc[t] = "idle" /\ pc'[t] = "protect" /\ op'[t] = o
      /\ \A u \in Threads \ {t} : pc'[u] = pc[u] /\ op'[u] = op[u]
      /\ UNCHANGED <<prot, old, alive>>
  BY DEF IndInv, TypeOK, Begin
<1>6. Alone'
  BY <1>3, <1>4, <1>5 DEF IndInv, Alone
<1>7. Kept'
  <2> SUFFICES ASSUME alive', NEW q \in Pages, q \notin disturbed'
               PROVE  /\ \A u \in Threads : InUse(u, q)' =>
                           /\ pc'[u] = "protect" => prot'[q] = Protection[q]
                           /\ pc'[u] \in {"access", "restore"} => old'[u] = Protection[q]
                      /\ (\A u \in Threads : ~InUse(u, q)') => prot'[q] = Protection[q]
    BY DEF Kept
  <2>1. CASE q = p
    BY <2>1, <1>3, <1>4, <1>5 DEF IndInv, Kept
  <2>2. CASE q # p
    <3>1. ~InUse(t, q)
      BY <1>5 DEF InUse
    <3> QED
      BY <2>2, <3>1, <1>3, <1>4, <1>5 DEF IndInv, Kept
  <2> QED
    BY <2>1, <2>2
<1> QED
  BY <1>1, <1>2, <1>6, <1>7 DEF IndInv

\* The reader remembers the protection; every access makes the page writable.
LEMMA ProtectInv == ASSUME IndInv, NEW t \in Threads, Protect(t) PROVE IndInv'
<1>1. CASE alive
  <2>1. /\ page[t] \in Pages /\ pc[t] = "protect" /\ pc'[t] = "access"
        /\ prot' = [prot EXCEPT ![page[t]] = Wanted(op[t])]
        /\ old' = [old EXCEPT ![t] = prot[page[t]]]
        /\ \A u \in Threads \ {t} : pc'[u] = pc[u]
        /\ UNCHANGED <<page, op, alive, disturbed>>
    BY <1>1 DEF IndInv, TypeOK, Protect, Saved
  <2>2. TypeOK'
    BY <1>1, <2>1, WantedWritable DEF IndInv, TypeOK, Protect, Saved
  <2>3. Granted'
    BY <2>1, WantedWritable, MemoryAssumption DEF IndInv, TypeOK, Granted
  <2>4. \A u \in Threads, q \in Pages : InUse(u, q)' <=> InUse(u, q)
    BY <2>1 DEF InUse
  <2>5. Alone'
    BY <2>1, <2>4 DEF IndInv, Alone
  <2>6. Kept'
    <3> SUFFICES ASSUME NEW q \in Pages, q \notin disturbed
                 PROVE  /\ \A u \in Threads : InUse(u, q) =>
                             /\ pc'[u] = "protect" => prot'[q] = Protection[q]
                             /\ pc'[u] \in {"access", "restore"} => old'[u] = Protection[q]
                        /\ (\A u \in Threads : ~InUse(u, q)) => prot'[q] = Protection[q]
      BY <2>1, <2>4 DEF Kept
    <3>1. CASE q = page[t]
      <4>1. InUse(t, q) /\ prot[q] = Protection[q] /\ old'[t] = Protection[q]
        BY <1>1, <2>1, <3>1 DEF IndInv, TypeOK, Kept, InUse
      <4> QED
        BY <2>1, <4>1 DEF IndInv, Alone
    <3>2. CASE q # page[t]
      <4>1. ~InUse(t, q) /\ prot'[q] = prot[q] /\ \A u \in Threads \ {t} : old'[u] = old[u]
        BY <2>1, <3>2 DEF IndInv, TypeOK, InUse
      <4> QED
        BY <1>1, <2>1, <4>1 DEF IndInv, Kept
    <3> QED
      BY <3>1, <3>2
  <2> QED
    BY <2>2, <2>3, <2>5, <2>6 DEF IndInv
<1>2. CASE ~alive
  <2>1. /\ pc' = [pc EXCEPT ![t] = "idle"]
        /\ UNCHANGED <<prot, page, op, old, alive, disturbed>>
    BY <1>2 DEF Protect
  <2>2. TypeOK' /\ Granted'
    BY <2>1 DEF IndInv, TypeOK, Granted
  <2>3. Alone' /\ Kept'
    BY <1>2, <2>1 DEF IndInv, TypeOK, Alone, Kept, InUse
  <2> QED
    BY <2>2, <2>3 DEF IndInv
<1> QED
  BY <1>1, <1>2 DEF IndInv, TypeOK

\* Whether allowed or refused, an access changes no protection.
LEMMA AccessInv == ASSUME IndInv, NEW t \in Threads, Access(t) PROVE IndInv'
<1>1. /\ pc[t] = "access" /\ page[t] \in Pages
      /\ \/ pc'[t] = "restore"
         \/ pc'[t] = "idle" /\ page[t] \in disturbed'
      /\ pc' \in [Threads -> {"idle", "protect", "access", "restore"}]
      /\ \A u \in Threads \ {t} : pc'[u] = pc[u]
      /\ disturbed \subseteq disturbed' /\ disturbed' \subseteq Pages
      /\ UNCHANGED <<prot, page, op, old, alive>>
  BY DEF IndInv, TypeOK, Access
<1>2. TypeOK' /\ Granted'
  BY <1>1 DEF IndInv, TypeOK, Granted
<1>3. \A u \in Threads, q \in Pages \ disturbed' : InUse(u, q)' <=> InUse(u, q)
  BY <1>1 DEF InUse
<1>4. Alone'
  BY <1>1, <1>3 DEF IndInv, Alone
<1>5. Kept'
  BY <1>1, <1>3 DEF IndInv, Kept, InUse
<1> QED
  BY <1>2, <1>4, <1>5 DEF IndInv

\* The reader gives back what it remembers, the writer nothing.
LEMMA RestoreInv == ASSUME IndInv, NEW t \in Threads, Restore(t) PROVE IndInv'
<1>1. /\ page[t] \in Pages /\ pc[t] = "restore" /\ pc'[t] = "idle"
      /\ \A u \in Threads \ {t} : pc'[u] = pc[u] /\ old'[u] = old[u]
      /\ prot' = IF alive /\ op[t] = "read" THEN [prot EXCEPT ![page[t]] = old[t]] ELSE prot
      /\ UNCHANGED <<page, op, alive, disturbed>>
  BY DEF IndInv, TypeOK, Restore, Restored
<1>2. old'[t] \in Protections \cup {"unset"} /\ old' \in [Threads -> Protections \cup {"unset"}]
  BY DEF IndInv, TypeOK, Restore
<1>3. old[t] \in Protections /\ prot' \in [Pages -> Protections]
  BY <1>1 DEF IndInv, TypeOK, Granted
<1>4. TypeOK'
  BY <1>1, <1>2, <1>3 DEF IndInv, TypeOK, Restore
<1>5. Granted'
  BY <1>1, <1>3 DEF IndInv, TypeOK, Granted
<1>6. \A u \in Threads, q \in Pages : InUse(u, q)' <=> u # t /\ InUse(u, q)
  BY <1>1 DEF InUse
<1>7. Alone'
  BY <1>1, <1>6 DEF IndInv, Alone
<1>8. Kept'
  <2> SUFFICES ASSUME alive, NEW q \in Pages, q \notin disturbed
               PROVE  /\ \A u \in Threads : InUse(u, q)' =>
                           /\ pc'[u] = "protect" => prot'[q] = Protection[q]
                           /\ pc'[u] \in {"access", "restore"} => old'[u] = Protection[q]
                      /\ (\A u \in Threads : ~InUse(u, q)') => prot'[q] = Protection[q]
    BY <1>1 DEF Kept
  <2>1. CASE q = page[t]
    <3>1. InUse(t, q) /\ old[t] = Protection[q]
      BY <1>1, <2>1 DEF IndInv, Kept, InUse
    <3>2. op[t] = "read" /\ \A u \in Threads \ {t} : ~InUse(u, q)
      BY <3>1 DEF IndInv, Alone
    <3> QED
      BY <1>1, <1>6, <2>1, <3>1, <3>2 DEF IndInv, TypeOK
  <2>2. CASE q # page[t]
    <3>1. ~InUse(t, q) /\ prot'[q] = prot[q]
      BY <1>1, <2>2 DEF IndInv, TypeOK, InUse
    <3> QED
      BY <1>1, <1>6, <3>1 DEF IndInv, Kept
  <2> QED
    BY <2>1, <2>2
<1> QED
  BY <1>4, <1>5, <1>7, <1>8 DEF IndInv

\* Without the process nothing is said of its pages.
LEMMA GameEndsInv == ASSUME IndInv, GameEnds PROVE IndInv'
<1>1. TypeOK' /\ Granted'
  BY DEF IndInv, TypeOK, Granted, GameEnds
<1>2. Alone'
  BY DEF IndInv, Alone, InUse, GameEnds
<1>3. Kept'
  BY DEF Kept, GameEnds
<1> QED
  BY <1>1, <1>2, <1>3 DEF IndInv

-------------------------------------------------------------------------------
(* Theorems.                                                                *)

\* The inductive invariant, for any interleaving of any accesses.
THEOREM Invariance == Spec => []IndInv
<1>1. IndInv /\ [Next]_vars => IndInv'
  <2> SUFFICES ASSUME IndInv, [Next]_vars PROVE IndInv'
    OBVIOUS
  <2>1. ASSUME NEW t \in Threads, NEW p \in Pages, NEW o \in {"read", "write"}, Begin(t, p, o) PROVE IndInv'
    BY <2>1, BeginInv
  <2>2. ASSUME NEW t \in Threads, Protect(t) \/ Access(t) \/ Restore(t) PROVE IndInv'
    BY <2>2, ProtectInv, AccessInv, RestoreInv
  <2>3. CASE GameEnds
    BY <2>3, GameEndsInv
  <2>4. CASE UNCHANGED vars
    <3>1. TypeOK' /\ Granted'
      BY <2>4 DEF IndInv, TypeOK, Granted, vars
    <3>2. Alone' /\ Kept'
      BY <2>4 DEF IndInv, Alone, Kept, InUse, vars
    <3> QED
      BY <3>1, <3>2 DEF IndInv
  <2> QED
    BY <2>1, <2>2, <2>3, <2>4 DEF Next
<1> QED
  BY InitInv, <1>1, PTL DEF Spec

\* Every variable keeps its type; above all, what a reader restores is a protection.
THEOREM TypeCorrectness == Spec => []TypeOK
<1>1. IndInv => TypeOK
  BY DEF IndInv
<1> QED
  BY Invariance, <1>1, PTL

\* No thread takes away the access another one has been given (ProcessAnalyzer.h:78-91,
\* 105-119).
THEOREM WritersAreAllowed == Spec => []WritesAllowed
<1>1. IndInv => WritesAllowed
  BY DEF IndInv, Granted, WritesAllowed
<1> QED
  BY Invariance, <1>1, PTL

\* A single reader restores the protection it found (ProcessAnalyzer.h:118).
THEOREM ReadersLeaveNoTrace == Spec => []ReadsLeaveNoTrace
<1>1. IndInv => ReadsLeaveNoTrace
  BY DEF IndInv, Kept, InUse, Accessing, ReadsLeaveNoTrace
<1> QED
  BY Invariance, <1>1, PTL

===============================================================================
