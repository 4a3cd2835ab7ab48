--------------------------- MODULE HobbitClientProofs ---------------------------
(***************************************************************************)
(* Proofs about HobbitClient, for any set of ids, any number of slots and   *)
(* any bounds: its types, that every event is applied once and in order,    *)
(* that snapshots only move forward, and that the slots follow the list of  *)
(* clients and hold the snapshots of their own clients.                     *)
(***************************************************************************)
EXTENDS HobbitClient, FiniteSetTheorems, SequenceTheorems, TLAPS

-------------------------------------------------------------------------------
(* Sets of natural numbers.                                                 *)

\* A set of numbers that is not empty has a least element.
LEMMA LeastNatural ==
  ASSUME NEW T, T \subseteq Nat, T # {}
  PROVE  \E m \in T : \A k \in T : m <= k
<1> DEFINE U == {1 .. n : n \in T}
<1>1. U \subseteq FiniteSubsetsOf(Nat) /\ U # {}
  <2>1. \A n \in T : 1 .. n \subseteq Nat /\ IsFiniteSet(1 .. n)
    BY FS_Interval
  <2> QED BY <2>1 DEF FiniteSubsetsOf
<1>2. IsWellFoundedOn(StrictSubsetOrdering(Nat), FiniteSubsetsOf(Nat))
  BY FS_StrictSubsetOrderingWellFounded
<1> HIDE DEF U
<1>3. PICK x \in U : \A y \in U : ~(<<y, x>> \in StrictSubsetOrdering(Nat))
  BY <1>1, <1>2, WFMin
<1>4. PICK m \in T : x = 1 .. m
  BY <1>3 DEF U
<1>5. ASSUME NEW k \in T, k < m PROVE FALSE
  <2>1. 1 .. k \subseteq 1 .. m /\ m \in 1 .. m /\ m \notin 1 .. k
    BY <1>5
  <2>2. <<1 .. k, 1 .. m>> \in StrictSubsetOrdering(Nat)
    BY <2>1 DEF StrictSubsetOrdering
  <2>3. 1 .. k \in U
    BY DEF U
  <2> QED BY <1>3, <1>4, <2>2, <2>3
<1> QED BY <1>5

\* What FiniteSetsExt's Min returns.
LEMMA MinIsLeast ==
  ASSUME NEW T, T \subseteq Nat, T # {}
  PROVE  Min(T) \in T /\ \A k \in T : Min(T) <= k
BY LeastNatural DEF Min

-------------------------------------------------------------------------------
(* The k-th element of a finite set.                                        *)

Below(S, x) == {y \in S : y < x}
FiniteNats(S) == S \subseteq Nat /\ IsFiniteSet(S)

\* Fewer elements are below a smaller element, and fewer than all below any.
LEMMA FewerBelow ==
  ASSUME NEW S, FiniteNats(S), NEW x \in S
  PROVE  /\ Cardinality(S) \in Nat
         /\ Cardinality(Below(S, x)) \in 0 .. Cardinality(S) - 1
         /\ \A y \in S : y < x => Cardinality(Below(S, y)) < Cardinality(Below(S, x))
<1>1. \A y \in S : IsFiniteSet(Below(S, y)) /\ Cardinality(Below(S, y)) \in Nat
  BY FS_Subset, FS_CardinalityType DEF Below, FiniteNats
<1>2. ASSUME NEW U, IsFiniteSet(U), NEW V \in SUBSET U, NEW z \in U, z \notin V
      PROVE  Cardinality(V) < Cardinality(U)
  BY <1>2, FS_Subset, FS_CardinalityType
<1>3. \A y \in S : y \in Nat /\ Below(S, y) \in SUBSET S /\ y \notin Below(S, y)
  BY DEF Below, FiniteNats
<1>4. ASSUME NEW y \in S, y < x PROVE Cardinality(Below(S, y)) < Cardinality(Below(S, x))
  <2>1. Below(S, y) \in SUBSET Below(S, x) /\ y \in Below(S, x) /\ y \notin Below(S, y)
    BY <1>3, <1>4 DEF Below
  <2> QED BY <1>1, <1>2, <2>1
<1>5. Cardinality(S) \in Nat /\ Cardinality(Below(S, x)) < Cardinality(S)
  BY <1>2, <1>3, FS_CardinalityType DEF FiniteNats
<1> QED BY <1>1, <1>4, <1>5

\* Every number of elements is below some element.
LEMMA SomeHasBelow ==
  ASSUME NEW S, FiniteNats(S), NEW k \in 1 .. Cardinality(S)
  PROVE  \E x \in S : Cardinality(Below(S, x)) = k - 1
<1> DEFINE N == 0 .. Cardinality(S) - 1
           r == [x \in S |-> Cardinality(Below(S, x))]
<1>1. Cardinality(S) \in Nat
  BY FS_CardinalityType DEF FiniteNats
<1>2. IsFiniteSet(N) /\ Cardinality(N) = Cardinality(S)
  <2>1. 0 \in Int /\ Cardinality(S) - 1 \in Int
    BY <1>1
  <2> QED BY <1>1, <2>1, FS_Interval
<1>3. r \in [S -> N]
  BY FewerBelow
<1>4. \A x, y \in S : r[x] = r[y] => x = y
  <2>1. ASSUME NEW x \in S, NEW y \in S, x < y PROVE r[x] # r[y]
    <3>1. Cardinality(Below(S, x)) < Cardinality(Below(S, y))
      BY <2>1, FewerBelow
    <3> QED BY <1>3, <3>1
  <2>2. \A x, y \in S : x < y \/ y < x \/ x = y
    BY DEF FiniteNats
  <2> QED BY <2>1, <2>2
<1> HIDE DEF N, r
<1>5. r \in Injection(S, N)
  BY <1>3, <1>4 DEF Injection, IsInjective
<1>6. r \in Surjection(S, N)
  BY <1>2, <1>5, FS_Injection
<1>7. k - 1 \in N
  BY <1>1 DEF N
<1> QED BY <1>6, <1>7 DEF Surjection, r

\* What Nth returns.
LEMMA NthElement ==
  ASSUME NEW S, FiniteNats(S), NEW k \in Nat \ {0}
  PROVE  IF k <= Cardinality(S) THEN Nth(S, k) \in S /\ Cardinality(Below(S, Nth(S, k))) = k - 1
                                ELSE Nth(S, k) = NoId
<1>1. Cardinality(S) \in Nat
  BY FS_CardinalityType DEF FiniteNats
<1>2. CASE k <= Cardinality(S)
  <2>1. \E x \in S : Cardinality(Below(S, x)) = k - 1
    BY <1>1, <1>2, SomeHasBelow
  <2>2. ~(Cardinality(S) < k)
    BY <1>1, <1>2
  <2>3. Nth(S, k) = IF Cardinality(S) < k THEN NoId
                    ELSE CHOOSE x \in S : Cardinality(Below(S, x)) = k - 1
    BY DEF Nth, Below
  <2>4. Nth(S, k) = CHOOSE x \in S : Cardinality(Below(S, x)) = k - 1
    BY <2>2, <2>3
  <2> QED BY <1>2, <2>1, <2>4
<1> QED BY <1>1, <1>2 DEF Nth

\* It enumerates the set in increasing order.
LEMMA NthIncreases ==
  ASSUME NEW S, FiniteNats(S), NEW k \in Nat \ {0}, NEW j \in 1 .. k - 1, k <= Cardinality(S)
  PROVE  Nth(S, j) < Nth(S, k)
<1>1. /\ Nth(S, k) \in S /\ Cardinality(Below(S, Nth(S, k))) = k - 1
      /\ Nth(S, j) \in S /\ Cardinality(Below(S, Nth(S, j))) = j - 1
  <2>1. Cardinality(S) \in Nat
    BY FS_CardinalityType DEF FiniteNats
  <2>2. j \in Nat \ {0} /\ j <= Cardinality(S)
    BY <2>1
  <2> QED BY <2>2, NthElement
<1>2. Nth(S, k) < Nth(S, j) => k - 1 < j - 1
  BY <1>1, FewerBelow
<1>3. Nth(S, k) \in Nat /\ Nth(S, j) \in Nat
  BY <1>1 DEF FiniteNats
<1> QED BY <1>1, <1>2, <1>3

\* Every element is the k-th for some k.
LEMMA NthReachesAll ==
  ASSUME NEW S, FiniteNats(S), NEW x \in S
  PROVE  \E k \in 1 .. Cardinality(S) : Nth(S, k) = x
<1> DEFINE k == Cardinality(Below(S, x)) + 1
<1>1. k \in 1 .. Cardinality(S) /\ Cardinality(S) \in Nat
  BY FewerBelow
<1> HIDE DEF k
<1>2. Nth(S, k) \in S /\ Cardinality(Below(S, Nth(S, k))) = k - 1
  BY <1>1, NthElement
<1>3. Cardinality(Below(S, x)) = k - 1
  BY <1>1, FewerBelow DEF k
<1>4. ~(x < Nth(S, k)) /\ ~(Nth(S, k) < x)
  BY <1>2, <1>3, FewerBelow
<1>5. x \in Nat /\ Nth(S, k) \in Nat
  BY <1>2 DEF FiniteNats
<1>6. Nth(S, k) = x
  BY <1>4, <1>5
<1> QED BY <1>1, <1>6

-------------------------------------------------------------------------------
(* The inductive invariant.                                                 *)

\* The parts of TypeOK that are kept separately.
ThreadsTyped ==
  /\ conn \in {"none", "up", "lost"} /\ isConnected \in BOOLEAN /\ running \in BOOLEAN
  /\ clientID \in {Unset, MyId}
  /\ ready \in BOOLEAN /\ flips \in 0 .. MaxFlips /\ late \in BOOLEAN
  /\ main \in {"idle", "waiting", "opening", "started", "joining", "stopped"}
  /\ rx \in {"none", "loop", "recv", "slots", "lastslots", "done", "broken"}
  /\ up \in {"none", "check", "events", "pop", "snaps", "find", "store", "clear", "write", "done"}

ListTyped ==
  /\ list \in SUBSET Ids /\ slotNo \in Slots /\ lists \in 0 .. MaxLists
  /\ playerId \in [Slots -> Ids \cup {NoId}]

SnapsTyped ==
  /\ snapshotMessages \in [Ids -> Nat] /\ copy \in [Ids -> Nat]
  /\ recvV \in [Ids -> Nat] /\ appliedV \in [Ids -> Nat]
  /\ cur \in Ids \cup {NoId} /\ slot \in Slots /\ foundAt \in 0 .. MaxLists
  /\ stored \in [Slots -> Ids \cup {NoId}]

EventsTyped ==
  eventMessages \in Seq(Nat) /\ applied \in Seq(Nat) /\ received \in 0 .. MaxEvents

\* The threads that have not been started.
StartInv ==
  /\ main = "idle" => rx = "none"
  /\ main \in {"idle", "waiting", "opening"} => up = "none"

\* The update thread pops the event that it applied, while others are appended.
EventsInv == (up = "pop" => eventMessages # <<>>) /\ EventsExactlyOnce

\* The snapshot being applied is later than the last one applied of its sender, and
\* so is every one that waits for it, in the copy or in the map; the one that was
\* applied and is still in the map is about to be cleared.
Newer(s, v) == v = 0 \/ v > appliedV[s] \/ (up = "clear" /\ s = cur)

SnapsInv ==
  /\ up \in {"find", "store", "clear"} => cur \in Ids /\ copy[cur] # 0
  /\ \A s \in Ids :
       /\ appliedV[s] <= recvV[s] /\ copy[s] <= recvV[s] /\ snapshotMessages[s] <= recvV[s]
       /\ Newer(s, copy[s]) /\ Newer(s, snapshotMessages[s])
       /\ snapshotMessages[s] = 0 \/ snapshotMessages[s] >= copy[s]
       /\ copy[s] # 0 => up \in {"snaps", "find", "store", "clear"}

\* The slots written so far are those of the list.
Filling == rx \in {"slots", "lastslots"}

SlotsInv ==
  /\ lists > 0 => \A i \in Slots : ~Filling \/ i < slotNo => playerId[i] = Nth(list, i)
  /\ rx = "lastslots" => list = {}

\* A search that began in slots that are not being written has not passed the slot
\* of the sender, and the slot it found holds it, as long as there is no new list.
SearchInv ==
  up = "find" /\ foundAt = lists /\ lists > 0 /\ cur \in list =>
    \A j \in Slots : j < slot => playerId[j] # cur

FoundInv ==
  /\ foundAt <= lists
  /\ rx = "slots" /\ lists > 0 => foundAt < lists
  /\ SearchInv /\ StoredInOwnSlot

IndInv == TypeOK /\ StartInv /\ EventsInv /\ SnapsInv /\ SlotsInv /\ FoundInv

-------------------------------------------------------------------------------
(* The steps keep it.                                                       *)

\* A client list is a finite set of numbers.
LEMMA ListIsFinite == ASSUME NEW S \in SUBSET Ids PROVE FiniteNats(S)
BY ClientAssumption, FS_Subset DEF FiniteNats

\* The slots are numbered from 1.
LEMMA SlotsArePositive == Slots \subseteq Nat \ {0} /\ 1 \in Slots
BY ClientAssumption DEF Slots

\* A slot is given an id of the list, or none.
LEMMA NthIsIdOrNone ==
  ASSUME NEW S \in SUBSET Ids, NEW i \in Slots
  PROVE  Nth(S, i) \in Ids \cup {NoId}
BY NthElement, ListIsFinite, SlotsArePositive

\* The snapshot that is next is one of the copy.
LEMMA FoundPending ==
  ASSUME Pending # {}
  PROVE  Min(Pending) \in Ids /\ copy[Min(Pending)] # 0
<1>1. Pending \subseteq Nat
  BY ClientAssumption DEF Pending
<1>2. Min(Pending) \in Pending
  BY <1>1, MinIsLeast
<1> QED BY <1>2 DEF Pending

\* The client starts without messages and with empty slots.
LEMMA InitInvariant == Init => IndInv
<1> SUFFICES ASSUME Init PROVE IndInv
  OBVIOUS
<1>1. TypeOK
  <2>1. NoSnaps \in [Ids -> Nat] /\ <<>> \in Seq(Nat) /\ 1 \in Slots
    BY SlotsArePositive DEF NoSnaps
  <2>2. 0 \in 0 .. MaxFlips /\ 0 \in 0 .. MaxLists /\ 0 \in 0 .. MaxEvents
    BY ClientAssumption
  <2> QED BY <2>1, <2>2 DEF Init, TypeOK
<1>2. StartInv /\ SnapsInv
  BY DEF Init, StartInv, SnapsInv, Newer, NoSnaps
<1>3. EventsInv
  <2>1. <<>> \o <<>> = [i \in 1 .. 0 |-> i]
    OBVIOUS
  <2> QED BY <2>1 DEF Init, EventsInv, EventsExactlyOnce
<1>4. SlotsInv /\ FoundInv
  BY DEF Init, SlotsInv, FoundInv, SearchInv, StoredInOwnSlot
<1> QED BY <1>1, <1>2, <1>3, <1>4 DEF IndInv

\* The threads stay at their places.
LEMMA ThreadsStep == IndInv /\ [Next]_vars => ThreadsTyped'
<1> SUFFICES ASSUME IndInv, [Next]_vars PROVE ThreadsTyped'
  OBVIOUS
<1> USE DEF mainVars, rxVars, upVars
<1>0. ThreadsTyped
  BY DEF IndInv, TypeOK, ThreadsTyped
<1>1. CASE StartConnect
  BY <1>0, <1>1 DEF StartConnect, ThreadsTyped
<1>2. CASE StartRunning
  BY <1>0, <1>2 DEF StartRunning, ThreadsTyped
<1>3. CASE StartUpdating
  BY <1>0, <1>3 DEF StartUpdating, ThreadsTyped
<1>4. CASE Stop
  BY <1>0, <1>4 DEF Stop, Halt, ThreadsTyped
<1>5. CASE Joined
  BY <1>0, <1>5 DEF Joined, ThreadsTyped
<1>6. CASE RxLoop
  BY <1>0, <1>6 DEF RxLoop, ThreadsTyped
<1>7. CASE RxId
  BY <1>0, <1>7 DEF RxId, ThreadsTyped
<1>8. CASE RxEvent
  BY <1>0, <1>8 DEF RxEvent, ThreadsTyped
<1>9. CASE \E s \in Ids : RxSnap(s)
  BY <1>0, <1>9 DEF RxSnap, ThreadsTyped
<1>10. CASE \E S \in SUBSET Ids : RxList(S)
  BY <1>0, <1>10 DEF RxList, UpdateClientList, RunningAfter, ThreadsTyped
<1>11. CASE RxServerDown
  BY <1>0, <1>11 DEF RxServerDown, UpdateClientList, RunningAfter, ThreadsTyped
<1>12. CASE RxBodyFails
  BY <1>0, <1>12 DEF RxBodyFails, ThreadsTyped
<1>13. CASE RxSlot
  BY <1>0, <1>13 DEF RxSlot, NoMoreSlots, ThreadsTyped
<1>14. CASE UpCheck
  BY <1>0, <1>14 DEF UpCheck, ThreadsTyped
<1>15. CASE UpEvent
  BY <1>0, <1>15 DEF UpEvent, ThreadsTyped
<1>16. CASE UpEventPop
  BY <1>0, <1>16 DEF UpEventPop, PopEvent, ThreadsTyped
<1>17. CASE UpSnapCopy
  BY <1>0, <1>17 DEF UpSnapCopy, ThreadsTyped
<1>18. CASE UpFind
  BY <1>0, <1>18 DEF UpFind, ThreadsTyped
<1>19. CASE UpStore
  BY <1>0, <1>19 DEF UpStore, ThreadsTyped
<1>20. CASE UpClear
  BY <1>0, <1>20 DEF UpClear, ClearSnaps, NoSnaps, ThreadsTyped
<1>21. CASE UpProcess
  BY <1>0, <1>21 DEF UpProcess, ThreadsTyped
<1>22. CASE UpWrite
  BY <1>0, <1>22 DEF UpWrite, ThreadsTyped
<1>23. CASE ConnectionLost
  BY <1>0, <1>23 DEF ConnectionLost, ThreadsTyped
<1>24. CASE LevelChange
  <2>1. flips \in 0 .. MaxFlips /\ flips < MaxFlips /\ flips' = flips + 1
    BY <1>0, <1>24 DEF LevelChange, ThreadsTyped
  <2>2. flips' \in 0 .. MaxFlips
    BY <2>1, ClientAssumption
  <2> QED BY <1>0, <1>24, <2>2 DEF LevelChange, ThreadsTyped
<1>26. CASE UpNext
  BY <1>0, <1>26 DEF UpNext, ThreadsTyped
<1>25. CASE UNCHANGED vars
  BY <1>0, <1>25 DEF vars, ThreadsTyped
<1> QED
  BY <1>1, <1>2, <1>3, <1>4, <1>5, <1>6, <1>7, <1>8, <1>9, <1>10, <1>11, <1>12, <1>13, <1>14, <1>15,
     <1>16, <1>17, <1>18, <1>19, <1>20, <1>21, <1>22, <1>23, <1>24, <1>25, <1>26
     DEF Next, MainStep, RxStep, UpStep

\* No thread runs before it is started.
LEMMA StartStep == IndInv /\ [Next]_vars => StartInv'
<1> SUFFICES ASSUME IndInv, [Next]_vars PROVE StartInv'
  OBVIOUS
<1> USE DEF mainVars, rxVars, upVars
<1>0. ThreadsTyped /\ StartInv
  BY DEF IndInv, TypeOK, ThreadsTyped
<1>1. CASE StartConnect
  BY <1>0, <1>1 DEF StartConnect, ThreadsTyped, StartInv
<1>2. CASE StartRunning
  BY <1>0, <1>2 DEF StartRunning, ThreadsTyped, StartInv
<1>3. CASE StartUpdating
  BY <1>0, <1>3 DEF StartUpdating, ThreadsTyped, StartInv
<1>4. CASE Stop
  BY <1>0, <1>4 DEF Stop, Halt, ThreadsTyped, StartInv
<1>5. CASE Joined
  BY <1>0, <1>5 DEF Joined, ThreadsTyped, StartInv
<1>6. CASE RxLoop
  BY <1>0, <1>6 DEF RxLoop, ThreadsTyped, StartInv
<1>7. CASE RxId
  BY <1>0, <1>7 DEF RxId, ThreadsTyped, StartInv
<1>8. CASE RxEvent
  BY <1>0, <1>8 DEF RxEvent, ThreadsTyped, StartInv
<1>9. CASE \E s \in Ids : RxSnap(s)
  BY <1>0, <1>9 DEF RxSnap, ThreadsTyped, StartInv
<1>10. CASE \E S \in SUBSET Ids : RxList(S)
  BY <1>0, <1>10 DEF RxList, UpdateClientList, RunningAfter, ThreadsTyped, StartInv
<1>11. CASE RxServerDown
  BY <1>0, <1>11 DEF RxServerDown, UpdateClientList, RunningAfter, ThreadsTyped, StartInv
<1>12. CASE RxBodyFails
  BY <1>0, <1>12 DEF RxBodyFails, ThreadsTyped, StartInv
<1>13. CASE RxSlot
  BY <1>0, <1>13 DEF RxSlot, NoMoreSlots, ThreadsTyped, StartInv
<1>14. CASE UpCheck
  BY <1>0, <1>14 DEF UpCheck, ThreadsTyped, StartInv
<1>15. CASE UpEvent
  BY <1>0, <1>15 DEF UpEvent, ThreadsTyped, StartInv
<1>16. CASE UpEventPop
  BY <1>0, <1>16 DEF UpEventPop, PopEvent, ThreadsTyped, StartInv
<1>17. CASE UpSnapCopy
  BY <1>0, <1>17 DEF UpSnapCopy, ThreadsTyped, StartInv
<1>18. CASE UpFind
  BY <1>0, <1>18 DEF UpFind, ThreadsTyped, StartInv
<1>19. CASE UpStore
  BY <1>0, <1>19 DEF UpStore, ThreadsTyped, StartInv
<1>20. CASE UpClear
  BY <1>0, <1>20 DEF UpClear, ClearSnaps, NoSnaps, ThreadsTyped, StartInv
<1>21. CASE UpProcess
  BY <1>0, <1>21 DEF UpProcess, ThreadsTyped, StartInv
<1>22. CASE UpWrite
  BY <1>0, <1>22 DEF UpWrite, ThreadsTyped, StartInv
<1>23. CASE ConnectionLost
  BY <1>0, <1>23 DEF ConnectionLost, ThreadsTyped, StartInv
<1>24. CASE LevelChange
  BY <1>0, <1>24 DEF LevelChange, ThreadsTyped, StartInv
<1>26. CASE UpNext
  BY <1>0, <1>26 DEF UpNext, ThreadsTyped, StartInv
<1>25. CASE UNCHANGED vars
  BY <1>0, <1>25 DEF vars, ThreadsTyped, StartInv
<1> QED
  BY <1>1, <1>2, <1>3, <1>4, <1>5, <1>6, <1>7, <1>8, <1>9, <1>10, <1>11, <1>12, <1>13, <1>14, <1>15,
     <1>16, <1>17, <1>18, <1>19, <1>20, <1>21, <1>22, <1>23, <1>24, <1>25, <1>26
     DEF Next, MainStep, RxStep, UpStep

\* The slots keep ids of players, or none.
LEMMA ListStep == IndInv /\ [Next]_vars => ListTyped'
<1> SUFFICES ASSUME IndInv, [Next]_vars PROVE ListTyped'
  OBVIOUS
<1> USE DEF mainVars, rxVars, upVars
<1>0. ListTyped
  BY DEF IndInv, TypeOK, ListTyped
<1>1. CASE StartConnect
  BY <1>0, <1>1 DEF StartConnect, ListTyped
<1>2. CASE StartRunning
  BY <1>0, <1>2 DEF StartRunning, ListTyped
<1>3. CASE StartUpdating
  BY <1>0, <1>3 DEF StartUpdating, ListTyped
<1>4. CASE Stop
  BY <1>0, <1>4 DEF Stop, Halt, ListTyped
<1>5. CASE Joined
  BY <1>0, <1>5 DEF Joined, ListTyped
<1>6. CASE RxLoop
  BY <1>0, <1>6 DEF RxLoop, ListTyped
<1>7. CASE RxId
  BY <1>0, <1>7 DEF RxId, ListTyped
<1>8. CASE RxEvent
  BY <1>0, <1>8 DEF RxEvent, ListTyped
<1>9. CASE \E s \in Ids : RxSnap(s)
  BY <1>0, <1>9 DEF RxSnap, ListTyped
<1>10. CASE \E S \in SUBSET Ids : RxList(S)
  <2>1. /\ list' \in SUBSET Ids /\ slotNo' = 1 /\ UNCHANGED playerId
        /\ lists < MaxLists /\ lists' = lists + 1
    BY <1>10 DEF RxList, UpdateClientList
  <2> QED BY <1>0, <2>1, ClientAssumption, SlotsArePositive DEF ListTyped
<1>11. CASE RxServerDown
  <2>1. list' = {} /\ slotNo' = 1 /\ UNCHANGED <<playerId, lists>>
    BY <1>11 DEF RxServerDown, UpdateClientList
  <2> QED BY <1>0, <2>1, SlotsArePositive DEF ListTyped
<1>12. CASE RxBodyFails
  BY <1>0, <1>12 DEF RxBodyFails, ListTyped
<1>13. CASE RxSlot
  <2>1. Nth(list, slotNo) \in Ids \cup {NoId}
    BY <1>0, NthIsIdOrNone DEF ListTyped
  <2>2. /\ playerId' = [playerId EXCEPT ![slotNo] = Nth(list, slotNo)]
        /\ slotNo' = IF slotNo = MaxPlayers THEN 1 ELSE slotNo + 1
        /\ UNCHANGED <<list, lists>>
    BY <1>13 DEF RxSlot, NoMoreSlots
  <2>3. slotNo' \in Slots
    BY <1>0, <2>2, ClientAssumption DEF ListTyped, Slots
  <2> QED BY <1>0, <2>1, <2>2, <2>3 DEF ListTyped
<1>14. CASE UpCheck
  BY <1>0, <1>14 DEF UpCheck, ListTyped
<1>15. CASE UpEvent
  BY <1>0, <1>15 DEF UpEvent, ListTyped
<1>16. CASE UpEventPop
  BY <1>0, <1>16 DEF UpEventPop, PopEvent, ListTyped
<1>17. CASE UpSnapCopy
  BY <1>0, <1>17 DEF UpSnapCopy, ListTyped
<1>18. CASE UpFind
  BY <1>0, <1>18 DEF UpFind, ListTyped
<1>19. CASE UpStore
  BY <1>0, <1>19 DEF UpStore, ListTyped
<1>20. CASE UpClear
  BY <1>0, <1>20 DEF UpClear, ClearSnaps, NoSnaps, ListTyped
<1>21. CASE UpProcess
  BY <1>0, <1>21 DEF UpProcess, ListTyped
<1>22. CASE UpWrite
  BY <1>0, <1>22 DEF UpWrite, ListTyped
<1>23. CASE ConnectionLost
  BY <1>0, <1>23 DEF ConnectionLost, ListTyped
<1>24. CASE LevelChange
  BY <1>0, <1>24 DEF LevelChange, ListTyped
<1>26. CASE UpNext
  BY <1>0, <1>26 DEF UpNext, ListTyped
<1>25. CASE UNCHANGED vars
  BY <1>0, <1>25 DEF vars, ListTyped
<1> QED
  BY <1>1, <1>2, <1>3, <1>4, <1>5, <1>6, <1>7, <1>8, <1>9, <1>10, <1>11, <1>12, <1>13, <1>14, <1>15,
     <1>16, <1>17, <1>18, <1>19, <1>20, <1>21, <1>22, <1>23, <1>24, <1>25, <1>26
     DEF Next, MainStep, RxStep, UpStep

\* The snapshots, in the map and in the copy, keep their type.
LEMMA SnapsTypedStep == IndInv /\ [Next]_vars => SnapsTyped'
<1> SUFFICES ASSUME IndInv, [Next]_vars PROVE SnapsTyped'
  OBVIOUS
<1> USE DEF mainVars, rxVars, upVars
<1>0. SnapsTyped /\ lists \in 0 .. MaxLists /\ (up = "store" => cur \in Ids)
  BY DEF IndInv, TypeOK, SnapsTyped, SnapsInv
<1>1. CASE StartConnect
  BY <1>0, <1>1 DEF StartConnect, SnapsTyped
<1>2. CASE StartRunning
  BY <1>0, <1>2 DEF StartRunning, SnapsTyped
<1>3. CASE StartUpdating
  BY <1>0, <1>3 DEF StartUpdating, SnapsTyped
<1>4. CASE Stop
  BY <1>0, <1>4 DEF Stop, Halt, SnapsTyped
<1>5. CASE Joined
  BY <1>0, <1>5 DEF Joined, SnapsTyped
<1>6. CASE RxLoop
  BY <1>0, <1>6 DEF RxLoop, SnapsTyped
<1>7. CASE RxId
  BY <1>0, <1>7 DEF RxId, SnapsTyped
<1>8. CASE RxEvent
  BY <1>0, <1>8 DEF RxEvent, SnapsTyped
<1>9. CASE \E s \in Ids : RxSnap(s)
  BY <1>0, <1>9 DEF RxSnap, SnapsTyped
<1>10. CASE \E S \in SUBSET Ids : RxList(S)
  BY <1>0, <1>10 DEF RxList, UpdateClientList, RunningAfter, SnapsTyped
<1>11. CASE RxServerDown
  BY <1>0, <1>11 DEF RxServerDown, UpdateClientList, RunningAfter, SnapsTyped
<1>12. CASE RxBodyFails
  BY <1>0, <1>12 DEF RxBodyFails, SnapsTyped
<1>13. CASE RxSlot
  BY <1>0, <1>13 DEF RxSlot, NoMoreSlots, SnapsTyped
<1>14. CASE UpCheck
  BY <1>0, <1>14 DEF UpCheck, SnapsTyped
<1>15. CASE UpEvent
  BY <1>0, <1>15 DEF UpEvent, SnapsTyped
<1>16. CASE UpEventPop
  BY <1>0, <1>16 DEF UpEventPop, PopEvent, SnapsTyped
<1>17. CASE UpSnapCopy
  BY <1>0, <1>17 DEF UpSnapCopy, SnapsTyped
<1>18. CASE UpFind
  <2>1. slot' \in {slot, 1} \/ (slot # MaxPlayers /\ slot' = slot + 1)
    BY <1>18 DEF UpFind, EndOfSlots
  <2>2. slot' \in Slots
    <3>1. slot \in 1 .. MaxPlayers /\ MaxPlayers \in Nat \ {0}
      BY <1>0, ClientAssumption DEF SnapsTyped, Slots
    <3> QED BY <2>1, <3>1 DEF Slots
  <2>3. UNCHANGED <<snapshotMessages, copy, recvV, appliedV, stored, cur, foundAt>>
    BY <1>18 DEF UpFind
  <2> QED BY <1>0, <2>2, <2>3 DEF SnapsTyped
<1>19. CASE UpStore
  BY <1>0, <1>19 DEF UpStore, SnapsTyped
<1>20. CASE UpClear
  <2>1. NoSnaps \in [Ids -> Nat] /\ 0 \in 0 .. MaxLists
    BY ClientAssumption DEF NoSnaps
  <2> QED BY <1>0, <1>20, <2>1, SlotsArePositive DEF UpClear, ClearSnaps, SnapsTyped
<1>21. CASE UpProcess
  BY <1>0, <1>21 DEF UpProcess, SnapsTyped
<1>22. CASE UpWrite
  BY <1>0, <1>22 DEF UpWrite, SnapsTyped
<1>23. CASE ConnectionLost
  BY <1>0, <1>23 DEF ConnectionLost, SnapsTyped
<1>24. CASE LevelChange
  BY <1>0, <1>24 DEF LevelChange, SnapsTyped
<1>26. CASE UpNext
  <2>1. cur' \in Ids
    BY <1>26, FoundPending DEF UpNext
  <2>2. slot' \in Slots
    BY <1>26, SlotsArePositive DEF UpNext
  <2>3. foundAt' \in 0 .. MaxLists
    BY <1>0, <1>26, ClientAssumption DEF UpNext
  <2>4. UNCHANGED <<snapshotMessages, copy, recvV, appliedV, stored>>
    BY <1>26 DEF UpNext
  <2> QED BY <1>0, <2>1, <2>2, <2>3, <2>4 DEF SnapsTyped
<1>25. CASE UNCHANGED vars
  BY <1>0, <1>25 DEF vars, SnapsTyped
<1> QED
  BY <1>1, <1>2, <1>3, <1>4, <1>5, <1>6, <1>7, <1>8, <1>9, <1>10, <1>11, <1>12, <1>13, <1>14, <1>15,
     <1>16, <1>17, <1>18, <1>19, <1>20, <1>21, <1>22, <1>23, <1>24, <1>25, <1>26
     DEF Next, MainStep, RxStep, UpStep

\* The queue of events keeps its type.
LEMMA EventsTypedStep == IndInv /\ [Next]_vars => EventsTyped'
<1> SUFFICES ASSUME IndInv, [Next]_vars PROVE EventsTyped'
  OBVIOUS
<1> USE DEF mainVars, rxVars, upVars
<1>0. EventsTyped
  BY DEF IndInv, TypeOK, EventsTyped
<1>1. CASE StartConnect
  BY <1>0, <1>1 DEF StartConnect, EventsTyped
<1>2. CASE StartRunning
  BY <1>0, <1>2 DEF StartRunning, EventsTyped
<1>3. CASE StartUpdating
  BY <1>0, <1>3 DEF StartUpdating, EventsTyped
<1>4. CASE Stop
  BY <1>0, <1>4 DEF Stop, Halt, EventsTyped
<1>5. CASE Joined
  BY <1>0, <1>5 DEF Joined, EventsTyped
<1>6. CASE RxLoop
  BY <1>0, <1>6 DEF RxLoop, EventsTyped
<1>7. CASE RxId
  BY <1>0, <1>7 DEF RxId, EventsTyped
<1>8. CASE RxEvent
  <2>1. received' \in 0 .. MaxEvents /\ received + 1 \in Nat
    BY <1>0, <1>8, ClientAssumption DEF RxEvent, EventsTyped
  <2>2. Append(eventMessages, received + 1) \in Seq(Nat)
    BY <1>0, <2>1 DEF EventsTyped
  <2> QED BY <1>0, <1>8, <2>1, <2>2 DEF RxEvent, EventsTyped
<1>9. CASE \E s \in Ids : RxSnap(s)
  BY <1>0, <1>9 DEF RxSnap, EventsTyped
<1>10. CASE \E S \in SUBSET Ids : RxList(S)
  BY <1>0, <1>10 DEF RxList, UpdateClientList, RunningAfter, EventsTyped
<1>11. CASE RxServerDown
  BY <1>0, <1>11 DEF RxServerDown, UpdateClientList, RunningAfter, EventsTyped
<1>12. CASE RxBodyFails
  BY <1>0, <1>12 DEF RxBodyFails, EventsTyped
<1>13. CASE RxSlot
  BY <1>0, <1>13 DEF RxSlot, NoMoreSlots, EventsTyped
<1>14. CASE UpCheck
  BY <1>0, <1>14 DEF UpCheck, EventsTyped
<1>15. CASE UpEvent
  <2>1. eventMessages # <<>>
    BY <1>15 DEF UpEvent, HasEvents
  <2>2. Append(applied, Head(eventMessages)) \in Seq(Nat)
    BY <1>0, <2>1 DEF EventsTyped
  <2> QED BY <1>0, <1>15, <2>2 DEF UpEvent, EventsTyped
<1>16. CASE UpEventPop
  <2>1. eventMessages # <<>>
    BY <1>16 DEF UpEventPop, IndInv, EventsInv
  <2>2. Tail(eventMessages) \in Seq(Nat)
    BY <1>0, <2>1 DEF EventsTyped
  <2> QED BY <1>0, <1>16, <2>2 DEF UpEventPop, PopEvent, EventsTyped
<1>17. CASE UpSnapCopy
  BY <1>0, <1>17 DEF UpSnapCopy, EventsTyped
<1>18. CASE UpFind
  BY <1>0, <1>18 DEF UpFind, EventsTyped
<1>19. CASE UpStore
  BY <1>0, <1>19 DEF UpStore, EventsTyped
<1>20. CASE UpClear
  BY <1>0, <1>20 DEF UpClear, ClearSnaps, NoSnaps, EventsTyped
<1>21. CASE UpProcess
  BY <1>0, <1>21 DEF UpProcess, EventsTyped
<1>22. CASE UpWrite
  BY <1>0, <1>22 DEF UpWrite, EventsTyped
<1>23. CASE ConnectionLost
  BY <1>0, <1>23 DEF ConnectionLost, EventsTyped
<1>24. CASE LevelChange
  BY <1>0, <1>24 DEF LevelChange, EventsTyped
<1>26. CASE UpNext
  BY <1>0, <1>26 DEF UpNext, EventsTyped
<1>25. CASE UNCHANGED vars
  BY <1>0, <1>25 DEF vars, EventsTyped
<1> QED
  BY <1>1, <1>2, <1>3, <1>4, <1>5, <1>6, <1>7, <1>8, <1>9, <1>10, <1>11, <1>12, <1>13, <1>14, <1>15,
     <1>16, <1>17, <1>18, <1>19, <1>20, <1>21, <1>22, <1>23, <1>24, <1>25, <1>26
     DEF Next, MainStep, RxStep, UpStep

\* A snapshot that is stored is newer than the one stored before of the same player.
LEMMA SnapsStep == IndInv /\ [Next]_vars => SnapsInv'
<1> SUFFICES ASSUME IndInv, [Next]_vars PROVE SnapsInv'
  OBVIOUS
<1> USE DEF mainVars, rxVars, upVars
<1>0. ThreadsTyped /\ SnapsTyped /\ SnapsInv /\ StartInv
  BY DEF IndInv, TypeOK, ThreadsTyped, SnapsTyped
<1>1. CASE StartConnect
  BY <1>0, <1>1 DEF StartConnect, SnapsInv, Newer, SnapsTyped
<1>2. CASE StartRunning
  BY <1>0, <1>2 DEF StartRunning, SnapsInv, Newer, SnapsTyped
<1>3. CASE StartUpdating
  BY <1>0, <1>3 DEF StartUpdating, StartInv, SnapsInv, Newer
<1>4. CASE Stop
  BY <1>0, <1>4 DEF Stop, Halt, SnapsInv, Newer, SnapsTyped
<1>5. CASE Joined
  BY <1>0, <1>5 DEF Joined, SnapsInv, Newer, SnapsTyped
<1>6. CASE RxLoop
  BY <1>0, <1>6 DEF RxLoop, SnapsInv, Newer, SnapsTyped
<1>7. CASE RxId
  BY <1>0, <1>7 DEF RxId, SnapsInv, Newer, SnapsTyped
<1>8. CASE RxEvent
  BY <1>0, <1>8 DEF RxEvent, SnapsInv, Newer, SnapsTyped
<1>9. CASE \E s \in Ids : RxSnap(s)
  <2>1. PICK s \in Ids : RxSnap(s)
    BY <1>9
  <2>2. /\ recvV' = [recvV EXCEPT ![s] = recvV[s] + 1]
        /\ snapshotMessages' = [snapshotMessages EXCEPT ![s] = recvV[s] + 1]
        /\ UNCHANGED <<up, copy, cur, appliedV>>
    BY <2>1 DEF RxSnap
  <2>3. /\ recvV'[s] = recvV[s] + 1 /\ snapshotMessages'[s] = recvV[s] + 1
        /\ \A t \in Ids \ {s} : recvV'[t] = recvV[t] /\ snapshotMessages'[t] = snapshotMessages[t]
    BY <1>0, <2>2 DEF SnapsTyped
  <2> QED BY <1>0, <2>2, <2>3 DEF SnapsInv, SnapsTyped, Newer
<1>10. CASE \E S \in SUBSET Ids : RxList(S)
  BY <1>0, <1>10 DEF RxList, UpdateClientList, RunningAfter, SnapsInv, Newer, SnapsTyped
<1>11. CASE RxServerDown
  BY <1>0, <1>11 DEF RxServerDown, UpdateClientList, RunningAfter, SnapsInv, Newer, SnapsTyped
<1>12. CASE RxBodyFails
  BY <1>0, <1>12 DEF RxBodyFails, SnapsInv, Newer, SnapsTyped
<1>13. CASE RxSlot
  BY <1>0, <1>13 DEF RxSlot, NoMoreSlots, SnapsInv, Newer, SnapsTyped
<1>14. CASE UpCheck
  BY <1>0, <1>14 DEF UpCheck, SnapsInv, Newer, SnapsTyped
<1>15. CASE UpEvent
  BY <1>0, <1>15 DEF UpEvent, SnapsInv, Newer, SnapsTyped
<1>16. CASE UpEventPop
  BY <1>0, <1>16 DEF UpEventPop, PopEvent, SnapsInv, Newer, SnapsTyped
<1>17. CASE UpSnapCopy
  <2>1. /\ copy' = snapshotMessages /\ up = "events" /\ up' = "snaps"
        /\ UNCHANGED <<cur, appliedV, recvV, snapshotMessages>>
    BY <1>17 DEF UpSnapCopy
  <2> QED BY <1>0, <2>1 DEF SnapsInv, Newer, SnapsTyped
<1>18. CASE UpFind
  <2>1. up' \in {"find", "store"} /\ up = "find"
        /\ UNCHANGED <<snapshotMessages, copy, recvV, appliedV, cur>>
    BY <1>18 DEF UpFind
  <2> QED BY <1>0, <2>1 DEF SnapsInv, Newer
<1>19. CASE UpStore
  BY <1>0, <1>19 DEF UpStore, SnapsInv, Newer, SnapsTyped
<1>20. CASE UpClear
  BY <1>0, <1>20 DEF UpClear, ClearSnaps, NoSnaps, SnapsInv, Newer, SnapsTyped
<1>21. CASE UpProcess
  <2>1. up' = "write" /\ (\A s \in Ids : copy[s] = 0) /\ UNCHANGED <<copy, cur, snapshotMessages, recvV, appliedV>>
    BY <1>21 DEF UpProcess, Pending
  <2>2. up # "clear"
    BY <1>21 DEF UpProcess
  <2> QED BY <1>0, <2>1, <2>2 DEF SnapsInv, Newer
<1>22. CASE UpWrite
  BY <1>0, <1>22 DEF UpWrite, SnapsInv, Newer, SnapsTyped
<1>23. CASE ConnectionLost
  BY <1>0, <1>23 DEF ConnectionLost, SnapsInv, Newer, SnapsTyped
<1>24. CASE LevelChange
  BY <1>0, <1>24 DEF LevelChange, SnapsInv, Newer, SnapsTyped
<1>26. CASE UpNext
  <2>1. cur' \in Ids /\ copy[cur'] # 0
    BY <1>26, FoundPending DEF UpNext
  <2> QED BY <1>0, <1>26, <2>1 DEF UpNext, SnapsInv, Newer
<1>25. CASE UNCHANGED vars
  BY <1>0, <1>25 DEF vars, SnapsInv, Newer, SnapsTyped
<1> QED
  BY <1>1, <1>2, <1>3, <1>4, <1>5, <1>6, <1>7, <1>8, <1>9, <1>10, <1>11, <1>12, <1>13, <1>14, <1>15,
     <1>16, <1>17, <1>18, <1>19, <1>20, <1>21, <1>22, <1>23, <1>24, <1>25, <1>26
     DEF Next, MainStep, RxStep, UpStep

\* The numbers of the events received, and one more.
LEMMA OneMoreEvent ==
  ASSUME NEW n \in Nat
  PROVE  [i \in 1 .. n + 1 |-> i] = Append([i \in 1 .. n |-> i], n + 1)
OBVIOUS

\* An element may be appended to the end of two sequences, or to the second one.
LEMMA AppendToRest ==
  ASSUME NEW s \in Seq(Nat), NEW t \in Seq(Nat), NEW e \in Nat
  PROVE  s \o Append(t, e) = Append(s \o t, e)
<1>1. <<e>> \in Seq(Nat) /\ s \o t \in Seq(Nat)
  BY ConcatProperties
<1>2. s \o Append(t, e) = s \o (t \o <<e>>) /\ Append(s \o t, e) = (s \o t) \o <<e>>
  BY <1>1, AppendIsConcat
<1> QED BY <1>1, <1>2, ConcatAssociative

\* The head of a sequence may move to the end of the one before it.
LEMMA MoveHead ==
  ASSUME NEW s \in Seq(Nat), NEW t \in Seq(Nat), t # <<>>
  PROVE  Append(s, Head(t)) \o Tail(t) = s \o t
<1>1. Head(t) \in Nat /\ Tail(t) \in Seq(Nat) /\ <<Head(t)>> \in Seq(Nat)
  BY HeadTailProperties
<1>2. t = <<Head(t)>> \o Tail(t)
  OBVIOUS
<1>3. Append(s, Head(t)) = s \o <<Head(t)>>
  BY <1>1, AppendIsConcat
<1>4. (s \o <<Head(t)>>) \o Tail(t) = s \o (<<Head(t)>> \o Tail(t))
  BY <1>1, ConcatAssociative
<1> QED BY <1>2, <1>3, <1>4

\* An event is popped after it was applied, and nothing else is popped.
LEMMA EventsStep == IndInv /\ [Next]_vars => EventsInv'
<1> SUFFICES ASSUME IndInv, [Next]_vars PROVE EventsInv'
  OBVIOUS
<1> USE DEF mainVars, rxVars, upVars
<1>0. EventsTyped /\ StartInv /\ EventsInv
  BY DEF IndInv, TypeOK, EventsTyped
<1>1. CASE StartConnect
  BY <1>0, <1>1 DEF StartConnect, EventsInv, EventsExactlyOnce
<1>2. CASE StartRunning
  BY <1>0, <1>2 DEF StartRunning, EventsInv, EventsExactlyOnce
<1>3. CASE StartUpdating
  BY <1>0, <1>3 DEF StartUpdating, StartInv, EventsInv, EventsExactlyOnce
<1>4. CASE Stop
  BY <1>0, <1>4 DEF Stop, Halt, EventsInv, EventsExactlyOnce
<1>5. CASE Joined
  BY <1>0, <1>5 DEF Joined, EventsInv, EventsExactlyOnce
<1>6. CASE RxLoop
  BY <1>0, <1>6 DEF RxLoop, EventsInv, EventsExactlyOnce
<1>7. CASE RxId
  BY <1>0, <1>7 DEF RxId, EventsInv, EventsExactlyOnce
<1>8. CASE RxEvent
  <2> DEFINE e == received + 1
             q == eventMessages
  <2>1. /\ received' = e /\ eventMessages' = Append(q, e) /\ UNCHANGED <<up, applied>>
        /\ e \in Nat /\ q \in Seq(Nat) /\ applied \in Seq(Nat)
    BY <1>0, <1>8 DEF RxEvent, EventsTyped
  <2>2. [i \in 1 .. e |-> i] = Append([i \in 1 .. received |-> i], e)
    BY <1>0, OneMoreEvent DEF EventsTyped
  <2>3. Append(q, e) # <<>>
    BY <2>1
  <2>4. CASE up = "pop"
    <3>1. q # <<>> /\ Tail(q) \in Seq(Nat) /\ applied \o Tail(q) = [i \in 1 .. received |-> i]
      BY <1>0, <2>1, <2>4, HeadTailProperties DEF EventsInv, EventsExactlyOnce
    <3>2. Tail(Append(q, e)) = Append(Tail(q), e)
      BY <2>1, <3>1, HeadTailAppend
    <3>3. applied \o Append(Tail(q), e) = Append(applied \o Tail(q), e)
      BY <2>1, <3>1, AppendToRest
    <3> QED BY <2>1, <2>2, <2>3, <2>4, <3>1, <3>2, <3>3 DEF EventsInv, EventsExactlyOnce
  <2>5. CASE up # "pop"
    <3>1. applied \o Append(q, e) = Append(applied \o q, e)
      BY <2>1, AppendToRest
    <3> QED BY <1>0, <2>1, <2>2, <2>5, <3>1 DEF EventsInv, EventsExactlyOnce
  <2> QED BY <2>4, <2>5
<1>9. CASE \E s \in Ids : RxSnap(s)
  BY <1>0, <1>9 DEF RxSnap, EventsInv, EventsExactlyOnce
<1>10. CASE \E S \in SUBSET Ids : RxList(S)
  BY <1>0, <1>10 DEF RxList, UpdateClientList, RunningAfter, EventsInv, EventsExactlyOnce
<1>11. CASE RxServerDown
  BY <1>0, <1>11 DEF RxServerDown, UpdateClientList, RunningAfter, EventsInv, EventsExactlyOnce
<1>12. CASE RxBodyFails
  BY <1>0, <1>12 DEF RxBodyFails, EventsInv, EventsExactlyOnce
<1>13. CASE RxSlot
  BY <1>0, <1>13 DEF RxSlot, NoMoreSlots, EventsInv, EventsExactlyOnce
<1>14. CASE UpCheck
  BY <1>0, <1>14 DEF UpCheck, EventsInv, EventsExactlyOnce
<1>15. CASE UpEvent
  <2>1. /\ up = "events" /\ up' = "pop" /\ eventMessages # <<>>
        /\ applied' = Append(applied, Head(eventMessages)) /\ UNCHANGED <<eventMessages, received>>
    BY <1>15 DEF UpEvent, HasEvents
  <2>2. Append(applied, Head(eventMessages)) \o Tail(eventMessages) = applied \o eventMessages
    BY <1>0, <2>1, MoveHead DEF EventsTyped
  <2> QED BY <1>0, <2>1, <2>2 DEF EventsInv, EventsExactlyOnce
<1>16. CASE UpEventPop
  BY <1>0, <1>16 DEF UpEventPop, PopEvent, EventsInv, EventsExactlyOnce
<1>17. CASE UpSnapCopy
  BY <1>0, <1>17 DEF UpSnapCopy, EventsInv, EventsExactlyOnce
<1>18. CASE UpFind
  BY <1>0, <1>18 DEF UpFind, EventsInv, EventsExactlyOnce
<1>19. CASE UpStore
  BY <1>0, <1>19 DEF UpStore, EventsInv, EventsExactlyOnce
<1>20. CASE UpClear
  BY <1>0, <1>20 DEF UpClear, ClearSnaps, NoSnaps, EventsInv, EventsExactlyOnce
<1>21. CASE UpProcess
  BY <1>0, <1>21 DEF UpProcess, EventsInv, EventsExactlyOnce
<1>22. CASE UpWrite
  BY <1>0, <1>22 DEF UpWrite, EventsInv, EventsExactlyOnce
<1>23. CASE ConnectionLost
  BY <1>0, <1>23 DEF ConnectionLost, EventsInv, EventsExactlyOnce
<1>24. CASE LevelChange
  BY <1>0, <1>24 DEF LevelChange, EventsInv, EventsExactlyOnce
<1>26. CASE UpNext
  BY <1>0, <1>26 DEF UpNext, EventsInv, EventsExactlyOnce
<1>25. CASE UNCHANGED vars
  BY <1>0, <1>25 DEF vars, EventsInv, EventsExactlyOnce
<1> QED
  BY <1>1, <1>2, <1>3, <1>4, <1>5, <1>6, <1>7, <1>8, <1>9, <1>10, <1>11, <1>12, <1>13, <1>14, <1>15,
     <1>16, <1>17, <1>18, <1>19, <1>20, <1>21, <1>22, <1>23, <1>24, <1>25, <1>26
     DEF Next, MainStep, RxStep, UpStep

\* The slots are filled in the order of the list.
LEMMA SlotsStep == IndInv /\ [Next]_vars => SlotsInv'
<1> SUFFICES ASSUME IndInv, [Next]_vars PROVE SlotsInv'
  OBVIOUS
<1> USE DEF mainVars, rxVars, upVars
<1>0. ThreadsTyped /\ ListTyped /\ StartInv /\ SlotsInv
  BY DEF IndInv, TypeOK, ThreadsTyped, ListTyped
<1>1. CASE StartConnect
  BY <1>0, <1>1 DEF StartConnect, StartInv, SlotsInv, Filling
<1>2. CASE StartRunning
  BY <1>0, <1>2 DEF StartRunning, ThreadsTyped, ListTyped, SlotsInv, Filling
<1>3. CASE StartUpdating
  BY <1>0, <1>3 DEF StartUpdating, ThreadsTyped, ListTyped, SlotsInv, Filling
<1>4. CASE Stop
  BY <1>0, <1>4 DEF Stop, Halt, ThreadsTyped, ListTyped, SlotsInv, Filling
<1>5. CASE Joined
  BY <1>0, <1>5 DEF Joined, ThreadsTyped, ListTyped, SlotsInv, Filling
<1>6. CASE RxLoop
  BY <1>0, <1>6 DEF RxLoop, ThreadsTyped, ListTyped, SlotsInv, Filling
<1>7. CASE RxId
  BY <1>0, <1>7 DEF RxId, ThreadsTyped, ListTyped, SlotsInv, Filling
<1>8. CASE RxEvent
  BY <1>0, <1>8 DEF RxEvent, ThreadsTyped, ListTyped, SlotsInv, Filling
<1>9. CASE \E s \in Ids : RxSnap(s)
  BY <1>0, <1>9 DEF RxSnap, ThreadsTyped, ListTyped, SlotsInv, Filling
<1>10. CASE \E S \in SUBSET Ids : RxList(S)
  <2>1. rx' = "slots" /\ slotNo' = 1 /\ UNCHANGED playerId
    BY <1>10 DEF RxList, UpdateClientList
  <2>2. \A i \in Slots : ~(i < 1)
    BY SlotsArePositive
  <2> QED BY <2>1, <2>2 DEF SlotsInv, Filling
<1>11. CASE RxServerDown
  <2>1. rx' = "lastslots" /\ slotNo' = 1 /\ list' = {} /\ UNCHANGED playerId
    BY <1>11 DEF RxServerDown, UpdateClientList
  <2>2. \A i \in Slots : ~(i < 1)
    BY SlotsArePositive
  <2> QED BY <2>1, <2>2 DEF SlotsInv, Filling
<1>12. CASE RxBodyFails
  BY <1>0, <1>12 DEF RxBodyFails, ThreadsTyped, ListTyped, SlotsInv, Filling
<1>13. CASE RxSlot
  <2>1. /\ Filling /\ UNCHANGED <<list, lists>>
        /\ playerId' = [playerId EXCEPT ![slotNo] = Nth(list, slotNo)]
        /\ IF slotNo = MaxPlayers THEN rx' \in {"loop", "done"} ELSE slotNo' = slotNo + 1 /\ rx' = rx
    BY <1>13 DEF RxSlot, NoMoreSlots, Filling
  <2>2. \A i \in Slots : /\ i < slotNo => playerId'[i] = playerId[i]
                         /\ i = slotNo => playerId'[i] = Nth(list, slotNo)
    BY <1>0, <2>1, SlotsArePositive DEF ListTyped
  <2>3. \A i \in Slots : i <= MaxPlayers /\ i \in Nat
    BY ClientAssumption DEF Slots
  <2>4. \A i \in Slots : ~Filling' \/ i < slotNo' => i < slotNo \/ i = slotNo
    BY <1>0, <2>1, <2>3 DEF ListTyped, Filling
  <2>5. ASSUME lists' > 0, NEW i \in Slots, ~Filling' \/ i < slotNo' PROVE playerId'[i] = Nth(list', i)
    <3>1. lists > 0 /\ list' = list
      BY <2>1, <2>5
    <3>2. CASE i = slotNo
      BY <2>2, <3>1, <3>2
    <3>3. CASE i < slotNo
      <4>1. playerId[i] = Nth(list, i)
        BY <1>0, <3>1, <3>3 DEF SlotsInv
      <4> QED BY <2>2, <3>1, <3>3, <4>1
    <3> QED BY <2>4, <2>5, <3>2, <3>3
  <2>6. rx' = "lastslots" => list' = {}
    BY <1>0, <2>1 DEF SlotsInv
  <2> QED BY <2>5, <2>6 DEF SlotsInv
<1>14. CASE UpCheck
  BY <1>0, <1>14 DEF UpCheck, ThreadsTyped, ListTyped, SlotsInv, Filling
<1>15. CASE UpEvent
  BY <1>0, <1>15 DEF UpEvent, ThreadsTyped, ListTyped, SlotsInv, Filling
<1>16. CASE UpEventPop
  BY <1>0, <1>16 DEF UpEventPop, PopEvent, ThreadsTyped, ListTyped, SlotsInv, Filling
<1>17. CASE UpSnapCopy
  BY <1>0, <1>17 DEF UpSnapCopy, ThreadsTyped, ListTyped, SlotsInv, Filling
<1>18. CASE UpFind
  BY <1>0, <1>18 DEF UpFind, ThreadsTyped, ListTyped, SlotsInv, Filling
<1>19. CASE UpStore
  BY <1>0, <1>19 DEF UpStore, ThreadsTyped, ListTyped, SlotsInv, Filling
<1>20. CASE UpClear
  BY <1>0, <1>20 DEF UpClear, ClearSnaps, NoSnaps, ThreadsTyped, ListTyped, SlotsInv, Filling
<1>21. CASE UpProcess
  BY <1>0, <1>21 DEF UpProcess, ThreadsTyped, ListTyped, SlotsInv, Filling
<1>22. CASE UpWrite
  BY <1>0, <1>22 DEF UpWrite, ThreadsTyped, ListTyped, SlotsInv, Filling
<1>23. CASE ConnectionLost
  BY <1>0, <1>23 DEF ConnectionLost, ThreadsTyped, ListTyped, SlotsInv, Filling
<1>24. CASE LevelChange
  BY <1>0, <1>24 DEF LevelChange, ThreadsTyped, ListTyped, SlotsInv, Filling
<1>26. CASE UpNext
  BY <1>0, <1>26 DEF UpNext, ThreadsTyped, ListTyped, SlotsInv, Filling
<1>25. CASE UNCHANGED vars
  BY <1>0, <1>25 DEF vars, ThreadsTyped, ListTyped, SlotsInv, Filling
<1> QED
  BY <1>1, <1>2, <1>3, <1>4, <1>5, <1>6, <1>7, <1>8, <1>9, <1>10, <1>11, <1>12, <1>13, <1>14, <1>15,
     <1>16, <1>17, <1>18, <1>19, <1>20, <1>21, <1>22, <1>23, <1>24, <1>25, <1>26
     DEF Next, MainStep, RxStep, UpStep

\* A slot that was found stays that of the sender, as long as no list comes in between.
LEMMA FoundStep == IndInv /\ [Next]_vars => FoundInv'
<1> SUFFICES ASSUME IndInv, [Next]_vars PROVE FoundInv'
  OBVIOUS
<1> USE DEF mainVars, rxVars, upVars
<1>0. ThreadsTyped /\ ListTyped /\ SnapsTyped /\ SlotsInv /\ FoundInv
  BY DEF IndInv, TypeOK, ThreadsTyped, ListTyped, SnapsTyped
<1>1. CASE StartConnect
  BY <1>0, <1>1 DEF StartConnect, ThreadsTyped, FoundInv, SearchInv, StoredInOwnSlot
<1>2. CASE StartRunning
  BY <1>0, <1>2 DEF StartRunning, ThreadsTyped, FoundInv, SearchInv, StoredInOwnSlot
<1>3. CASE StartUpdating
  BY <1>0, <1>3 DEF StartUpdating, ThreadsTyped, FoundInv, SearchInv, StoredInOwnSlot
<1>4. CASE Stop
  BY <1>0, <1>4 DEF Stop, Halt, ThreadsTyped, FoundInv, SearchInv, StoredInOwnSlot
<1>5. CASE Joined
  BY <1>0, <1>5 DEF Joined, ThreadsTyped, FoundInv, SearchInv, StoredInOwnSlot
<1>6. CASE RxLoop
  BY <1>0, <1>6 DEF RxLoop, ThreadsTyped, FoundInv, SearchInv, StoredInOwnSlot
<1>7. CASE RxId
  BY <1>0, <1>7 DEF RxId, ThreadsTyped, FoundInv, SearchInv, StoredInOwnSlot
<1>8. CASE RxEvent
  BY <1>0, <1>8 DEF RxEvent, ThreadsTyped, FoundInv, SearchInv, StoredInOwnSlot
<1>9. CASE \E s \in Ids : RxSnap(s)
  BY <1>0, <1>9 DEF RxSnap, ThreadsTyped, FoundInv, SearchInv, StoredInOwnSlot
<1>10. CASE \E S \in SUBSET Ids : RxList(S)
  <2>1. lists' = lists + 1 /\ UNCHANGED foundAt
    BY <1>10 DEF RxList
  <2>2. foundAt' <= lists' /\ foundAt' < lists' /\ foundAt' # lists'
    BY <1>0, <2>1 DEF FoundInv, ListTyped, SnapsTyped
  <2> QED BY <2>1, <2>2 DEF FoundInv, SearchInv, StoredInOwnSlot
<1>11. CASE RxServerDown
  <2>1. list' = {} /\ rx' = "lastslots" /\ UNCHANGED <<lists, foundAt>>
    BY <1>11 DEF RxServerDown, UpdateClientList
  <2> QED BY <1>0, <2>1 DEF FoundInv, SearchInv, StoredInOwnSlot
<1>12. CASE RxBodyFails
  BY <1>0, <1>12 DEF RxBodyFails, ThreadsTyped, FoundInv, SearchInv, StoredInOwnSlot
<1>13. CASE RxSlot
  <2>1. /\ Filling /\ rx' \in {rx, "loop", "done"} /\ UNCHANGED <<list, lists, up, foundAt, cur, slot>>
    BY <1>13 DEF RxSlot, Filling
  <2>2. ~(up \in {"find", "store"} /\ foundAt = lists /\ lists > 0 /\ cur \in list)
    BY <1>0, <2>1 DEF FoundInv, SlotsInv, Filling, ListTyped, SnapsTyped
  <2> QED BY <1>0, <2>1, <2>2 DEF FoundInv, SearchInv, StoredInOwnSlot
<1>14. CASE UpCheck
  BY <1>0, <1>14 DEF UpCheck, ThreadsTyped, FoundInv, SearchInv, StoredInOwnSlot
<1>15. CASE UpEvent
  BY <1>0, <1>15 DEF UpEvent, ThreadsTyped, FoundInv, SearchInv, StoredInOwnSlot
<1>16. CASE UpEventPop
  BY <1>0, <1>16 DEF UpEventPop, PopEvent, ThreadsTyped, FoundInv, SearchInv, StoredInOwnSlot
<1>17. CASE UpSnapCopy
  BY <1>0, <1>17 DEF UpSnapCopy, ThreadsTyped, FoundInv, SearchInv, StoredInOwnSlot
<1>18. CASE UpFind
  <2>1. up = "find" /\ UNCHANGED <<rx, list, lists, playerId, cur, foundAt>>
    BY <1>18 DEF UpFind
  <2>2. CASE playerId[slot] = cur
    <3>1. up' = "store" /\ slot' = slot
      BY <1>18, <2>2 DEF UpFind
    <3> QED BY <1>0, <2>1, <2>2, <3>1 DEF FoundInv, SearchInv, StoredInOwnSlot
  <2>3. CASE playerId[slot] # cur /\ slot = MaxPlayers
    <3>1. up' = "store"
      BY <1>18, <2>3 DEF UpFind, EndOfSlots
    <3>2. ASSUME foundAt = lists, lists > 0, cur \in list, Cardinality(list) <= MaxPlayers
          PROVE  FALSE
      <4>1. FiniteNats(list) /\ Cardinality(list) \in Nat
        BY <1>0, ListIsFinite, FS_CardinalityType DEF ListTyped, FiniteNats
      <4>2. PICK i \in 1 .. Cardinality(list) : Nth(list, i) = cur
        BY <3>2, <4>1, NthReachesAll
      <4>3. i \in Slots /\ (i < slot \/ i = slot)
        BY <2>3, <3>2, <4>1, ClientAssumption DEF Slots
      <4>4. ~Filling
        BY <1>0, <3>2 DEF Filling, SlotsInv, FoundInv, ListTyped
      <4>5. playerId[i] = cur
        BY <1>0, <3>2, <4>2, <4>3, <4>4 DEF SlotsInv
      <4>6. playerId[i] # cur
        BY <1>0, <2>1, <2>3, <3>2, <4>3 DEF FoundInv, SearchInv
      <4> QED BY <4>5, <4>6
    <3> QED BY <1>0, <2>1, <3>1, <3>2 DEF FoundInv, SearchInv, StoredInOwnSlot
  <2>4. CASE playerId[slot] # cur /\ slot # MaxPlayers
    <3>1. slot' = slot + 1 /\ up' = "find"
      BY <1>18, <2>1, <2>4 DEF UpFind, EndOfSlots
    <3>2. \A j \in Slots : j < slot' => j < slot \/ j = slot
      BY <1>0, <3>1, SlotsArePositive DEF SnapsTyped
    <3> QED BY <1>0, <2>1, <2>4, <3>1, <3>2 DEF FoundInv, SearchInv, StoredInOwnSlot
  <2> QED BY <2>2, <2>3, <2>4
<1>19. CASE UpStore
  BY <1>0, <1>19 DEF UpStore, ThreadsTyped, FoundInv, SearchInv, StoredInOwnSlot
<1>20. CASE UpClear
  <2>1. foundAt' = 0 /\ up' = "snaps" /\ UNCHANGED <<lists, rx>>
    BY <1>20 DEF UpClear
  <2> QED BY <1>0, <2>1 DEF FoundInv, SearchInv, StoredInOwnSlot, ListTyped
<1>21. CASE UpProcess
  BY <1>0, <1>21 DEF UpProcess, ThreadsTyped, FoundInv, SearchInv, StoredInOwnSlot
<1>22. CASE UpWrite
  BY <1>0, <1>22 DEF UpWrite, ThreadsTyped, FoundInv, SearchInv, StoredInOwnSlot
<1>23. CASE ConnectionLost
  BY <1>0, <1>23 DEF ConnectionLost, ThreadsTyped, FoundInv, SearchInv, StoredInOwnSlot
<1>24. CASE LevelChange
  BY <1>0, <1>24 DEF LevelChange, ThreadsTyped, FoundInv, SearchInv, StoredInOwnSlot
<1>26. CASE UpNext
  <2>1. /\ slot' = 1 /\ up' = "find"
        /\ foundAt' = IF rx = "slots" THEN 0 ELSE lists
        /\ UNCHANGED <<rx, lists>>
    BY <1>26 DEF UpNext
  <2>2. foundAt' <= lists' /\ (rx' = "slots" /\ lists' > 0 => foundAt' < lists')
    BY <1>0, <2>1 DEF ListTyped
  <2>3. \A j \in Slots : ~(j < slot')
    BY <2>1, SlotsArePositive
  <2> QED BY <2>1, <2>2, <2>3 DEF FoundInv, SearchInv, StoredInOwnSlot
<1>25. CASE UNCHANGED vars
  BY <1>0, <1>25 DEF vars, ThreadsTyped, FoundInv, SearchInv, StoredInOwnSlot
<1> QED
  BY <1>1, <1>2, <1>3, <1>4, <1>5, <1>6, <1>7, <1>8, <1>9, <1>10, <1>11, <1>12, <1>13, <1>14, <1>15,
     <1>16, <1>17, <1>18, <1>19, <1>20, <1>21, <1>22, <1>23, <1>24, <1>25, <1>26
     DEF Next, MainStep, RxStep, UpStep

\* Every step keeps the invariant.
LEMMA InvariantStep == IndInv /\ [Next]_vars => IndInv'
<1> SUFFICES ASSUME IndInv, [Next]_vars PROVE IndInv'
  OBVIOUS
<1>1. TypeOK'
  BY ThreadsStep, ListStep, SnapsTypedStep, EventsTypedStep
     DEF TypeOK, ThreadsTyped, ListTyped, SnapsTyped, EventsTyped
<1> QED BY <1>1, StartStep, SnapsStep, EventsStep, SlotsStep, FoundStep DEF IndInv

\* The invariant holds at all times.
LEMMA Invariance == Spec => []IndInv
BY InitInvariant, InvariantStep, PTL DEF Spec

-------------------------------------------------------------------------------
(* Theorems.                                                                *)

\* Every variable keeps its type; the receive thread never writes past the slots.
THEOREM TypeCorrectness == Spec => []TypeOK
<1>1. IndInv => TypeOK
  BY DEF IndInv
<1> QED BY <1>1, Invariance, PTL

\* Every event received is applied once and in order, although the queue grows
\* between the copy of its front and the pop.
THEOREM EventsAreExact == Spec => []EventsExactlyOnce
<1>1. IndInv => EventsExactlyOnce
  BY DEF IndInv, EventsInv
<1> QED BY <1>1, Invariance, PTL

\* Between two updates of the list, the slots hold its ids in increasing order.
THEOREM SlotsAreTheList == Spec => []SlotsFollowList
<1>1. ASSUME IndInv, rx = "recv", lists > 0, NEW i \in Slots
      PROVE  IF i <= Cardinality(list)
             THEN playerId[i] \in list /\ \A j \in 1 .. i - 1 : playerId[j] < playerId[i]
             ELSE playerId[i] = NoId
  <2>1. \A j \in Slots : playerId[j] = Nth(list, j)
    BY <1>1 DEF IndInv, SlotsInv, Filling
  <2>2. FiniteNats(list) /\ i \in Nat \ {0}
    BY <1>1, ListIsFinite, SlotsArePositive DEF IndInv, TypeOK
  <2>3. \A j \in 1 .. i - 1 : j \in Slots
    BY ClientAssumption DEF Slots
  <2>4. i <= Cardinality(list) => \A j \in 1 .. i - 1 : Nth(list, j) < Nth(list, i)
    BY <2>2, NthIncreases
  <2> QED BY <2>1, <2>2, <2>3, <2>4, NthElement
<1>2. IndInv => SlotsFollowList
  BY <1>1 DEF SlotsFollowList
<1> QED BY <1>2, Invariance, PTL

\* A snapshot goes to the slot of its sender, if the list stayed the same between the
\* search and the write, has no more clients than slots, and names the sender.
THEOREM SnapshotsInTheirSlots == Spec => []StoredInOwnSlot
<1>1. IndInv => StoredInOwnSlot
  BY DEF IndInv, FoundInv
<1> QED BY <1>1, Invariance, PTL

\* No snapshot is applied twice, and none after a later one of its sender.
THEOREM SnapshotsAdvance == Spec => SnapshotsMoveForward
<1> DEFINE Forward == \A s \in Ids : s = cur /\ up = "store" /\ up' = "clear" => appliedV'[s] > appliedV[s]
<1>1. ASSUME IndInv, Next, NEW s \in Ids, s = cur, up = "store", up' = "clear"
      PROVE  appliedV'[s] > appliedV[s]
  <2>1. UpStore
    BY <1>1
       DEF Next, MainStep, StartConnect, StartRunning, StartUpdating, Stop, Joined, RxStep, RxLoop,
           RxId,
       RxEvent, RxSnap, RxList, RxServerDown, RxBodyFails, RxSlot, UpStep, UpCheck, UpEvent, UpEventPop,
       UpSnapCopy, UpNext, UpFind, UpClear, UpProcess, UpWrite, ConnectionLost, LevelChange, upVars
  <2>2. appliedV'[s] = copy[s]
    BY <1>1, <2>1 DEF UpStore, IndInv, TypeOK
  <2>3. copy[s] > appliedV[s]
    BY <1>1 DEF IndInv, SnapsInv, Newer
  <2> QED BY <2>2, <2>3
<1>2. IndInv /\ [Next]_vars => [Forward]_vars
  BY <1>1
<1> QED BY <1>2, Invariance, PTL DEF Spec, SnapshotsMoveForward

===============================================================================
