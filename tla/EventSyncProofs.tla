---------------------------- MODULE EventSyncProofs ----------------------------
(***************************************************************************)
(* Proofs about EventSync, for any finite set of players, any levels, items *)
(* and bounds: its types, that no inventory falls below zero, that no       *)
(* change is echoed, and that players whose games change one at a time      *)
(* agree when everything was exchanged.                                     *)
(***************************************************************************)
EXTENDS EventSync, FiniteSetTheorems, TLAPS

-------------------------------------------------------------------------------
(* Types.                                                                   *)

\* The event of a health change, that of item changes, and no changes at all.
LEMMA EventTypes ==
  /\ \A l \in Levels, d \in Int : HealthMsg(l, d) \in Events
  /\ \A f \in ItemChanges : ItemsMsg(f) \in Events
  /\ None \in ItemChanges
<1>1. \A l \in Levels, d \in Int : HealthMsg(l, d) \in Events
  BY DEF HealthMsg, Events
<1>2. \A f \in ItemChanges : ItemsMsg(f) \in Events
  BY DEF ItemsMsg, Events
<1>3. None \in [{} -> Int]
  BY DEF None
<1>4. {} \in SUBSET Items
  OBVIOUS
<1>5. None \in ItemChanges
  BY <1>3, <1>4 DEF ItemChanges
<1> QED BY <1>1, <1>2, <1>5

\* What the head of a queue holds, and its tail.
LEMMA QueueTypes ==
  ASSUME TypeOK, NEW p \in Players, queue[p] # <<>>
  PROVE  /\ Head(queue[p]) \in Events /\ Tail(queue[p]) \in Seq(Events)
         /\ Head(queue[p]).kind = "health" => Head(queue[p]).by \in Int
         /\ Head(queue[p]).kind = "items" => Head(queue[p]).by \in ItemChanges
<1>1. queue[p] \in Seq(Events)
  BY DEF TypeOK
<1>2. Head(queue[p]) \in Events /\ Tail(queue[p]) \in Seq(Events)
  BY <1>1
<1> QED BY <1>2 DEF Events

\* Telling the others keeps what is first in a queue that is not empty.
LEMMA Told ==
  ASSUME TypeOK, NEW p \in Players, NEW m \in Events, Tell(p, m)
  PROVE  /\ queue' \in [Players -> Seq(Events)]
         /\ \A q \in Players : queue[q] # <<>> => queue'[q] # <<>> /\ Head(queue'[q]) = Head(queue[q])
<1>1. ASSUME NEW q \in Players
      PROVE  /\ Append(queue[q], m) \in Seq(Events)
             /\ queue[q] # <<>> => /\ Append(queue[q], m) # <<>>
                                   /\ Head(Append(queue[q], m)) = Head(queue[q])
  <2>1. queue[q] \in Seq(Events)
    BY DEF TypeOK
  <2> QED BY <2>1
<1>2. \A q \in Players : queue[q] \in Seq(Events)
  BY DEF TypeOK
<1>3. queue' = [q \in Players |-> IF q = p THEN queue[q] ELSE Append(queue[q], m)]
  BY DEF Tell
<1> QED BY <1>1, <1>2, <1>3

\* The differences that writeInventoryEvent computes.
LEMMA DeltaTypes ==
  ASSUME TypeOK, NEW p \in Players
  PROVE  [i \in {j \in Items : Sent(p, j)} |-> count[p][i] - seenCount[p][i]] \in ItemChanges
<1> DEFINE S == {j \in Items : Sent(p, j)}
<1>1. S \in SUBSET Items
  OBVIOUS
<1>2. count[p] \in [Items -> Int] /\ seenCount[p] \in [Items -> Int]
  BY DEF TypeOK
<1> HIDE DEF S
<1>3. [i \in S |-> count[p][i] - seenCount[p][i]] \in [S -> Int]
  BY <1>1, <1>2
<1>4. [i \in S |-> count[p][i] - seenCount[p][i]] \in ItemChanges
  BY <1>1, <1>3 DEF ItemChanges
<1> QED BY <1>4 DEF S

\* The games start with values of the types.
LEMMA TypeInit == Init => TypeOK
<1> SUFFICES ASSUME Init PROVE TypeOK
  OBVIOUS
<1>1. /\ <<>> \in Seq(Events) /\ None \in ItemChanges
      /\ First \in Levels /\ StartHealth \in Int /\ StartCount \in Int
      /\ 0 \in 0 .. MaxChanges
  BY EventTypes, SyncAssumption
<1>2. queue \in [Players -> Seq(Events)] /\ delta \in [Players -> ItemChanges]
  BY <1>1 DEF Init
<1>3. \A p \in Players : pc[p] # "hurt"
  BY DEF Init
<1> QED BY <1>1, <1>2, <1>3 DEF Init, TypeOK

\* The steps of a player's update thread that read events.
LEMMA TypeRead ==
  ASSUME TypeOK, NEW p \in Players,
         ReadPtrs(p) \/ SkipHealth(p) \/ ReadHealth(p) \/ WriteHealth(p) \/ ReadItems(p)
  PROVE  TypeOK'
<1> USE DEF gameVars, levelVars, Goto, Queued
<1>1. CASE ReadPtrs(p)
  BY <1>1 DEF ReadPtrs, TypeOK, Inventory
<1>2. CASE SkipHealth(p)
  <2>1. queue' = [queue EXCEPT ![p] = Tail(queue[p])] /\ pc[p] = "read" /\ pc' = pc /\ queue[p] # <<>>
    BY <1>2 DEF SkipHealth
  <2>2. queue' \in [Players -> Seq(Events)]
    BY <2>1, QueueTypes DEF TypeOK
  <2>3. \A q \in Players : pc'[q] = "hurt" => queue'[q] # <<>> /\ Head(queue'[q]).kind = "health"
    BY <2>1 DEF TypeOK
  <2> QED BY <1>2, <2>2, <2>3 DEF SkipHealth, TypeOK
<1>3. CASE ReadHealth(p)
  BY <1>3 DEF ReadHealth, TypeOK
<1>4. CASE WriteHealth(p)
  <2>1. /\ queue' = [queue EXCEPT ![p] = Tail(queue[p])] /\ pc' = [pc EXCEPT ![p] = "read"]
        /\ queue[p] # <<>> /\ Head(queue[p]).kind = "health"
    BY <1>4 DEF WriteHealth, TypeOK
  <2>2. queue' \in [Players -> Seq(Events)]
    BY <2>1, QueueTypes DEF TypeOK
  <2>3. read[p] + Head(queue[p]).by \in Int
    BY <2>1, QueueTypes DEF TypeOK
  <2>4. \A q \in Players : pc'[q] = "hurt" => queue'[q] # <<>> /\ Head(queue'[q]).kind = "health"
    BY <2>1 DEF TypeOK
  <2>5. health' \in [Players -> Int] /\ seenHealth' \in [Players -> Int] /\ read' \in [Players -> Int]
    BY <1>4, <2>3 DEF WriteHealth, HealthAfter, TypeOK
  <2>6. pc' \in [Players -> {"entered", "read", "hurt", "items", "diff", "send"}]
    BY <2>1 DEF TypeOK
  <2> QED BY <1>4, <2>2, <2>4, <2>5, <2>6 DEF WriteHealth, TypeOK
<1>5. CASE ReadItems(p)
  <2> DEFINE by == Head(queue[p]).by
             new == [i \in Items |-> IF i \in DOMAIN by THEN AddedTo(seenCount[p][i], by[i])
                                                        ELSE seenCount[p][i]]
  <2>1. /\ queue' = [queue EXCEPT ![p] = Tail(queue[p])] /\ pc[p] = "read" /\ pc' = pc
        /\ queue[p] # <<>> /\ by \in ItemChanges
    BY <1>5, QueueTypes DEF ReadItems
  <2>2. queue' \in [Players -> Seq(Events)]
    BY <2>1, QueueTypes DEF TypeOK
  <2>3. \A q \in Players : pc'[q] = "hurt" => queue'[q] # <<>> /\ Head(queue'[q]).kind = "health"
    BY <2>1 DEF TypeOK
  <2>4. seenCount[p] \in [Items -> Int] /\ count[p] \in [Items -> Int]
    BY DEF TypeOK
  <2>5. \A i \in DOMAIN by : by[i] \in Int
    BY <2>1 DEF ItemChanges
  <2>6. new \in [Items -> Int]
    BY <2>4, <2>5 DEF AddedTo
  <2>7. /\ seenCount' = [seenCount EXCEPT ![p] = new]
        /\ count' = [count EXCEPT ![p] = [i \in Items |-> IF i \in DOMAIN by THEN new[i] ELSE @[i]]]
    BY <1>5 DEF ReadItems
  <2> HIDE DEF by, new
  <2>8. [i \in Items |-> IF i \in DOMAIN by THEN new[i] ELSE count[p][i]] \in [Items -> Int]
    BY <2>4, <2>6
  <2>9. seenCount' \in [Players -> [Items -> Int]] /\ count' \in [Players -> [Items -> Int]]
    BY <2>6, <2>7, <2>8 DEF TypeOK
  <2> QED BY <1>5, <2>2, <2>3, <2>9 DEF ReadItems, TypeOK
<1> QED BY <1>1, <1>2, <1>3, <1>4, <1>5

\* Those that send.
LEMMA TypeSend ==
  ASSUME TypeOK, NEW p \in Players, SendHealth(p) \/ TestItems(p) \/ DiffItems(p) \/ SendItems(p)
  PROVE  TypeOK'
<1> USE DEF gameVars, levelVars, Goto
<1>1. CASE SendHealth(p)
  <2>1. HealthMsg(level[p], health[p] - seenHealth[p]) \in Events
    BY EventTypes DEF TypeOK
  <2>2. /\ queue' \in [Players -> Seq(Events)]
        /\ \A q \in Players : queue[q] # <<>> => queue'[q] # <<>> /\ Head(queue'[q]) = Head(queue[q])
    BY <1>1, <2>1, Told DEF SendHealth, TypeOK
  <2>3. pc' = [pc EXCEPT ![p] = "items"]
    BY <1>1 DEF SendHealth
  <2>4. \A q \in Players : pc'[q] = "hurt" => queue'[q] # <<>> /\ Head(queue'[q]).kind = "health"
    BY <2>2, <2>3 DEF TypeOK
  <2>5. seenHealth' \in [Players -> Int] /\ sends' \in Nat
    BY <1>1 DEF SendHealth, TypeOK
  <2>6. UNCHANGED <<gameVars, seenCount, read, delta>>
    BY <1>1 DEF SendHealth
  <2>7. pc' \in [Players -> {"entered", "read", "hurt", "items", "diff", "send"}]
    BY <2>3 DEF TypeOK
  <2> QED BY <2>2, <2>4, <2>5, <2>6, <2>7 DEF TypeOK
<1>2. CASE TestItems(p)
  <2>1. delta' \in [Players -> ItemChanges]
    BY <1>2, DeltaTypes DEF TestItems, TypeOK
  <2> QED BY <1>2, <2>1 DEF TestItems, TypeOK
<1>3. CASE DiffItems(p)
  <2>1. [i \in DOMAIN delta[p] |-> count[p][i] - seenCount[p][i]] \in ItemChanges
    BY DEF ItemChanges, TypeOK
  <2>2. delta' \in [Players -> ItemChanges]
    BY <1>3, <2>1 DEF DiffItems, TypeOK
  <2> QED BY <1>3, <2>2 DEF DiffItems, TypeOK
<1>4. CASE SendItems(p)
  <2>1. ItemsMsg(delta[p]) \in Events
    BY EventTypes DEF TypeOK
  <2>2. /\ queue' \in [Players -> Seq(Events)]
        /\ \A q \in Players : queue[q] # <<>> => queue'[q] # <<>> /\ Head(queue'[q]) = Head(queue[q])
    BY <1>4, <2>1, Told DEF SendItems, TypeOK
  <2>3. pc' = [pc EXCEPT ![p] = "read"] /\ delta' = [delta EXCEPT ![p] = None]
    BY <1>4 DEF SendItems
  <2>4. \A q \in Players : pc'[q] = "hurt" => queue'[q] # <<>> /\ Head(queue'[q]).kind = "health"
    BY <2>2, <2>3 DEF TypeOK
  <2>5. delta' \in [Players -> ItemChanges]
    BY <2>3, EventTypes DEF TypeOK
  <2>6. count[p] \in [Items -> Int] /\ seenCount[p] \in [Items -> Int]
    BY DEF TypeOK
  <2>7. [i \in Items |-> IF i \in DOMAIN delta[p] THEN count[p][i] ELSE seenCount[p][i]] \in [Items -> Int]
    BY <2>6
  <2>8. seenCount' = [seenCount EXCEPT ![p] =
           [i \in Items |-> IF i \in DOMAIN delta[p] THEN count[p][i] ELSE seenCount[p][i]]]
    BY <1>4 DEF SendItems
  <2>9. seenCount' \in [Players -> [Items -> Int]]
    BY <2>7, <2>8 DEF TypeOK
  <2> QED BY <1>4, <2>2, <2>3, <2>4, <2>5, <2>9 DEF SendItems, TypeOK
<1> QED BY <1>1, <1>2, <1>3, <1>4

\* What the games do.
LEMMA TypeGame ==
  ASSUME TypeOK, NEW p \in Players,
         Hit(p) \/ (\E i \in Items : Item(p, i)) \/ (\E l \in Levels : Enter(p, l))
  PROVE  TypeOK'
<1> USE SyncAssumption DEF levelVars, MayChange
<1>1. CASE Hit(p)
  BY <1>1 DEF Hit, TypeOK
<1>2. ASSUME NEW i \in Items, NEW d \in {-1, 1}, CountMoves(p, i, d)
      PROVE  count' \in [Players -> [Items -> Int]]
  BY <1>2 DEF CountMoves, TypeOK
<1>3. ASSUME NEW i \in Items, Item(p, i) PROVE TypeOK'
  <2>1. count' \in [Players -> [Items -> Int]]
    BY <1>2, <1>3 DEF Item
  <2>2. changes' \in 0 .. MaxChanges
    BY <1>3 DEF Item, TypeOK
  <2> QED BY <1>3, <2>1, <2>2 DEF Item, TypeOK
<1>4. ASSUME NEW l \in Levels, Enter(p, l) PROVE TypeOK'
  <2>1. count' \in [Players -> [Items -> Int]] /\ changes' \in 0 .. MaxChanges
    <3>1. CASE UNCHANGED <<count, changes>>
      BY <3>1 DEF TypeOK
    <3>2. CASE /\ changes < MaxChanges /\ changes' = changes + 1
               /\ \E i \in Items, d \in {-1, 1} : CountMoves(p, i, d)
      BY <1>2, <3>2 DEF TypeOK
    <3> QED BY <1>4, <3>1, <3>2 DEF Enter
  <2>2. /\ level' \in [Players -> Levels] /\ health' \in [Players -> Int] /\ apart' \subseteq Players
        /\ visits' \in Nat /\ pc' \in [Players -> {"entered", "read", "hurt", "items", "diff", "send"}]
    BY <1>4 DEF Enter, Goto, TypeOK
  <2>3. \A q \in Players : pc'[q] = "hurt" => queue'[q] # <<>> /\ Head(queue'[q]).kind = "health"
    BY <1>4 DEF Enter, Goto, TypeOK
  <2> QED BY <1>4, <2>1, <2>2, <2>3 DEF Enter, TypeOK
<1> QED BY <1>1, <1>3, <1>4

\* Every step of a game, a client or the network keeps the types.
LEMMA TypeStep == TypeOK /\ [Next]_vars => TypeOK'
<1> SUFFICES ASSUME TypeOK, [Next]_vars PROVE TypeOK'
  OBVIOUS
<1>1. CASE UNCHANGED vars
  BY <1>1 DEF vars, gameVars, levelVars, TypeOK
<1> QED BY <1>1, TypeRead, TypeSend, TypeGame DEF Next, Update

\* Every variable keeps its type, and the event that readProcessEnemiesHealth is
\* applying stays first in the queue.
THEOREM TypeCorrectness == Spec => []TypeOK
BY TypeInit, TypeStep, PTL DEF Spec

-------------------------------------------------------------------------------
(* No inventory falls below zero.                                           *)

\* An item is only used where there is one, and only added elsewhere.
LEMMA NonNegativeStep == TypeOK /\ NoNegativeItems /\ [Next]_vars => NoNegativeItems'
<1> SUFFICES ASSUME TypeOK, NoNegativeItems, [Next]_vars PROVE NoNegativeItems'
  OBVIOUS
<1> USE DEF gameVars, levelVars
<1>1. CASE UNCHANGED <<count, seenCount>>
  BY <1>1 DEF NoNegativeItems
<1>2. ASSUME NEW p \in Players, ReadPtrs(p) PROVE NoNegativeItems'
  BY <1>2 DEF ReadPtrs, Inventory, TypeOK, NoNegativeItems
<1>3. ASSUME NEW p \in Players, ReadItems(p) PROVE NoNegativeItems'
  <2> DEFINE by == Head(queue[p]).by
             new == [i \in Items |-> IF i \in DOMAIN by THEN AddedTo(seenCount[p][i], by[i])
                                                        ELSE seenCount[p][i]]
  <2>1. by \in ItemChanges
    BY <1>3, QueueTypes DEF ReadItems, Queued
  <2>2. \A i \in DOMAIN by : by[i] \in Int
    BY <2>1 DEF ItemChanges
  <2>3. \A i \in Items : seenCount[p][i] \in Int /\ seenCount[p][i] >= 0 /\ count[p][i] >= 0
    BY DEF TypeOK, NoNegativeItems
  <2>4. \A i \in Items : new[i] >= 0
    BY <2>2, <2>3 DEF AddedTo
  <2>5. /\ seenCount' = [seenCount EXCEPT ![p] = new]
        /\ count' = [count EXCEPT ![p] = [i \in Items |-> IF i \in DOMAIN by THEN new[i] ELSE count[p][i]]]
    BY <1>3 DEF ReadItems
  <2> HIDE DEF by, new
  <2> QED BY <2>3, <2>4, <2>5 DEF TypeOK, NoNegativeItems
<1>4. ASSUME NEW p \in Players, SendItems(p) PROVE NoNegativeItems'
  <2>1. /\ count' = count
        /\ seenCount' = [seenCount EXCEPT ![p] =
              [i \in Items |-> IF i \in DOMAIN delta[p] THEN count[p][i] ELSE seenCount[p][i]]]
    BY <1>4 DEF SendItems
  <2> QED BY <2>1 DEF TypeOK, NoNegativeItems
<1>5. ASSUME NEW p \in Players, NEW i \in Items, NEW d \in {-1, 1}, CountMoves(p, i, d),
             UNCHANGED seenCount
      PROVE  NoNegativeItems'
  BY <1>5 DEF CountMoves, TypeOK, NoNegativeItems
<1>6. ASSUME NEW p \in Players, NEW i \in Items, Item(p, i) PROVE NoNegativeItems'
  BY <1>5, <1>6 DEF Item
<1>7. ASSUME NEW p \in Players, NEW l \in Levels, Enter(p, l) PROVE NoNegativeItems'
  BY <1>1, <1>5, <1>7 DEF Enter
<1>8. ASSUME NEW p \in Players,
             \/ SkipHealth(p) \/ ReadHealth(p) \/ WriteHealth(p) \/ SendHealth(p)
             \/ TestItems(p) \/ DiffItems(p) \/ Hit(p)
      PROVE  NoNegativeItems'
  BY <1>1, <1>8 DEF SkipHealth, ReadHealth, WriteHealth, SendHealth, TestItems, DiffItems, Hit
<1>9. CASE UNCHANGED vars
  BY <1>1, <1>9 DEF vars
<1> QED BY <1>2, <1>3, <1>4, <1>6, <1>7, <1>8, <1>9 DEF Next, Update

\* No inventory falls below zero, whatever the players find and use up at the same
\* time, in any order the events arrive.
THEOREM ItemsNonNegative == Spec => []NoNegativeItems
<1>1. Init => NoNegativeItems
  BY SyncAssumption DEF Init, NoNegativeItems
<1> QED BY <1>1, NonNegativeStep, TypeCorrectness, PTL DEF Spec

-------------------------------------------------------------------------------
(* No change is echoed.                                                     *)
(*                                                                          *)
(* The changes of the games that may still be sent: the health and the      *)
(* items in which a game differs from what its client has seen, or of which *)
(* the difference is about to be sent.  Every one of them, and every event  *)
(* sent, goes back to a change of its own.                                  *)

Hurting == {p \in Players : pc[p] # "entered" /\ health[p] # seenHealth[p]}
Moving == {x \in Players \X Items : \/ count[x[1]][x[2]] # seenCount[x[1]][x[2]]
                                    \/ x[2] \in DOMAIN delta[x[1]]}
Paid == sends + Cardinality(Hurting) + Cardinality(Moving) <= changes

\* Finite sets that shrink, grow by an element or lose one.
LEMMA Shrinks == ASSUME NEW S, NEW T, IsFiniteSet(S), T \subseteq S
                 PROVE  IsFiniteSet(T) /\ Cardinality(T) \in Nat /\ Cardinality(S) \in Nat
                        /\ Cardinality(T) <= Cardinality(S)
BY FS_Subset, FS_CardinalityType

\* A set with at most one element more ...
LEMMA Grows == ASSUME NEW S, NEW T, NEW x, IsFiniteSet(S), T \subseteq S \cup {x}
               PROVE  /\ IsFiniteSet(T) /\ Cardinality(T) \in Nat /\ Cardinality(S) \in Nat
                      /\ Cardinality(T) <= Cardinality(S) + 1
<1>1. IsFiniteSet(S \cup {x}) /\ Cardinality(S \cup {x}) <= Cardinality(S) + 1 /\ Cardinality(S) \in Nat
  BY FS_AddElement, FS_CardinalityType
<1> QED BY <1>1, Shrinks

\* ... and one with an element less.
LEMMA Loses == ASSUME NEW S, NEW T, NEW x \in S, IsFiniteSet(S), T \subseteq S \ {x}
               PROVE  /\ IsFiniteSet(T) /\ Cardinality(T) \in Nat /\ Cardinality(S) \in Nat
                      /\ Cardinality(T) + 1 <= Cardinality(S)
<1>1. IsFiniteSet(S \ {x}) /\ Cardinality(S \ {x}) = Cardinality(S) - 1 /\ Cardinality(S) \in Nat
  BY FS_RemoveElement, FS_CardinalityType
<1>2. IsFiniteSet(T) /\ Cardinality(T) \in Nat /\ Cardinality(T) <= Cardinality(S \ {x})
  BY <1>1, Shrinks
<1> QED BY <1>1, <1>2

\* What may still be sent is finite.
LEMMA FinitePending == IsFiniteSet(Hurting) /\ IsFiniteSet(Moving)
<1>1. IsFiniteSet(Players) /\ Items \subseteq 0 .. 55
  BY SyncAssumption
<1>2. IsFiniteSet(Items)
  <2>1. 0 \in Int /\ 55 \in Int
    OBVIOUS
  <2>2. IsFiniteSet(0 .. 55)
    BY <2>1, FS_Interval
  <2> QED BY <1>1, <2>2, Shrinks
<1>3. IsFiniteSet(Players \X Items)
  BY <1>1, <1>2, FS_Product
<1>4. Hurting \subseteq Players /\ Moving \subseteq Players \X Items
  BY DEF Hurting, Moving
<1> QED BY <1>1, <1>3, <1>4, Shrinks

\* What a client or an entry does leaves at most the health changes that were to be told.
LEMMA HurtingUpdate ==
  ASSUME TypeOK, NEW p \in Players, Update(p) \/ \E l \in Levels : Enter(p, l)
  PROVE  /\ Hurting' \subseteq Hurting
         /\ SendHealth(p) => p \notin Hurting'
<1> USE DEF Hurting, Goto, gameVars, levelVars
<1>1. CASE ReadPtrs(p)
  BY <1>1 DEF ReadPtrs, SendHealth, TypeOK
<1>2. CASE SkipHealth(p) \/ ReadHealth(p)
  BY <1>2 DEF SkipHealth, ReadHealth, SendHealth, TypeOK
<1>3. CASE WriteHealth(p)
  BY <1>3 DEF WriteHealth, HealthAfter, SendHealth, TypeOK
<1>4. CASE ReadItems(p)
  <2>1. UNCHANGED <<health, seenHealth, pc>> /\ Queued(p)
    BY <1>4 DEF ReadItems
  <2> QED BY <2>1 DEF SendHealth
<1>5. CASE SendHealth(p)
  BY <1>5 DEF SendHealth, TypeOK
<1>6. CASE TestItems(p) \/ DiffItems(p) \/ SendItems(p)
  <2>1. UNCHANGED <<health, seenHealth>> /\ pc[p] # "entered" /\ pc[p] # "read"
        /\ \E l \in {"diff", "send", "read"} : pc' = [pc EXCEPT ![p] = l]
    BY <1>6 DEF TestItems, DiffItems, SendItems
  <2> QED BY <2>1 DEF SendHealth, TypeOK
<1>7. ASSUME NEW l \in Levels, Enter(p, l)
      PROVE  Hurting' \subseteq Hurting /\ p \notin Hurting'
  BY <1>7 DEF Enter, TypeOK
<1> QED BY <1>1, <1>2, <1>3, <1>4, <1>5, <1>6, <1>7 DEF Update

\* The budget is kept if nothing becomes pending ...
LEMMA Idle ==
  ASSUME TypeOK, Paid, UNCHANGED sends, changes' \in Nat, changes' >= changes,
         Hurting' \subseteq Hurting, Moving' \subseteq Moving
  PROVE  Paid'
<1>1. /\ Cardinality(Hurting') \in Nat /\ Cardinality(Hurting) \in Nat
      /\ Cardinality(Hurting') <= Cardinality(Hurting)
  BY FinitePending, Shrinks
<1>2. /\ Cardinality(Moving') \in Nat /\ Cardinality(Moving) \in Nat
      /\ Cardinality(Moving') <= Cardinality(Moving)
  BY FinitePending, Shrinks
<1> QED BY <1>1, <1>2, SyncAssumption DEF Paid, TypeOK

\* ... if one thing does and the games have made one more change ...
LEMMA Change ==
  ASSUME TypeOK, Paid, UNCHANGED sends, changes' = changes + 1, NEW x,
         \/ Hurting' \subseteq Hurting \cup {x} /\ Moving' \subseteq Moving
         \/ Hurting' \subseteq Hurting /\ Moving' \subseteq Moving \cup {x}
  PROVE  Paid'
<1>1. /\ Cardinality(Hurting') \in Nat /\ Cardinality(Hurting) \in Nat
      /\ Cardinality(Moving') \in Nat /\ Cardinality(Moving) \in Nat
      /\ Cardinality(Hurting') + Cardinality(Moving') <= Cardinality(Hurting) + Cardinality(Moving) + 1
  <2>1. CASE Hurting' \subseteq Hurting \cup {x} /\ Moving' \subseteq Moving
    <3>1. /\ Cardinality(Hurting') \in Nat /\ Cardinality(Hurting) \in Nat
          /\ Cardinality(Hurting') <= Cardinality(Hurting) + 1
      BY <2>1, FinitePending, Grows
    <3>2. /\ Cardinality(Moving') \in Nat /\ Cardinality(Moving) \in Nat
          /\ Cardinality(Moving') <= Cardinality(Moving)
      BY <2>1, FinitePending, Shrinks
    <3> QED BY <3>1, <3>2
  <2>2. CASE Hurting' \subseteq Hurting /\ Moving' \subseteq Moving \cup {x}
    <3>1. /\ Cardinality(Moving') \in Nat /\ Cardinality(Moving) \in Nat
          /\ Cardinality(Moving') <= Cardinality(Moving) + 1
      BY <2>2, FinitePending, Grows
    <3>2. /\ Cardinality(Hurting') \in Nat /\ Cardinality(Hurting) \in Nat
          /\ Cardinality(Hurting') <= Cardinality(Hurting)
      BY <2>2, FinitePending, Shrinks
    <3> QED BY <3>1, <3>2
  <2> QED BY <2>1, <2>2
<1> QED BY <1>1, SyncAssumption DEF Paid, TypeOK

\* ... and if one thing that was pending is sent.
LEMMA Payment ==
  ASSUME TypeOK, Paid, UNCHANGED changes, sends' = sends + 1, NEW x,
         \/ x \in Hurting /\ Hurting' \subseteq Hurting \ {x} /\ Moving' \subseteq Moving
         \/ x \in Moving /\ Hurting' \subseteq Hurting /\ Moving' \subseteq Moving \ {x}
  PROVE  Paid'
<1>1. /\ Cardinality(Hurting') \in Nat /\ Cardinality(Hurting) \in Nat
      /\ Cardinality(Moving') \in Nat /\ Cardinality(Moving) \in Nat
      /\ Cardinality(Hurting') + Cardinality(Moving') + 1 <= Cardinality(Hurting) + Cardinality(Moving)
  <2>1. CASE x \in Hurting /\ Hurting' \subseteq Hurting \ {x} /\ Moving' \subseteq Moving
    <3>1. /\ Cardinality(Hurting') \in Nat /\ Cardinality(Hurting) \in Nat
          /\ Cardinality(Hurting') + 1 <= Cardinality(Hurting)
      BY <2>1, FinitePending, Loses
    <3>2. /\ Cardinality(Moving') \in Nat /\ Cardinality(Moving) \in Nat
          /\ Cardinality(Moving') <= Cardinality(Moving)
      BY <2>1, FinitePending, Shrinks
    <3> QED BY <3>1, <3>2
  <2>2. CASE x \in Moving /\ Hurting' \subseteq Hurting /\ Moving' \subseteq Moving \ {x}
    <3>1. /\ Cardinality(Moving') \in Nat /\ Cardinality(Moving) \in Nat
          /\ Cardinality(Moving') + 1 <= Cardinality(Moving)
      BY <2>2, FinitePending, Loses
    <3>2. /\ Cardinality(Hurting') \in Nat /\ Cardinality(Hurting) \in Nat
          /\ Cardinality(Hurting') <= Cardinality(Hurting)
      BY <2>2, FinitePending, Shrinks
    <3> QED BY <3>1, <3>2
  <2> QED BY <2>1, <2>2
<1> QED BY <1>1, SyncAssumption DEF Paid, TypeOK

\* Every step keeps the budget: what arrives from others is remembered as seen.
LEMMA PaidStep == TypeOK /\ Paid /\ [Next]_vars => Paid'
<1> SUFFICES ASSUME TypeOK, Paid, [Next]_vars PROVE Paid'
  OBVIOUS
<1> USE DEF gameVars, levelVars
<1>1. ASSUME UNCHANGED <<sends, changes, count, seenCount, delta>>, Hurting' \subseteq Hurting
      PROVE  Paid'
  <2>1. Moving' \subseteq Moving
    BY <1>1 DEF Moving
  <2>2. changes' \in Nat /\ changes' >= changes
    BY <1>1, SyncAssumption DEF TypeOK
  <2> QED BY <1>1, <2>1, <2>2, Idle
<1>2. CASE UNCHANGED vars
  BY <1>1, <1>2 DEF vars, Hurting
<1>3. ASSUME NEW p \in Players, ReadPtrs(p) PROVE Paid'
  <2>1. Hurting' \subseteq Hurting
    BY <1>3, HurtingUpdate DEF Update
  <2>2. seenCount' = seenCount
    BY <1>3 DEF ReadPtrs, Inventory, TypeOK
  <2> QED BY <1>1, <1>3, <2>1, <2>2 DEF ReadPtrs
<1>4. ASSUME NEW p \in Players, SkipHealth(p) \/ ReadHealth(p) PROVE Paid'
  <2>1. Hurting' \subseteq Hurting
    BY <1>4, HurtingUpdate DEF Update
  <2> QED BY <1>1, <1>4, <2>1 DEF SkipHealth, ReadHealth
<1>5. ASSUME NEW p \in Players, WriteHealth(p) PROVE Paid'
  <2>1. Hurting' \subseteq Hurting
    BY <1>5, HurtingUpdate DEF Update
  <2> QED BY <1>1, <1>5, <2>1 DEF WriteHealth
<1>6. ASSUME NEW p \in Players, ReadItems(p) PROVE Paid'
  <2> DEFINE by == Head(queue[p]).by
             new == [i \in Items |-> IF i \in DOMAIN by THEN AddedTo(seenCount[p][i], by[i])
                                                        ELSE seenCount[p][i]]
  <2>1. /\ seenCount' = [seenCount EXCEPT ![p] = new]
        /\ count' = [count EXCEPT ![p] = [i \in Items |-> IF i \in DOMAIN by THEN new[i] ELSE count[p][i]]]
        /\ UNCHANGED <<health, seenHealth, pc, delta, changes, sends>>
    BY <1>6 DEF ReadItems
  <2>2. \A i \in Items : i \notin DOMAIN by => new[i] = seenCount[p][i]
    OBVIOUS
  <2> HIDE DEF by, new
  <2>3. Moving' \subseteq Moving
    BY <2>1, <2>2 DEF Moving, TypeOK
  <2>4. Hurting' \subseteq Hurting
    BY <2>1 DEF Hurting
  <2> QED BY <2>1, <2>3, <2>4, Idle, SyncAssumption DEF TypeOK
<1>7. ASSUME NEW p \in Players, SendHealth(p) PROVE Paid'
  <2>1. CASE health[p] = seenHealth[p]
    <3>1. UNCHANGED <<health, seenHealth, sends, changes, count, seenCount, delta>>
          /\ pc[p] = "read"
      BY <1>7, <2>1 DEF SendHealth
    <3>2. Hurting' \subseteq Hurting
      BY <1>7, HurtingUpdate DEF Update
    <3> QED BY <1>1, <3>1, <3>2
  <2>2. CASE health[p] # seenHealth[p]
    <3>1. /\ seenHealth' = [seenHealth EXCEPT ![p] = health[p]] /\ sends' = sends + 1
          /\ UNCHANGED <<health, changes, count, seenCount, delta>>
          /\ pc[p] = "read" /\ pc' = [pc EXCEPT ![p] = "items"]
      BY <1>7, <2>2 DEF SendHealth, Goto
    <3>2. p \in Hurting /\ Hurting' \subseteq Hurting \ {p}
      BY <1>7, <2>2, <3>1, HurtingUpdate DEF Hurting, Update
    <3>3. Moving' \subseteq Moving
      BY <3>1 DEF Moving
    <3> QED BY <3>1, <3>2, <3>3, Payment
  <2> QED BY <2>1, <2>2
<1>8. ASSUME NEW p \in Players, TestItems(p) PROVE Paid'
  <2>1. \A j \in Items : Sent(p, j) => count[p][j] # seenCount[p][j]
    BY DEF Sent, Less, TypeOK
  <2>2. /\ delta' = [delta EXCEPT ![p] = [i \in {j \in Items : Sent(p, j)} |-> count[p][i] - seenCount[p][i]]]
        /\ UNCHANGED <<health, seenHealth, count, seenCount, changes, sends>>
    BY <1>8 DEF TestItems
  <2>3. DOMAIN delta'[p] = {j \in Items : Sent(p, j)} /\ \A q \in Players : q # p => delta'[q] = delta[q]
    BY <2>2 DEF TypeOK
  <2>4. Moving' \subseteq Moving
    BY <2>1, <2>2, <2>3 DEF Moving
  <2>5. Hurting' \subseteq Hurting
    BY <1>8, HurtingUpdate DEF Update
  <2> QED BY <2>2, <2>4, <2>5, Idle, SyncAssumption DEF TypeOK
<1>9. ASSUME NEW p \in Players, SendItems(p) PROVE Paid'
  <2>1. /\ pc[p] = "send" /\ pc' = [pc EXCEPT ![p] = "read"] /\ delta' = [delta EXCEPT ![p] = None]
        /\ UNCHANGED <<health, seenHealth, count, changes>>
    BY <1>9 DEF SendItems, Goto
  <2>2. Hurting' \subseteq Hurting
    BY <2>1 DEF Hurting, TypeOK
  <2>3. DOMAIN delta'[p] = {} /\ \A q \in Players : q # p => delta'[q] = delta[q]
    BY <2>1 DEF None, TypeOK
  <2>4. /\ sends' = sends + 1
        /\ seenCount' = [seenCount EXCEPT ![p] =
              [i \in Items |-> IF i \in DOMAIN delta[p] THEN count[p][i] ELSE seenCount[p][i]]]
    BY <1>9 DEF SendItems
  <2>5. PICK i \in DOMAIN delta[p] : TRUE
    BY <1>9 DEF SendItems
  <2>6. i \in Items
    BY <2>5 DEF TypeOK, ItemChanges
  <2>7. <<p, i>> \in Moving
    BY <2>5, <2>6 DEF Moving
  <2>8. /\ \A j \in Items : seenCount'[p][j] = IF j \in DOMAIN delta[p] THEN count[p][j] ELSE seenCount[p][j]
        /\ \A q \in Players : q # p => seenCount'[q] = seenCount[q]
    BY <2>4 DEF TypeOK
  <2>9. Moving' \subseteq Moving \ {<<p, i>>}
    BY <2>1, <2>3, <2>8 DEF Moving
  <2> QED BY <2>1, <2>2, <2>4, <2>7, <2>9, Payment
<1>10. ASSUME NEW p \in Players, Hit(p) PROVE Paid'
  <2>1. /\ health' = [health EXCEPT ![p] = health[p] - 1] /\ changes' = changes + 1
        /\ UNCHANGED <<count, seenHealth, seenCount, pc, delta, sends>>
    BY <1>10 DEF Hit
  <2>2. Hurting' \subseteq Hurting \cup {p} /\ Moving' \subseteq Moving
    BY <2>1 DEF Hurting, Moving, TypeOK
  <2> QED BY <2>1, <2>2, Change
<1>11. ASSUME NEW p \in Players, NEW i \in Items, NEW d \in {-1, 1}, CountMoves(p, i, d),
              UNCHANGED <<seenCount, delta>>
       PROVE  Moving' \subseteq Moving \cup {<<p, i>>}
  <2>1. /\ \A q \in Players : q # p => count'[q] = count[q]
        /\ \A j \in Items : j # i => count'[p][j] = count[p][j]
    BY <1>11 DEF CountMoves, TypeOK
  <2> QED BY <1>11, <2>1 DEF Moving
<1>12. ASSUME NEW p \in Players, NEW i \in Items, Item(p, i) PROVE Paid'
  <2>1. Moving' \subseteq Moving \cup {<<p, i>>}
    BY <1>11, <1>12 DEF Item
  <2>2. Hurting' \subseteq Hurting
    BY <1>12 DEF Item, Hurting
  <2> QED BY <1>12, <2>1, <2>2, Change DEF Item
<1>13. ASSUME NEW p \in Players, NEW l \in Levels, Enter(p, l) PROVE Paid'
  <2>1. Hurting' \subseteq Hurting
    BY <1>13, HurtingUpdate
  <2>2. CASE UNCHANGED <<count, changes>>
    BY <1>1, <1>13, <2>1, <2>2 DEF Enter
  <2>3. ASSUME NEW i \in Items, NEW d \in {-1, 1}, CountMoves(p, i, d), changes' = changes + 1 PROVE Paid'
    <3>1. UNCHANGED <<seenCount, delta, sends>>
      BY <1>13 DEF Enter
    <3>2. Moving' \subseteq Moving \cup {<<p, i>>}
      BY <1>11, <2>3, <3>1
    <3> QED BY <2>1, <2>3, <3>1, <3>2, Change
  <2> QED BY <1>13, <2>2, <2>3 DEF Enter
<1>14. ASSUME NEW p \in Players, DiffItems(p) PROVE Paid'
  <2>1. /\ delta' = [delta EXCEPT ![p] = [i \in DOMAIN delta[p] |-> count[p][i] - seenCount[p][i]]]
        /\ UNCHANGED <<count, seenCount, changes, sends>>
    BY <1>14 DEF DiffItems
  <2>2. \A q \in Players : DOMAIN delta'[q] = DOMAIN delta[q]
    BY <2>1 DEF TypeOK
  <2>3. Moving' \subseteq Moving
    BY <2>1, <2>2 DEF Moving
  <2>4. Hurting' \subseteq Hurting
    BY <1>14, HurtingUpdate DEF Update
  <2> QED BY <2>1, <2>3, <2>4, Idle, SyncAssumption DEF TypeOK
<1> QED BY <1>2, <1>3, <1>4, <1>5, <1>6, <1>7, <1>8, <1>9, <1>10, <1>12, <1>13, <1>14 DEF Next, Update

\* Nothing is pending when the games start.
LEMMA PaidInit == Init => Paid
<1> SUFFICES ASSUME Init PROVE Paid
  OBVIOUS
<1>1. Hurting = {} /\ Moving = {}
  BY DEF Init, Hurting, Moving, None
<1> QED BY <1>1, FS_EmptySet DEF Init, Paid

\* What a player applies it does not send again, for any number of players and items:
\* there are never more events than the games made changes.
THEOREM NothingIsEchoed == Spec => []NoEcho
<1>1. TypeOK /\ Paid => NoEcho
  <2> SUFFICES ASSUME TypeOK, Paid PROVE NoEcho
    OBVIOUS
  <2>1. Cardinality(Hurting) \in Nat /\ Cardinality(Moving) \in Nat
    BY FinitePending, FS_CardinalityType
  <2> QED BY <2>1, SyncAssumption DEF Paid, NoEcho, TypeOK
<1> QED BY <1>1, PaidInit, PaidStep, TypeCorrectness, PTL DEF Spec

-------------------------------------------------------------------------------
(* All players have the same when everything was exchanged.                 *)
(*                                                                          *)
(* The games change one at a time, when they are quiet: a change is told to *)
(* all others before the next one is made, so that a queue holds at most    *)
(* one event.  What a client has seen together with the event under way to  *)
(* it is then the same for all, in every state; and it is what they have    *)
(* when they are quiet again.  An entry between a change and its event      *)
(* disturbs the enemies of the one who enters only: it is set apart.        *)

\* The changes of items that are to be sent, now or when others have been: a change
\* of item 25 that is not told keeps back one of item 7.
Due(p, i) ==
  /\ i \notin Skipped
  /\ IF i < 53 THEN count[p][i] # seenCount[p][i] ELSE Less(p, i)
  /\ i \in {6, 7} => ~Less(p, i)
Dues == {x \in Players \X Items : Due(x[1], x[2]) \/ x[2] \in DOMAIN delta[x[1]]}

\* There is at most one change that was not told, and none while one is told: a
\* queue holds at most the event of that one.
OneAtATime ==
  /\ \A p, q \in Hurting : p = q
  /\ \A x, y \in Dues : x = y
  /\ Hurting = {} \/ Dues = {}
  /\ \A q \in Players : queue[q] # <<>> => Len(queue[q]) = 1 /\ Hurting = {} /\ Dues = {}

\* The differences about to be sent are those there are.
DeltaExact == \A p \in Players : \A i \in DOMAIN delta[p] : delta[p][i] = count[p][i] - seenCount[p][i]

\* The game is quiet only when nothing is to be sent, not even what was kept back.
LEMMA QuietRest ==
  ASSUME TypeOK, Quiet
  PROVE  /\ Hurting = {} /\ Dues = {}
         /\ \A p \in Players : queue[p] = <<>> /\ DOMAIN delta[p] = {}
<1>1. Hurting = {}
  BY DEF Quiet, Hurting
<1>2. \A p \in Players : queue[p] = <<>> /\ DOMAIN delta[p] = {}
  BY DEF Quiet, None
<1>3. ASSUME NEW p \in Players, NEW i \in Items PROVE ~Due(p, i)
  <2>1. count[p] \in [Items -> Int] /\ seenCount[p] \in [Items -> Int] /\ i \in 0 .. 55
    BY SyncAssumption DEF TypeOK
  <2>2. 25 \in Items => ~Less(p, 25)
    <3> SUFFICES ASSUME 25 \in Items PROVE ~Less(p, 25)
      OBVIOUS
    <3>1. ~Sent(p, 25)
      BY DEF Quiet
    <3>2. count[p][25] \in Int /\ seenCount[p][25] \in Int
      BY <2>1
    <3> QED BY <3>1, <3>2 DEF Sent, Less, Skipped
  <2>3. ~Sent(p, i)
    BY DEF Quiet
  <2> QED BY <2>1, <2>2, <2>3 DEF Due, Sent
<1> QED BY <1>1, <1>2, <1>3 DEF Dues

\* What is about to be sent is due.
LEMMA DeltaIsDue ==
  ASSUME TypeOK, NEW p \in Players, NEW i \in DOMAIN delta[p]
  PROVE  i \in Items /\ <<p, i>> \in Dues
BY DEF TypeOK, ItemChanges, Dues

\* One change at a time goes on if nothing becomes pending ...
LEMMA OneKept ==
  ASSUME OneAtATime, Hurting' \subseteq Hurting, Dues' \subseteq Dues,
         \A q \in Players : queue'[q] # <<>> => queue'[q] = queue[q]
  PROVE  OneAtATime'
<1>1. \A p, q \in Hurting' : p = q
  BY DEF OneAtATime
<1>2. \A x, y \in Dues' : x = y
  BY DEF OneAtATime
<1>3. Hurting' = {} \/ Dues' = {}
  BY DEF OneAtATime
<1>4. \A q \in Players : queue'[q] # <<>> => Len(queue'[q]) = 1 /\ Hurting' = {} /\ Dues' = {}
  BY DEF OneAtATime
<1> QED BY <1>1, <1>2, <1>3, <1>4 DEF OneAtATime

\* ... if one change is made when the games are quiet ...
LEMMA OneChange ==
  ASSUME NEW x, \A q \in Players : queue'[q] = <<>>,
         \/ Hurting' \subseteq {x} /\ Dues' = {}
         \/ Hurting' = {} /\ Dues' \subseteq {x}
  PROVE  OneAtATime'
BY DEF OneAtATime

\* ... if the event of the only one is put into the empty queues of the others ...
LEMMA OneTold ==
  ASSUME NEW p \in Players, NEW m, \A q \in Players : queue[q] = <<>>, Tell(p, m)
  PROVE  /\ queue'[p] = <<>>
         /\ \A q \in Players : q # p => queue'[q] = <<m>>
<1>1. queue' = [q \in Players |-> IF q = p THEN queue[q] ELSE Append(queue[q], m)]
  BY DEF Tell
<1>2. Append(<<>>, m) = <<m>>
  OBVIOUS
<1> QED BY <1>1, <1>2

\* ... and if that event is taken out.
LEMMA OneTaken ==
  ASSUME TypeOK, OneAtATime, NEW p \in Players, queue[p] # <<>>, queue' = [queue EXCEPT ![p] = Tail(@)]
  PROVE  /\ queue'[p] = <<>> /\ \A q \in Players : q # p => queue'[q] = queue[q]
         /\ Hurting = {} /\ Dues = {}
<1>1. queue[p] \in Seq(Events) /\ Len(queue[p]) = 1
  BY DEF TypeOK, OneAtATime
<1> DEFINE rest == Tail(queue[p])
<1>2. rest \in Seq(Events) /\ Len(rest) = 0
  BY <1>1
<1> HIDE DEF rest
<1>3. rest = <<>>
  BY <1>2
<1> QED BY <1>1, <1>3 DEF TypeOK, OneAtATime, rest

\* An item that the game gives or takes is the only one that becomes due.
LEMMA DueMoves ==
  ASSUME TypeOK, Dues = {}, NEW p \in Players, NEW i \in Items, NEW d \in {-1, 1}, CountMoves(p, i, d),
         UNCHANGED <<seenCount, delta>>
  PROVE  Dues' \subseteq {<<p, i>>}
<1>1. /\ \A q \in Players : q # p => count'[q] = count[q]
      /\ \A j \in Items : j # i => count'[p][j] = count[p][j]
  BY DEF CountMoves, TypeOK
<1> QED BY <1>1 DEF Dues, Due, Less

\* An item that is told is no longer due, and one that was told does not become due.
LEMMA DuesUpdate ==
  ASSUME TypeOK, NEW p \in Players, Update(p)
  PROVE  /\ Dues' \subseteq Dues
         /\ SendItems(p) => \A i \in Items : i \in DOMAIN delta[p] => <<p, i>> \notin Dues'
<1> USE DEF gameVars, levelVars
<1>0. ASSUME UNCHANGED <<count, seenCount, delta>>
      PROVE  Dues' \subseteq Dues
  BY <1>0 DEF Dues, Due, Less
<1>1. CASE ReadPtrs(p)
  <2>1. UNCHANGED <<count, seenCount, delta>> /\ pc[p] = "entered"
    BY <1>1 DEF ReadPtrs, Inventory, TypeOK
  <2> QED BY <1>0, <2>1 DEF SendItems
<1>2. CASE SkipHealth(p) \/ ReadHealth(p) \/ WriteHealth(p) \/ SendHealth(p)
  <2>1. UNCHANGED <<count, seenCount, delta>> /\ pc[p] # "send"
    BY <1>2 DEF SkipHealth, ReadHealth, WriteHealth, SendHealth
  <2> QED BY <1>0, <2>1 DEF SendItems
<1>3. CASE ReadItems(p)
  <2> DEFINE by == Head(queue[p]).by
             new == [i \in Items |-> IF i \in DOMAIN by THEN AddedTo(seenCount[p][i], by[i])
                                                        ELSE seenCount[p][i]]
  <2>1. /\ seenCount' = [seenCount EXCEPT ![p] = new]
        /\ count' = [count EXCEPT ![p] = [i \in Items |-> IF i \in DOMAIN by THEN new[i] ELSE count[p][i]]]
        /\ UNCHANGED delta /\ pc[p] = "read"
    BY <1>3 DEF ReadItems
  <2>2. \A i \in Items : i \notin DOMAIN by => new[i] = seenCount[p][i]
    OBVIOUS
  <2>3. by \in ItemChanges
    BY <1>3, QueueTypes DEF ReadItems, Queued
  <2>4. new \in [Items -> Int]
    <3>1. \A i \in DOMAIN by : by[i] \in Int
      BY <2>3 DEF ItemChanges
    <3>2. seenCount[p] \in [Items -> Int]
      BY DEF TypeOK
    <3> QED BY <3>1, <3>2 DEF AddedTo
  <2> HIDE DEF by, new
  <2>5. \A q \in Players, i \in Items : q # p => count'[q][i] = count[q][i] /\ seenCount'[q][i] = seenCount[q][i]
    BY <2>1 DEF TypeOK
  <2>6. \A i \in Items : IF i \in DOMAIN by THEN count'[p][i] = seenCount'[p][i] /\ count'[p][i] \in Int
                         ELSE count'[p][i] = count[p][i] /\ seenCount'[p][i] = seenCount[p][i]
    BY <2>1, <2>2, <2>4 DEF TypeOK
  <2>7. \A q \in Players, i \in Items : Due(q, i)' => Due(q, i)
    BY <2>5, <2>6 DEF Due, Less
  <2> QED BY <2>1, <2>7 DEF Dues, SendItems
<1>4. CASE TestItems(p)
  <2>1. /\ delta' = [delta EXCEPT ![p] = [i \in {j \in Items : Sent(p, j)} |-> count[p][i] - seenCount[p][i]]]
        /\ UNCHANGED <<count, seenCount>> /\ pc[p] = "items"
    BY <1>4 DEF TestItems
  <2>2. DOMAIN delta'[p] = {j \in Items : Sent(p, j)} /\ \A q \in Players : q # p => delta'[q] = delta[q]
    BY <2>1 DEF TypeOK
  <2>3. \A j \in Items : Sent(p, j) => Due(p, j)
    BY SyncAssumption DEF Sent, Due
  <2>4. \A q \in Players, i \in Items : Due(q, i)' = Due(q, i)
    BY <2>1 DEF Due, Less
  <2> QED BY <2>1, <2>2, <2>3, <2>4 DEF Dues, SendItems
<1>5. CASE DiffItems(p)
  <2>1. /\ delta' = [delta EXCEPT ![p] = [i \in DOMAIN delta[p] |-> count[p][i] - seenCount[p][i]]]
        /\ UNCHANGED <<count, seenCount>> /\ pc[p] = "diff"
    BY <1>5 DEF DiffItems
  <2>2. \A q \in Players : DOMAIN delta'[q] = DOMAIN delta[q]
    BY <2>1 DEF TypeOK
  <2>3. \A q \in Players, i \in Items : Due(q, i)' = Due(q, i)
    BY <2>1 DEF Due, Less
  <2> QED BY <2>1, <2>2, <2>3 DEF Dues, SendItems
<1>6. CASE SendItems(p)
  <2>1. delta' = [delta EXCEPT ![p] = None] /\ UNCHANGED count
    BY <1>6 DEF SendItems
  <2>2. DOMAIN delta'[p] = {} /\ \A q \in Players : q # p => delta'[q] = delta[q]
    BY <2>1 DEF None, TypeOK
  <2>3. \A i \in Items : seenCount'[p][i] = IF i \in DOMAIN delta[p] THEN count[p][i] ELSE seenCount[p][i]
    <3>1. seenCount' = [seenCount EXCEPT ![p] =
             [i \in Items |-> IF i \in DOMAIN delta[p] THEN count[p][i] ELSE seenCount[p][i]]]
      BY <1>6 DEF SendItems
    <3> QED BY <3>1 DEF TypeOK
  <2>4. \A q \in Players : q # p => seenCount'[q] = seenCount[q]
    BY <1>6 DEF SendItems, TypeOK
  <2>5. \A q \in Players, i \in Items : q # p => (Due(q, i)' <=> Due(q, i))
    BY <2>1, <2>4 DEF Due, Less
  <2>6. \A i \in Items : count[p][i] \in Int
    BY DEF TypeOK
  <2>7. \A i \in Items : IF i \in DOMAIN delta[p] THEN ~Due(p, i)' ELSE (Due(p, i)' <=> Due(p, i))
    BY <2>1, <2>3, <2>6 DEF Due, Less
  <2> QED BY <2>2, <2>5, <2>7 DEF Dues
<1> QED BY <1>1, <1>2, <1>3, <1>4, <1>5, <1>6 DEF Update

\* One change at a time: a game makes the next one when the last was applied by all.
LEMMA OneStep == TypeOK /\ ~overlap /\ OneAtATime /\ [Next]_vars => OneAtATime'
<1> SUFFICES ASSUME TypeOK, ~overlap, OneAtATime, [Next]_vars PROVE OneAtATime'
  OBVIOUS
<1> USE DEF gameVars, levelVars
<1>1. CASE UNCHANGED vars
  <2>1. Hurting' = Hurting /\ Dues' = Dues
    BY <1>1 DEF vars, Hurting, Dues, Due, Less
  <2> QED BY <1>1, <2>1, OneKept DEF vars
<1>2. ASSUME NEW p \in Players, ReadPtrs(p) \/ ReadHealth(p) \/ TestItems(p) \/ DiffItems(p) PROVE OneAtATime'
  <2>1. Hurting' \subseteq Hurting /\ Dues' \subseteq Dues
    BY <1>2, HurtingUpdate, DuesUpdate DEF Update
  <2>2. UNCHANGED queue
    BY <1>2 DEF ReadPtrs, ReadHealth, TestItems, DiffItems
  <2> QED BY <2>1, <2>2, OneKept
<1>3. ASSUME NEW p \in Players, SkipHealth(p) \/ WriteHealth(p) \/ ReadItems(p) PROVE OneAtATime'
  <2>1. Hurting' \subseteq Hurting /\ Dues' \subseteq Dues
    BY <1>3, HurtingUpdate, DuesUpdate DEF Update
  <2>2. queue' = [queue EXCEPT ![p] = Tail(@)] /\ queue[p] # <<>>
    BY <1>3 DEF SkipHealth, WriteHealth, ReadItems, Queued, TypeOK
  <2>3. queue'[p] = <<>> /\ \A q \in Players : q # p => queue'[q] = queue[q]
    BY <2>2, OneTaken
  <2> QED BY <2>1, <2>3, OneKept
<1>4. ASSUME NEW p \in Players, NEW m, Tell(p, m), Hurting # {} \/ Dues # {}, Hurting' = {}, Dues' = {}
      PROVE  OneAtATime'
  <2>1. \A q \in Players : queue[q] = <<>>
    BY <1>4 DEF OneAtATime
  <2>2. queue'[p] = <<>> /\ \A q \in Players : q # p => queue'[q] = <<m>>
    BY <1>4, <2>1, OneTold
  <2>3. Len(<<m>>) = 1
    OBVIOUS
  <2> QED BY <1>4, <2>2, <2>3 DEF OneAtATime
<1>5. ASSUME NEW p \in Players, SendHealth(p) PROVE OneAtATime'
  <2>1. Hurting' \subseteq Hurting /\ p \notin Hurting' /\ Dues' \subseteq Dues
    BY <1>5, HurtingUpdate, DuesUpdate DEF Update
  <2>2. CASE health[p] = seenHealth[p]
    BY <1>5, <2>1, <2>2, OneKept DEF SendHealth
  <2>3. CASE health[p] # seenHealth[p]
    <3>1. p \in Hurting /\ Tell(p, HealthMsg(level[p], health[p] - seenHealth[p]))
      BY <1>5, <2>3 DEF SendHealth, Hurting
    <3>2. Hurting' = {} /\ Dues' = {}
      BY <2>1, <3>1 DEF OneAtATime
    <3> QED BY <1>4, <3>1, <3>2
  <2> QED BY <2>2, <2>3
<1>6. ASSUME NEW p \in Players, SendItems(p) PROVE OneAtATime'
  <2>1. /\ Hurting' \subseteq Hurting /\ Dues' \subseteq Dues
        /\ \A i \in Items : i \in DOMAIN delta[p] => <<p, i>> \notin Dues'
    BY <1>6, HurtingUpdate, DuesUpdate DEF Update
  <2>2. PICK i \in DOMAIN delta[p] : TRUE
    BY <1>6 DEF SendItems
  <2>3. i \in Items /\ <<p, i>> \in Dues
    BY <2>2, DeltaIsDue
  <2>4. Hurting' = {} /\ Dues' = {}
    BY <2>1, <2>2, <2>3 DEF OneAtATime
  <2>5. Tell(p, ItemsMsg(delta[p]))
    BY <1>6 DEF SendItems
  <2> QED BY <1>4, <2>3, <2>4, <2>5
<1>7. ASSUME NEW p \in Players, Hit(p) PROVE OneAtATime'
  <2>1. Hurting = {} /\ Dues = {} /\ \A q \in Players : queue[q] = <<>>
    BY <1>7, QuietRest DEF Hit, MayChange
  <2>2. /\ health' = [health EXCEPT ![p] = health[p] - 1]
        /\ UNCHANGED <<queue, count, seenHealth, seenCount, pc, delta>>
    BY <1>7 DEF Hit
  <2>3. Hurting' \subseteq {p} /\ Dues' = {}
    BY <2>1, <2>2 DEF Hurting, Dues, Due, Less, TypeOK
  <2> QED BY <2>1, <2>2, <2>3, OneChange
<1>8. ASSUME NEW p \in Players, NEW i \in Items, Item(p, i) PROVE OneAtATime'
  <2>1. Hurting = {} /\ Dues = {} /\ \A q \in Players : queue[q] = <<>>
    BY <1>8, QuietRest DEF Item, MayChange
  <2>2. Dues' \subseteq {<<p, i>>}
    BY <1>8, <2>1, DueMoves DEF Item
  <2>3. Hurting' = {}
    BY <1>8, <2>1 DEF Item, Hurting
  <2> QED BY <1>8, <2>1, <2>2, <2>3, OneChange DEF Item
<1>9. ASSUME NEW p \in Players, NEW l \in Levels, Enter(p, l) PROVE OneAtATime'
  <2>1. Hurting' \subseteq Hurting /\ UNCHANGED <<queue, seenCount, delta>>
    BY <1>9, HurtingUpdate DEF Enter
  <2>2. CASE UNCHANGED <<count, changes>>
    <3>1. Dues' = Dues
      BY <2>1, <2>2 DEF Dues, Due, Less
    <3> QED BY <2>1, <3>1, OneKept
  <2>3. ASSUME MayChange, NEW i \in Items, NEW d \in {-1, 1}, CountMoves(p, i, d) PROVE OneAtATime'
    <3>1. Hurting = {} /\ Dues = {} /\ \A q \in Players : queue[q] = <<>>
      BY <2>3, QuietRest DEF MayChange
    <3>2. Dues' \subseteq {<<p, i>>}
      BY <2>1, <2>3, <3>1, DueMoves
    <3> QED BY <2>1, <3>1, <3>2, OneChange
  <2> QED BY <1>9, <2>2, <2>3 DEF Enter
<1> QED BY <1>1, <1>2, <1>3, <1>5, <1>6, <1>7, <1>8, <1>9 DEF Next, Update

\* The differences about to be sent stay those there are, as the games are not quiet.
LEMMA DeltaStep == TypeOK /\ ~overlap /\ OneAtATime /\ DeltaExact /\ [Next]_vars => DeltaExact'
<1> SUFFICES ASSUME TypeOK, ~overlap, OneAtATime, DeltaExact, [Next]_vars PROVE DeltaExact'
  OBVIOUS
<1> USE DEF gameVars, levelVars
<1>1. CASE UNCHANGED <<count, seenCount, delta>>
  BY <1>1 DEF DeltaExact
<1>2. ASSUME NEW p \in Players,
             ReadPtrs(p) \/ SkipHealth(p) \/ ReadHealth(p) \/ WriteHealth(p) \/ SendHealth(p) \/ Hit(p)
      PROVE  DeltaExact'
  <2>1. UNCHANGED <<count, seenCount, delta>>
    BY <1>2 DEF ReadPtrs, Inventory, SkipHealth, ReadHealth, WriteHealth, SendHealth, Hit, TypeOK
  <2> QED BY <1>1, <2>1
<1>3. ASSUME Dues = {}, UNCHANGED delta PROVE DeltaExact'
  <2>1. \A q \in Players : DOMAIN delta[q] = {}
    BY <1>3, DeltaIsDue
  <2> QED BY <1>3, <2>1 DEF DeltaExact
<1>4. ASSUME NEW p \in Players, ReadItems(p) PROVE DeltaExact'
  <2>1. Dues = {}
    BY <1>4 DEF ReadItems, Queued, OneAtATime
  <2> QED BY <1>3, <1>4, <2>1 DEF ReadItems
<1>5. ASSUME NEW p \in Players, TestItems(p) \/ DiffItems(p) PROVE DeltaExact'
  <2>1. /\ UNCHANGED <<count, seenCount>> /\ delta' \in [Players -> ItemChanges]
        /\ \A q \in Players : q # p => delta'[q] = delta[q]
    BY <1>5, TypeSend DEF TestItems, DiffItems, TypeOK
  <2>2. \A i \in DOMAIN delta'[p] : delta'[p][i] = count[p][i] - seenCount[p][i]
    <3>1. CASE TestItems(p)
      BY <3>1 DEF TestItems, TypeOK
    <3>2. CASE DiffItems(p)
      BY <3>2 DEF DiffItems, TypeOK
    <3> QED BY <1>5, <3>1, <3>2
  <2> QED BY <2>1, <2>2 DEF DeltaExact
<1>6. ASSUME NEW p \in Players, SendItems(p) PROVE DeltaExact'
  <2>1. delta' = [delta EXCEPT ![p] = None] /\ UNCHANGED count
    BY <1>6 DEF SendItems
  <2>2. \A q \in Players : q # p => seenCount'[q] = seenCount[q]
    BY <1>6 DEF SendItems, TypeOK
  <2> QED BY <2>1, <2>2 DEF DeltaExact, None, TypeOK
<1>7. ASSUME NEW p \in Players, NEW i \in Items, Item(p, i) PROVE DeltaExact'
  <2>1. Dues = {}
    BY <1>7, QuietRest DEF Item, MayChange
  <2> QED BY <1>3, <1>7, <2>1 DEF Item
<1>8. ASSUME NEW p \in Players, NEW l \in Levels, Enter(p, l) PROVE DeltaExact'
  <2>1. UNCHANGED <<seenCount, delta>>
    BY <1>8 DEF Enter
  <2>2. CASE UNCHANGED count
    BY <1>1, <2>1, <2>2
  <2>3. CASE MayChange
    <3>1. Dues = {}
      BY <2>3, QuietRest DEF MayChange
    <3> QED BY <1>3, <2>1, <3>1
  <2> QED BY <1>8, <2>2, <2>3 DEF Enter
<1>9. CASE UNCHANGED vars
  BY <1>1, <1>9 DEF vars
<1> QED BY <1>2, <1>4, <1>5, <1>6, <1>7, <1>8, <1>9 DEF Next, Update

\* The changes of items that are under way to a player, and the count it will have
\* seen when it has applied them.
ItemsTold(p) == queue[p] # <<>> /\ Head(queue[p]).kind = "items"
ToldCount(p, i) == seenCount[p][i] + IF ItemsTold(p) /\ i \in DOMAIN Head(queue[p]).by
                                     THEN Head(queue[p]).by[i] ELSE 0

\* With what they are told, all have seen the same shared items, and not less than none.
SameItems == \A i \in Shared : \A p, q \in Players :
               ToldCount(p, i) >= 0 /\ ToldCount(p, i) = ToldCount(q, i)

\* The same items stay the same if what everybody is told stays so.
LEMMA SameKept ==
  ASSUME SameItems, \A p \in Players, i \in Items : ToldCount(p, i)' = ToldCount(p, i)
  PROVE  SameItems'
<1>1. Shared \subseteq Items
  BY DEF Shared
<1> QED BY <1>1 DEF SameItems

\* Steps that change neither what was seen nor an event of items under way.
LEMMA SameAside ==
  ASSUME TypeOK, SameItems, UNCHANGED seenCount,
         \A p \in Players : \/ queue'[p] = queue[p]
                            \/ ~ItemsTold(p) /\ ~ItemsTold(p)'
  PROVE  SameItems'
<1>1. \A p \in Players : /\ ItemsTold(p)' = ItemsTold(p)
                         /\ ItemsTold(p) => queue'[p] = queue[p]
  BY DEF ItemsTold
<1>2. \A p \in Players, i \in Items : ToldCount(p, i)' = ToldCount(p, i)
  BY <1>1 DEF ToldCount
<1> QED BY <1>2, SameKept

\* The events that readMessage takes out are added to what was seen: as nobody is
\* told to use up what there is not, nothing is cut off at zero.
LEMMA SameRead ==
  ASSUME TypeOK, OneAtATime, SameItems, NEW p \in Players, ReadItems(p)
  PROVE  SameItems'
<1> DEFINE by == Head(queue[p]).by
           new == [i \in Items |-> IF i \in DOMAIN by THEN AddedTo(seenCount[p][i], by[i])
                                                      ELSE seenCount[p][i]]
<1>1. /\ seenCount' = [seenCount EXCEPT ![p] = new] /\ queue' = [queue EXCEPT ![p] = Tail(@)]
      /\ queue[p] # <<>> /\ ItemsTold(p)
  BY DEF ReadItems, Queued, ItemsTold
<1>2. queue'[p] = <<>> /\ \A q \in Players : q # p => queue'[q] = queue[q]
  BY <1>1, OneTaken
<1>3. by \in ItemChanges
  BY <1>1, QueueTypes DEF ItemsTold
<1>4. \A i \in DOMAIN by : by[i] \in Int
  BY <1>3 DEF ItemChanges
<1> HIDE DEF new
<1>5. ASSUME NEW i \in Shared PROVE ToldCount(p, i)' = ToldCount(p, i)
  <2>1. i \in Items /\ seenCount[p][i] \in Int
    BY DEF Shared, TypeOK
  <2>2. ~ItemsTold(p)'
    BY <1>2 DEF ItemsTold
  <2>3. ToldCount(p, i)' = new[i] + 0
    BY <1>1, <2>1, <2>2 DEF ToldCount, TypeOK
  <2>4. ToldCount(p, i) >= 0
    BY DEF SameItems
  <2>5. ToldCount(p, i) = seenCount[p][i] + IF i \in DOMAIN by THEN by[i] ELSE 0
    BY <1>1 DEF ToldCount
  <2> HIDE DEF by
  <2>6. new[i] = IF i \in DOMAIN by THEN AddedTo(seenCount[p][i], by[i]) ELSE seenCount[p][i]
    BY <2>1 DEF new
  <2>7. CASE i \in DOMAIN by
    BY <1>4, <2>1, <2>3, <2>4, <2>5, <2>6, <2>7 DEF AddedTo
  <2>8. CASE i \notin DOMAIN by
    BY <2>1, <2>3, <2>5, <2>6, <2>8
  <2> QED BY <2>7, <2>8
<1>6. \A q \in Players : q # p => seenCount'[q] = seenCount[q]
  BY <1>1 DEF TypeOK
<1>7. \A q \in Players, i \in Shared : ToldCount(q, i)' = ToldCount(q, i)
  BY <1>2, <1>5, <1>6 DEF ToldCount, ItemsTold
<1> QED BY <1>7 DEF SameItems

\* An event of items goes to all others, and its sender has seen what it tells.
LEMMA SameSend ==
  ASSUME TypeOK, NoNegativeItems, OneAtATime, DeltaExact, SameItems, NEW p \in Players, SendItems(p)
  PROVE  SameItems'
<1>1. /\ Tell(p, ItemsMsg(delta[p])) /\ count' = count
      /\ seenCount' = [seenCount EXCEPT ![p] =
            [i \in Items |-> IF i \in DOMAIN delta[p] THEN count[p][i] ELSE seenCount[p][i]]]
  BY DEF SendItems, gameVars
<1>2. Dues # {}
  <2>1. PICK i \in DOMAIN delta[p] : TRUE
    BY DEF SendItems
  <2> QED BY <2>1, DeltaIsDue
<1>3. \A q \in Players : queue[q] = <<>>
  BY <1>2 DEF OneAtATime
<1>4. queue'[p] = <<>> /\ \A q \in Players : q # p => queue'[q] = <<ItemsMsg(delta[p])>>
  BY <1>1, <1>3, OneTold
<1>5. \A q \in Players : q # p => ItemsTold(q)' /\ Head(queue'[q]).by = delta[p]
  BY <1>4 DEF ItemsTold, ItemsMsg
<1>6. ~ItemsTold(p)' /\ \A q \in Players : ~ItemsTold(q)
  BY <1>3, <1>4 DEF ItemsTold
<1>7. ASSUME NEW i \in Shared, NEW q \in Players
      PROVE  /\ ToldCount(q, i)' = ToldCount(q, i) + IF i \in DOMAIN delta[p] THEN delta[p][i] ELSE 0
             /\ ToldCount(q, i) = seenCount[q][i]
  <2>1. i \in Items /\ seenCount[q][i] \in Int /\ seenCount[p][i] \in Int /\ count[p][i] \in Int
    BY DEF Shared, TypeOK
  <2>2. ToldCount(q, i) = seenCount[q][i]
    BY <1>6, <2>1 DEF ToldCount
  <2>3. i \in DOMAIN delta[p] => delta[p][i] = count[p][i] - seenCount[p][i]
    BY DEF DeltaExact
  <2>4. CASE q = p
    <3>1. seenCount'[p][i] = IF i \in DOMAIN delta[p] THEN count[p][i] ELSE seenCount[p][i]
      BY <1>1, <2>1 DEF TypeOK
    <3>2. ToldCount(p, i)' = seenCount'[p][i] + 0
      BY <1>6 DEF ToldCount
    <3> QED BY <2>1, <2>2, <2>3, <2>4, <3>1, <3>2
  <2>5. CASE q # p
    <3>1. seenCount'[q][i] = seenCount[q][i]
      BY <1>1, <2>5 DEF TypeOK
    <3>2. ToldCount(q, i)' = seenCount'[q][i] + IF i \in DOMAIN delta[p] THEN delta[p][i] ELSE 0
      BY <1>5, <2>5 DEF ToldCount
    <3> QED BY <2>2, <3>1, <3>2
  <2> QED BY <2>4, <2>5
<1>8. ASSUME NEW i \in Shared PROVE ToldCount(p, i)' >= 0
  <2>1. i \in Items /\ seenCount[p][i] \in Int /\ count[p][i] \in Int /\ count[p][i] >= 0 /\ seenCount[p][i] >= 0
    BY DEF Shared, TypeOK, NoNegativeItems
  <2>2. i \in DOMAIN delta[p] => delta[p][i] = count[p][i] - seenCount[p][i]
    BY DEF DeltaExact
  <2> QED BY <1>7, <2>1, <2>2
<1>9. ASSUME NEW i \in Shared, NEW q, NEW r, q \in Players, r \in Players
      PROVE  ToldCount(q, i)' >= 0 /\ ToldCount(q, i)' = ToldCount(r, i)'
  <2>1. ToldCount(q, i) = ToldCount(p, i) /\ ToldCount(r, i) = ToldCount(p, i)
    BY <1>9 DEF SameItems
  <2>2. ToldCount(q, i)' = ToldCount(p, i)' /\ ToldCount(r, i)' = ToldCount(p, i)'
    BY <1>7, <1>9, <2>1
  <2> QED BY <1>8, <2>2
<1> QED BY <1>9 DEF SameItems

\* Every step keeps the shared items the same, if the games change one at a time.
LEMMA SameStep ==
  TypeOK /\ NoNegativeItems /\ ~overlap /\ OneAtATime /\ DeltaExact /\ SameItems /\ [Next]_vars => SameItems'
<1> SUFFICES ASSUME TypeOK, NoNegativeItems, ~overlap, OneAtATime, DeltaExact, SameItems, [Next]_vars
             PROVE  SameItems'
  OBVIOUS
<1>1. ASSUME NEW p \in Players, ReadPtrs(p) \/ ReadHealth(p) \/ TestItems(p) \/ DiffItems(p) \/ Hit(p)
                                \/ (\E i \in Items : Item(p, i)) \/ (\E l \in Levels : Enter(p, l))
      PROVE  SameItems'
  <2>1. UNCHANGED <<queue, seenCount>>
    BY <1>1 DEF ReadPtrs, Inventory, ReadHealth, TestItems, DiffItems, Hit, Item, Enter, TypeOK
  <2> QED BY <2>1, SameAside
<1>2. ASSUME NEW p \in Players, SkipHealth(p) \/ WriteHealth(p) PROVE SameItems'
  <2>1. /\ queue' = [queue EXCEPT ![p] = Tail(@)] /\ queue[p] # <<>> /\ UNCHANGED seenCount
        /\ Head(queue[p]).kind = "health"
    BY <1>2 DEF SkipHealth, WriteHealth, Queued, TypeOK
  <2>2. queue'[p] = <<>> /\ \A q \in Players : q # p => queue'[q] = queue[q]
    BY <2>1, OneTaken
  <2>3. ~ItemsTold(p) /\ ~ItemsTold(p)'
    BY <2>1, <2>2 DEF ItemsTold
  <2> QED BY <2>1, <2>2, <2>3, SameAside
<1>3. ASSUME NEW p \in Players, SendHealth(p) PROVE SameItems'
  <2>1. CASE health[p] = seenHealth[p]
    BY <1>3, <2>1, SameAside DEF SendHealth
  <2>2. CASE health[p] # seenHealth[p]
    <3> DEFINE m == HealthMsg(level[p], health[p] - seenHealth[p])
    <3>1. Tell(p, m) /\ UNCHANGED seenCount /\ p \in Hurting
      BY <1>3, <2>2 DEF SendHealth, Hurting
    <3>2. \A q \in Players : queue[q] = <<>>
      BY <3>1 DEF OneAtATime
    <3>3. m.kind = "health"
      BY DEF HealthMsg
    <3> HIDE DEF m
    <3>4. queue'[p] = <<>> /\ \A q \in Players : q # p => queue'[q] = <<m>>
      BY <3>1, <3>2, OneTold
    <3>5. \A q \in Players : ~ItemsTold(q) /\ ~ItemsTold(q)'
      BY <3>2, <3>3, <3>4 DEF ItemsTold
    <3> QED BY <3>1, <3>5, SameAside
  <2> QED BY <2>1, <2>2
<1>4. CASE UNCHANGED vars
  BY <1>4, SameAside DEF vars
<1> QED BY <1>1, <1>2, <1>3, <1>4, SameRead, SameSend DEF Next, Update

\* The change of health that is under way to a player in its level, and the health
\* that its enemy will be seen to have when it is applied.
HealthTold(p) == queue[p] # <<>> /\ Head(queue[p]).kind = "health"
ToldHealth(p) == (IF pc[p] = "entered" THEN health[p] ELSE seenHealth[p]) +
                 (IF HealthTold(p) /\ Head(queue[p]).of = level[p] THEN Head(queue[p]).by ELSE 0)

\* Hits that are to be told or under way are known as such, and who is about to add to
\* a health it has read adds to the health there is.
HitsKnown ==
  /\ \A p \in Hurting : level[p] \in hurt
  /\ \A p \in Players : HealthTold(p) => Head(queue[p]).of \in hurt
  /\ \A p \in Players : pc[p] = "hurt" => /\ HealthTold(p) /\ Head(queue[p]).of = level[p]
                                          /\ read[p] = health[p]

\* Where nobody hit, the enemy is as new; and players in the same level have the same
\* enemy, with what they are told, if none is set apart.
SameEnemies ==
  /\ \A p \in Players : level[p] \notin hurt => ToldHealth(p) = StartHealth
  /\ \A p, q \in Players : level[p] = level[q] /\ p \notin apart /\ q \notin apart => ToldHealth(p) = ToldHealth(q)

\* Hits are known in every step.
LEMMA HitsStep == TypeOK /\ ~overlap /\ OneAtATime /\ HitsKnown /\ [Next]_vars => HitsKnown'
<1> SUFFICES ASSUME TypeOK, ~overlap, OneAtATime, HitsKnown, [Next]_vars PROVE HitsKnown'
  OBVIOUS
<1> USE DEF gameVars, levelVars
\* An event of health is followed by none, stays first, or is of a level that was hit.
<1>0. ASSUME hurt \subseteq hurt', Hurting' \subseteq Hurting, UNCHANGED level,
             \A q \in Players : queue'[q] = queue[q] \/ ~HealthTold(q)',
             \A q \in Players : pc'[q] = "hurt" =>
                 pc[q] = "hurt" /\ queue'[q] = queue[q] /\ read'[q] = read[q] /\ health'[q] = health[q]
      PROVE  HitsKnown'
  <2>1. \A q \in Hurting' : level'[q] \in hurt'
    BY <1>0 DEF HitsKnown
  <2>2. \A q \in Players : HealthTold(q)' => queue'[q] = queue[q] /\ HealthTold(q)
    BY <1>0 DEF HealthTold
  <2>3. \A q \in Players : HealthTold(q)' => Head(queue'[q]).of \in hurt'
    BY <1>0, <2>2 DEF HitsKnown
  <2>4. \A q \in Players : pc'[q] = "hurt" => /\ HealthTold(q)' /\ Head(queue'[q]).of = level'[q]
                                              /\ read'[q] = health'[q]
    BY <1>0 DEF HitsKnown, HealthTold
  <2> QED BY <2>1, <2>3, <2>4 DEF HitsKnown
<1>1. CASE UNCHANGED vars
  <2>1. Hurting' = Hurting
    BY <1>1 DEF vars, Hurting
  <2> QED BY <1>0, <1>1, <2>1 DEF vars
<1>2. ASSUME NEW p \in Players, ReadPtrs(p) \/ TestItems(p) \/ DiffItems(p) PROVE HitsKnown'
  <2>1. Hurting' \subseteq Hurting
    BY <1>2, HurtingUpdate DEF Update
  <2>2. UNCHANGED <<queue, read, health, level, hurt>> /\ \A q \in Players : pc'[q] = "hurt" => pc[q] = "hurt"
    BY <1>2 DEF ReadPtrs, TestItems, DiffItems, Goto, TypeOK
  <2> QED BY <1>0, <2>1, <2>2
<1>3. ASSUME NEW p \in Players, SkipHealth(p) \/ WriteHealth(p) \/ ReadItems(p) PROVE HitsKnown'
  <2>1. Hurting' \subseteq Hurting
    BY <1>3, HurtingUpdate DEF Update
  <2>2. queue' = [queue EXCEPT ![p] = Tail(@)] /\ queue[p] # <<>> /\ UNCHANGED <<level, hurt>>
    BY <1>3 DEF SkipHealth, WriteHealth, ReadItems, Queued, TypeOK
  <2>3. queue'[p] = <<>> /\ \A q \in Players : q # p => queue'[q] = queue[q]
    BY <2>2, OneTaken
  <2>4. \A q \in Players : queue'[q] = queue[q] \/ ~HealthTold(q)'
    BY <2>3 DEF HealthTold
  <2>5. /\ pc'[p] # "hurt"
        /\ \A q \in Players : q # p => pc'[q] = pc[q] /\ read'[q] = read[q] /\ health'[q] = health[q]
    BY <1>3 DEF SkipHealth, WriteHealth, ReadItems, Goto, TypeOK
  <2> QED BY <1>0, <2>1, <2>2, <2>3, <2>4, <2>5
<1>4. ASSUME NEW p \in Players, ReadHealth(p) PROVE HitsKnown'
  <2>1. Hurting' \subseteq Hurting
    BY <1>4, HurtingUpdate DEF Update
  <2>2. /\ pc' = [pc EXCEPT ![p] = "hurt"] /\ read' = [read EXCEPT ![p] = health[p]]
        /\ UNCHANGED <<queue, health, level, hurt>>
        /\ HealthTold(p) /\ Head(queue[p]).of = level[p]
    BY <1>4 DEF ReadHealth, Goto, Queued, HealthTold
  <2>3. \A q \in Players : pc'[q] = "hurt" => /\ HealthTold(q) /\ Head(queue[q]).of = level[q]
                                              /\ read'[q] = health[q]
    BY <2>2 DEF HitsKnown, TypeOK
  <2> QED BY <2>1, <2>2, <2>3 DEF HitsKnown, HealthTold
<1>5. ASSUME NEW p \in Players, SendHealth(p) PROVE HitsKnown'
  <2>1. Hurting' \subseteq Hurting /\ UNCHANGED <<level, hurt, read, health>> /\ pc[p] = "read"
        /\ pc' = [pc EXCEPT ![p] = "items"]
    BY <1>5, HurtingUpdate DEF Update, SendHealth, Goto
  <2>2. CASE health[p] = seenHealth[p]
    <3>1. UNCHANGED queue
      BY <1>5, <2>2 DEF SendHealth
    <3> QED BY <1>0, <2>1, <3>1 DEF TypeOK
  <2>3. CASE health[p] # seenHealth[p]
    <3> DEFINE m == HealthMsg(level[p], health[p] - seenHealth[p])
    <3>1. Tell(p, m) /\ p \in Hurting
      BY <1>5, <2>3 DEF SendHealth, Hurting
    <3>2. \A q \in Players : queue[q] = <<>>
      BY <3>1 DEF OneAtATime
    <3>3. m.of \in hurt
      BY <3>1 DEF HealthMsg, HitsKnown
    <3> HIDE DEF m
    <3>4. queue'[p] = <<>> /\ \A q \in Players : q # p => queue'[q] = <<m>>
      BY <3>1, <3>2, OneTold
    <3>5. \A q \in Players : pc[q] # "hurt"
      BY <3>2 DEF HitsKnown, HealthTold
    <3>6. \A q \in Players : pc'[q] # "hurt"
      BY <2>1, <3>5 DEF TypeOK
    <3>7. \A q \in Players : HealthTold(q)' => Head(queue'[q]).of \in hurt
      BY <3>3, <3>4 DEF HealthTold
    <3> QED BY <2>1, <3>6, <3>7 DEF HitsKnown
  <2> QED BY <2>2, <2>3
<1>6. ASSUME NEW p \in Players, SendItems(p) PROVE HitsKnown'
  <2>1. Hurting' \subseteq Hurting /\ UNCHANGED <<level, hurt, read, health>> /\ pc[p] = "send"
        /\ pc' = [pc EXCEPT ![p] = "read"]
    BY <1>6, HurtingUpdate DEF Update, SendItems, Goto
  <2>2. PICK i \in DOMAIN delta[p] : TRUE
    BY <1>6 DEF SendItems
  <2>3. Tell(p, ItemsMsg(delta[p])) /\ Dues # {}
    BY <1>6, <2>2, DeltaIsDue DEF SendItems
  <2>4. \A q \in Players : queue[q] = <<>>
    BY <2>3 DEF OneAtATime
  <2>5. queue'[p] = <<>> /\ \A q \in Players : q # p => queue'[q] = <<ItemsMsg(delta[p])>>
    BY <2>3, <2>4, OneTold
  <2>6. \A q \in Players : ~HealthTold(q)'
    BY <2>5 DEF HealthTold, ItemsMsg
  <2>7. \A q \in Players : pc'[q] # "hurt"
    BY <2>1, <2>4 DEF HitsKnown, HealthTold, TypeOK
  <2> QED BY <2>1, <2>6, <2>7 DEF HitsKnown
<1>7. ASSUME NEW p \in Players, Hit(p) PROVE HitsKnown'
  <2>1. Hurting = {} /\ \A q \in Players : queue[q] = <<>>
    BY <1>7, QuietRest DEF Hit, MayChange
  <2>2. /\ health' = [health EXCEPT ![p] = health[p] - 1] /\ hurt' = hurt \cup {level[p]}
        /\ UNCHANGED <<level, queue, seenHealth, pc>>
    BY <1>7 DEF Hit
  <2>3. Hurting' \subseteq {p}
    BY <2>1, <2>2 DEF Hurting, TypeOK
  <2>4. \A q \in Players : ~HealthTold(q)' /\ pc'[q] # "hurt"
    BY <2>1, <2>2 DEF HealthTold, HitsKnown
  <2> QED BY <2>2, <2>3, <2>4 DEF HitsKnown
<1>8. ASSUME NEW p \in Players, NEW i \in Items, Item(p, i) PROVE HitsKnown'
  <2>1. Hurting' = Hurting
    BY <1>8 DEF Item, Hurting
  <2> QED BY <1>0, <1>8, <2>1 DEF Item
<1>9. ASSUME NEW p \in Players, NEW l \in Levels, Enter(p, l) PROVE HitsKnown'
  <2>1. Hurting' \subseteq Hurting \ {p}
    BY <1>9 DEF Enter, Goto, Hurting, TypeOK
  <2>2. /\ UNCHANGED <<hurt, queue, read>> /\ pc' = [pc EXCEPT ![p] = "entered"]
        /\ level' = [level EXCEPT ![p] = l] /\ health' = [health EXCEPT ![p] = StartHealth]
    BY <1>9 DEF Enter, Goto
  <2>3. \A q \in Players : q # p => level'[q] = level[q] /\ health'[q] = health[q] /\ pc'[q] = pc[q]
    BY <2>2
  <2>4. pc'[p] # "hurt"
    BY <2>2 DEF TypeOK
  <2>5. \A q \in Players : HealthTold(q)' = HealthTold(q)
    BY <2>2 DEF HealthTold
  <2>6. \A q \in Hurting' : level'[q] \in hurt'
    BY <2>1, <2>2, <2>3 DEF HitsKnown, Hurting
  <2>7. \A q \in Players : pc'[q] = "hurt" => /\ HealthTold(q)' /\ Head(queue'[q]).of = level'[q]
                                              /\ read'[q] = health'[q]
    BY <2>2, <2>3, <2>4, <2>5 DEF HitsKnown
  <2> QED BY <2>2, <2>5, <2>6, <2>7 DEF HitsKnown
<1> QED BY <1>1, <1>2, <1>3, <1>4, <1>5, <1>6, <1>7, <1>8, <1>9 DEF Next, Update

\* The enemies stay the same if what everybody is told stays so.
LEMMA EnemiesKept ==
  ASSUME SameEnemies, UNCHANGED <<level, apart>>, hurt \subseteq hurt',
         \A p \in Players : ToldHealth(p)' = ToldHealth(p)
  PROVE  SameEnemies'
BY DEF SameEnemies

\* An event of health goes to all others, and its sender has seen what it tells.
LEMMA EnemiesSend ==
  ASSUME TypeOK, OneAtATime, HitsKnown, SameEnemies, NEW p \in Players, SendHealth(p)
  PROVE  SameEnemies'
<1> USE DEF gameVars, levelVars
<1>1. /\ pc[p] = "read" /\ pc' = [pc EXCEPT ![p] = "items"] /\ UNCHANGED <<health, level, apart, hurt>>
  BY DEF SendHealth, Goto
<1>2. CASE health[p] = seenHealth[p]
  <2>1. UNCHANGED <<queue, seenHealth>>
    BY <1>2 DEF SendHealth
  <2>2. \A q \in Players : pc'[q] = "entered" <=> pc[q] = "entered"
    BY <1>1 DEF TypeOK
  <2>3. \A q \in Players : ToldHealth(q)' = ToldHealth(q)
    BY <1>1, <2>1, <2>2 DEF ToldHealth, HealthTold
  <2> QED BY <1>1, <2>3, EnemiesKept
<1>3. CASE health[p] # seenHealth[p]
  <2> DEFINE d == health[p] - seenHealth[p]
             m == HealthMsg(level[p], d)
  <2>1. Tell(p, m) /\ p \in Hurting /\ seenHealth' = [seenHealth EXCEPT ![p] = health[p]]
    BY <1>1, <1>3 DEF SendHealth, Hurting
  <2>2. \A q \in Players : queue[q] = <<>>
    BY <2>1 DEF OneAtATime
  <2>3. m.of = level[p] /\ m.by = d /\ m.kind = "health"
    BY DEF HealthMsg
  <2>4. health[p] \in Int /\ seenHealth[p] \in Int /\ d \in Int /\ seenHealth[p] + d = health[p]
    BY DEF TypeOK
  <2> HIDE DEF m, d
  <2>5. queue'[p] = <<>> /\ \A q \in Players : q # p => queue'[q] = <<m>>
    BY <2>1, <2>2, OneTold
  <2>6. ASSUME NEW q \in Players
        PROVE  ToldHealth(q)' = ToldHealth(q) + IF level[q] = level[p] THEN d ELSE 0
    <3>1. ~HealthTold(q) /\ health[q] \in Int /\ seenHealth[q] \in Int
      BY <2>2 DEF HealthTold, TypeOK
    <3>2. CASE q = p
      <4>1. ~HealthTold(p)' /\ seenHealth'[p] = health[p] /\ pc'[p] # "entered"
        BY <1>1, <2>1, <2>5 DEF HealthTold, TypeOK
      <4> QED BY <1>1, <2>4, <3>1, <3>2, <4>1 DEF ToldHealth
    <3>3. CASE q # p
      <4>1. Head(queue'[q]) = m /\ queue'[q] # <<>>
        BY <2>5, <3>3
      <4>2. /\ seenHealth'[q] = seenHealth[q] /\ pc'[q] = pc[q] /\ level'[q] = level[q]
            /\ health'[q] = health[q]
        BY <1>1, <2>1, <3>3 DEF TypeOK
      <4>3. HealthTold(q)'
        BY <2>3, <4>1 DEF HealthTold
      <4> QED BY <2>3, <2>4, <3>1, <4>1, <4>2, <4>3 DEF ToldHealth
    <3> QED BY <3>2, <3>3
  <2>7. level[p] \in hurt
    BY <2>1 DEF HitsKnown
  <2>8. ASSUME NEW q \in Players, level[q] \notin hurt PROVE ToldHealth(q)' = StartHealth
    <3>1. level[q] # level[p] /\ ToldHealth(q) = StartHealth
      BY <2>7, <2>8 DEF SameEnemies
    <3> QED BY <2>6, <3>1, SyncAssumption
  <2>9. ASSUME NEW q \in Players, NEW r \in Players, level[q] = level[r], q \notin apart, r \notin apart
        PROVE  ToldHealth(q)' = ToldHealth(r)'
    BY <2>6, <2>9 DEF SameEnemies
  <2> QED BY <1>1, <2>8, <2>9 DEF SameEnemies
<1> QED BY <1>2, <1>3

\* The events that readMessage takes out are added to what was seen, or of a level
\* that the player is not in.
LEMMA EnemiesRead ==
  ASSUME TypeOK, OneAtATime, HitsKnown, SameEnemies, NEW p \in Players,
         SkipHealth(p) \/ WriteHealth(p) \/ ReadItems(p)
  PROVE  SameEnemies'
<1> USE DEF gameVars, levelVars
<1>1. queue' = [queue EXCEPT ![p] = Tail(@)] /\ queue[p] # <<>> /\ UNCHANGED <<level, apart, hurt>>
  BY DEF SkipHealth, WriteHealth, ReadItems, Queued, TypeOK
<1>2. queue'[p] = <<>> /\ (\A q \in Players : q # p => queue'[q] = queue[q]) /\ Hurting = {}
  BY <1>1, OneTaken
<1>3. \A q \in Players : q # p => /\ pc'[q] = pc[q] /\ health'[q] = health[q] /\ seenHealth'[q] = seenHealth[q]
  BY DEF SkipHealth, WriteHealth, ReadItems, Goto, TypeOK
<1>4. ~HealthTold(p)' /\ seenHealth[p] \in Int
  BY <1>2 DEF HealthTold, TypeOK
<1>5. ToldHealth(p)' = ToldHealth(p)
  <2>1. CASE SkipHealth(p)
    <3>1. UNCHANGED <<pc, health, seenHealth>> /\ Head(queue[p]).of # level[p]
      BY <2>1 DEF SkipHealth
    <3> QED BY <1>4, <3>1 DEF ToldHealth
  <2>2. CASE WriteHealth(p)
    <3>1. /\ pc[p] = "hurt" /\ pc' = [pc EXCEPT ![p] = "read"]
          /\ seenHealth' = [seenHealth EXCEPT ![p] = read[p] + Head(queue[p]).by]
      BY <2>2 DEF WriteHealth, HealthAfter, Goto
    <3>2. HealthTold(p) /\ Head(queue[p]).of = level[p] /\ read[p] = health[p]
      BY <3>1 DEF HitsKnown
    <3>3. health[p] = seenHealth[p]
      BY <1>2, <3>1 DEF Hurting
    <3>4. pc'[p] = "read" /\ seenHealth'[p] = seenHealth[p] + Head(queue[p]).by
      BY <3>1, <3>2, <3>3 DEF TypeOK
    <3>5. Head(queue[p]).by \in Int
      BY <3>2, QueueTypes DEF HealthTold
    <3> QED BY <1>4, <3>1, <3>2, <3>4, <3>5 DEF ToldHealth
  <2>3. CASE ReadItems(p)
    <3>1. UNCHANGED <<pc, health, seenHealth>> /\ ~HealthTold(p)
      BY <2>3 DEF ReadItems, HealthTold
    <3> QED BY <1>4, <3>1 DEF ToldHealth
  <2> QED BY <2>1, <2>2, <2>3
<1>6. \A q \in Players : q # p => ToldHealth(q)' = ToldHealth(q)
  BY <1>1, <1>2, <1>3 DEF ToldHealth, HealthTold
<1>7. \A q \in Players : ToldHealth(q)' = ToldHealth(q)
  BY <1>5, <1>6
<1> QED BY <1>1, <1>7, EnemiesKept

\* Every step keeps the enemies of a level the same, if the games change one at a time.
LEMMA EnemiesStep ==
  TypeOK /\ ~overlap /\ OneAtATime /\ HitsKnown /\ SameEnemies /\ [Next]_vars => SameEnemies'
<1> SUFFICES ASSUME TypeOK, ~overlap, OneAtATime, HitsKnown, SameEnemies, [Next]_vars PROVE SameEnemies'
  OBVIOUS
<1> USE DEF gameVars, levelVars
<1>1. CASE UNCHANGED vars
  <2>1. \A q \in Players : ToldHealth(q)' = ToldHealth(q)
    BY <1>1 DEF vars, ToldHealth, HealthTold
  <2> QED BY <1>1, <2>1, EnemiesKept DEF vars
<1>2. ASSUME NEW p \in Players, ReadPtrs(p) PROVE SameEnemies'
  <2>1. /\ pc[p] = "entered" /\ pc' = [pc EXCEPT ![p] = "read"]
        /\ seenHealth' = [seenHealth EXCEPT ![p] = health[p]]
        /\ UNCHANGED <<health, level, apart, hurt, queue>>
    BY <1>2 DEF ReadPtrs, Goto
  <2>2. \A q \in Players : ToldHealth(q)' = ToldHealth(q)
    BY <2>1 DEF ToldHealth, HealthTold, TypeOK
  <2> QED BY <2>1, <2>2, EnemiesKept
<1>3. ASSUME NEW p \in Players, ReadHealth(p) \/ TestItems(p) \/ DiffItems(p) \/ \E i \in Items : Item(p, i)
      PROVE  SameEnemies'
  <2>1. UNCHANGED <<health, seenHealth, level, apart, hurt, queue>>
    BY <1>3 DEF ReadHealth, TestItems, DiffItems, Item
  <2>2. \A q \in Players : pc'[q] = "entered" <=> pc[q] = "entered"
    BY <1>3 DEF ReadHealth, TestItems, DiffItems, Item, Goto, TypeOK
  <2>3. \A q \in Players : ToldHealth(q)' = ToldHealth(q)
    BY <2>1, <2>2 DEF ToldHealth, HealthTold
  <2> QED BY <2>1, <2>3, EnemiesKept
<1>4. ASSUME NEW p \in Players, SendItems(p) PROVE SameEnemies'
  <2>1. UNCHANGED <<health, seenHealth, level, apart, hurt>>
    BY <1>4 DEF SendItems
  <2>2. \A q \in Players : pc'[q] = "entered" <=> pc[q] = "entered"
    BY <1>4 DEF SendItems, Goto, TypeOK
  <2>3. \A q \in Players : queue'[q] = queue[q] \/ (~HealthTold(q) /\ ~HealthTold(q)')
    <3>1. PICK i \in DOMAIN delta[p] : TRUE
      BY <1>4 DEF SendItems
    <3>2. Tell(p, ItemsMsg(delta[p])) /\ Dues # {}
      BY <1>4, <3>1, DeltaIsDue DEF SendItems
    <3>3. \A q \in Players : queue[q] = <<>>
      BY <3>2 DEF OneAtATime
    <3>4. queue'[p] = <<>> /\ \A q \in Players : q # p => queue'[q] = <<ItemsMsg(delta[p])>>
      BY <3>2, <3>3, OneTold
    <3> QED BY <3>3, <3>4 DEF HealthTold, ItemsMsg
  <2>4. \A q \in Players : ToldHealth(q)' = ToldHealth(q)
    BY <2>1, <2>2, <2>3 DEF ToldHealth, HealthTold
  <2> QED BY <2>1, <2>4, EnemiesKept
<1>5. ASSUME NEW p \in Players, Hit(p) PROVE SameEnemies'
  <2>1. pc[p] # "entered" /\ apart' = apart
    BY <1>5 DEF Hit, MayChange, Quiet
  <2>2. /\ health' = [health EXCEPT ![p] = health[p] - 1] /\ hurt' = hurt \cup {level[p]}
        /\ UNCHANGED <<level, queue, seenHealth, pc>>
    BY <1>5 DEF Hit
  <2>3. \A q \in Players : ToldHealth(q)' = ToldHealth(q)
    BY <2>1, <2>2 DEF ToldHealth, HealthTold
  <2> QED BY <2>1, <2>2, <2>3, EnemiesKept
<1>6. ASSUME NEW p \in Players, NEW l \in Levels, Enter(p, l) PROVE SameEnemies'
  <2>1. /\ UNCHANGED <<hurt, queue, seenHealth>> /\ pc' = [pc EXCEPT ![p] = "entered"]
        /\ level' = [level EXCEPT ![p] = l] /\ health' = [health EXCEPT ![p] = StartHealth]
        /\ apart' = IF l \in hurt THEN apart \cup {p} ELSE apart \ {p}
    BY <1>6 DEF Enter, Goto
  <2>2. \A q \in Players : q # p => ToldHealth(q)' = ToldHealth(q) /\ level'[q] = level[q]
    BY <2>1 DEF ToldHealth, HealthTold
  <2>3. /\ pc'[p] = "entered" /\ level'[p] = l /\ health'[p] = StartHealth
        /\ HealthTold(p)' = HealthTold(p) /\ queue'[p] = queue[p]
    BY <2>1 DEF TypeOK, HealthTold
  <2>4. l \notin hurt => ToldHealth(p)' = StartHealth
    <3> SUFFICES ASSUME l \notin hurt PROVE ToldHealth(p)' = StartHealth
      OBVIOUS
    <3>1. ~(HealthTold(p) /\ Head(queue[p]).of = l)
      BY DEF HitsKnown
    <3> QED BY <2>3, <3>1, SyncAssumption DEF ToldHealth
  <2>5. \A q \in Players : level'[q] \notin hurt => ToldHealth(q)' = StartHealth
    BY <2>2, <2>3, <2>4 DEF SameEnemies
  <2>6. ASSUME NEW q \in Players, NEW r \in Players, level'[q] = level'[r], q \notin apart', r \notin apart'
        PROVE  ToldHealth(q)' = ToldHealth(r)'
    <3>1. CASE q # p /\ r # p
      BY <2>1, <2>2, <2>6, <3>1 DEF SameEnemies
    <3>2. CASE q = p \/ r = p
      <4>1. level'[q] = l /\ level'[r] = l /\ l \notin hurt
        BY <2>1, <2>3, <2>6, <3>2
      <4> QED BY <2>5, <4>1
    <3> QED BY <3>1, <3>2
  <2> QED BY <2>1, <2>5, <2>6 DEF SameEnemies
<1> QED BY <1>1, <1>2, <1>3, <1>4, <1>5, <1>6, EnemiesSend, EnemiesRead DEF Next, Update

\* What holds of games that change one at a time.
InStep == ~overlap => OneAtATime /\ DeltaExact /\ SameItems /\ HitsKnown /\ SameEnemies

LEMMA InStepInit == Init => InStep
<1> SUFFICES ASSUME Init PROVE InStep
  OBVIOUS
<1>1. Hurting = {} /\ Dues = {}
  BY SyncAssumption DEF Init, Hurting, Dues, Due, Less, None
<1>2. \A p \in Players : queue[p] = <<>> /\ DOMAIN delta[p] = {} /\ pc[p] = "read" /\ seenHealth[p] = StartHealth
  BY DEF Init, None
<1>3. \A p \in Players : ~HealthTold(p) /\ ~ItemsTold(p)
  BY <1>2 DEF HealthTold, ItemsTold
<1>4. \A p \in Players : ToldHealth(p) = StartHealth
  BY <1>2, <1>3, SyncAssumption DEF ToldHealth
<1>5. \A p \in Players, i \in Items : ToldCount(p, i) = StartCount
  BY <1>3, SyncAssumption DEF Init, ToldCount
<1>6. OneAtATime /\ DeltaExact
  BY <1>1, <1>2 DEF OneAtATime, DeltaExact
<1>7. SameItems
  BY <1>5, SyncAssumption DEF SameItems, Shared
<1>8. HitsKnown
  BY <1>1, <1>2, <1>3 DEF HitsKnown
<1>9. SameEnemies
  BY <1>4 DEF SameEnemies
<1> QED BY <1>6, <1>7, <1>8, <1>9 DEF InStep

\* Once everything was exchanged, what was told is what everybody has.
LEMMA InStepAgrees == TypeOK /\ InStep => AgreeWhenQuiet
<1> SUFFICES ASSUME TypeOK, InStep, ~overlap, Quiet, NEW p \in Players, NEW q \in Players
             PROVE  /\ \A i \in Shared : count[p][i] = count[q][i]
                    /\ level[p] = level[q] /\ {p, q} \cap apart = {} => health[p] = health[q]
  BY DEF AgreeWhenQuiet
<1>0. Dues = {} /\ \A r \in Players : queue[r] = <<>>
  BY QuietRest
<1>1. ASSUME NEW r \in Players, NEW i \in Shared PROVE ToldCount(r, i) = count[r][i]
  <2>1. i \in Items
    BY DEF Shared
  <2>2. ~Due(r, i)
    <3>1. <<r, i>> \notin Dues
      BY <1>0
    <3> QED BY <2>1, <3>1 DEF Dues
  <2>3. count[r][i] = seenCount[r][i] /\ count[r][i] \in Int
    BY <2>1, <2>2 DEF Due, Shared, TypeOK
  <2> QED BY <1>0, <2>3 DEF ToldCount, ItemsTold
<1>2. ASSUME NEW r \in Players PROVE ToldHealth(r) = health[r]
  <2>1. queue[r] = <<>> /\ pc[r] # "entered" /\ health[r] = seenHealth[r] /\ health[r] \in Int
    BY DEF Quiet, TypeOK
  <2> QED BY <2>1 DEF ToldHealth, HealthTold
<1>3. \A i \in Shared : count[p][i] = count[q][i]
  BY <1>1 DEF InStep, SameItems
<1> QED BY <1>2, <1>3 DEF InStep, SameEnemies

\* If the games change one at a time, then whenever everything was exchanged, all
\* players have the same shared items, and those in the same level the same enemies,
\* for any number of players, levels, items and changes.
THEOREM PlayersAgree == Spec => []AgreeWhenQuiet
<1>1. TypeOK /\ NoNegativeItems /\ InStep /\ [Next]_vars => InStep'
  <2> SUFFICES ASSUME TypeOK, NoNegativeItems, InStep, [Next]_vars PROVE InStep'
    OBVIOUS
  <2>1. overlap' = overlap
    BY DEF Next, Update, ReadPtrs, SkipHealth, ReadHealth, WriteHealth, ReadItems, SendHealth, TestItems, DiffItems,
           SendItems, Hit, Item, Enter, vars, gameVars
  <2> QED BY <2>1, OneStep, DeltaStep, SameStep, HitsStep, EnemiesStep DEF InStep
<1> QED BY <1>1, InStepInit, InStepAgrees, ItemsNonNegative, TypeCorrectness, PTL DEF Spec

===============================================================================
