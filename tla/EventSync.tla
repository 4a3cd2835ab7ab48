------------------------------- MODULE EventSync -------------------------------
(***************************************************************************)
(* The events of "Hobbit Multiplayer"/MainPlayer.h: every player's client   *)
(* compares the health of the enemies and the inventory of its game with    *)
(* what it saw last, tells the others the differences, and applies those    *)
(* the others tell.  The server relays them as Relay says: here, each event *)
(* is put into the queues of all the others at once.                        *)
(*                                                                          *)
(* One enemy stands for all those of a level: an event names its enemy, and *)
(* a player whose level does not have it leaves the event aside.  A player  *)
(* enters a level when it likes; five seconds later, readPtrs looks at what *)
(* the game holds.  In between no messages are processed.                   *)
(*                                                                          *)
(* An item is its index in the inventory array.  Floats are integers.  The  *)
(* game runs while the client reads and writes its memory, so a read of the *)
(* memory and a later write are two steps.                                  *)
(***************************************************************************)
EXTENDS Integers, Sequences, FiniteSets

CONSTANTS
  Players,
  Levels, First,   \* the levels, and the one all begin with
  Items,        \* indices of the inventory array that matter
  StartHealth, StartCount,   \* what the level begins with
  MaxChanges,   \* bound: changes the games make
  MaxVisits     \* bound: levels entered after the first one

ASSUME SyncAssumption ==
  /\ IsFiniteSet(Players) /\ Items \subseteq 0 .. 55
  /\ First \in Levels
  /\ StartHealth \in Int /\ StartCount \in Nat
  /\ MaxChanges \in Nat /\ MaxVisits \in Nat

VARIABLES
  level,                \* per player: the level its game is in
  health, seenHealth,   \* per player: the game's value, MainPlayer's (e.second)
  count, seenCount,     \* per player and item: the game's, MainPlayer's (inventory)
  queue,                \* per player: events it has not applied
  pc,                   \* per player: where its update thread is
  read,                 \* per player: the health it has read and will add to
  delta,                \* per player: the item changes it is about to send
  changes, sends,       \* history: changes the games made, events sent
  overlap,              \* the games change while events are under way (never changes)
  visits,               \* history: levels entered
  hurt,                 \* history: levels whose enemy was hit
  apart                 \* history: players whose enemy has missed a hit, or has
                        \* one that the others were not told

levelVars == <<level, visits, hurt, apart>>
gameVars == <<health, count, changes, overlap, levelVars>>
vars == <<gameVars, seenHealth, seenCount, queue, pc, read, delta, sends>>

None == [i \in {} |-> 0]
HealthMsg(l, d) == [kind |-> "health", of |-> l, by |-> d]
ItemsMsg(f)  == [kind |-> "items", by |-> f]

\* The loop of writeInventoryEvent leaves these indices out.
Skipped == (2 .. 5) \cup (8 .. 19) \cup (23 .. 24) \cup (26 .. 27) \cup {46, 50, 51}

Less(p, i) == count[p][i] < seenCount[p][i]

\* Its tests: is a change of this item sent?
Sent(p, i) ==
  /\ i \notin Skipped
  /\ IF i < 53 THEN count[p][i] # seenCount[p][i] ELSE Less(p, i)
  /\ i = 6 => ~Less(p, i)
  /\ i = 7 => ~Less(p, i) /\ (25 \in Items => ~Less(p, 25))

\* readPtrs at the entry of the first level: everything the game holds is known.
Init ==
  /\ level = [p \in Players |-> First] /\ visits = 0 /\ hurt = {} /\ apart = {}
  /\ health = [p \in Players |-> StartHealth] /\ seenHealth = health
  /\ count = [p \in Players |-> [i \in Items |-> StartCount]] /\ seenCount = count
  /\ queue = [p \in Players |-> <<>>]
  /\ pc = [p \in Players |-> "read"]
  /\ read = [p \in Players |-> 0]
  /\ delta = [p \in Players |-> None]
  /\ changes = 0 /\ sends = 0
  /\ overlap \in BOOLEAN

Goto(p, l) == pc' = [pc EXCEPT ![p] = l]

-------------------------------------------------------------------------------
(* What the games may do.                                                   *)

\* Nothing is under way between the players.
Quiet == \A p \in Players : /\ pc[p] # "entered" /\ queue[p] = <<>> /\ delta[p] = None
                            /\ health[p] = seenHealth[p]
                            /\ \A i \in Items : ~Sent(p, i)

MayChange == changes < MaxChanges /\ (overlap \/ Quiet)

\* The game has found an item, or used one up.
CountMoves(p, i, d) == count[p][i] + d >= 0 /\ count' = [count EXCEPT ![p][i] = @ + d]

-------------------------------------------------------------------------------
(* The entry of another level, or of the same one again.                    *)

\* The enemies of the level are as new.  The game may take or give an item.  The
\* update thread is between two cycles: events that are still in the queue had
\* not arrived in the first of them.
Enter(p, l) ==
  /\ pc[p] = "read" /\ visits < MaxVisits
  /\ level' = [level EXCEPT ![p] = l]
  /\ health' = [health EXCEPT ![p] = StartHealth]
  /\ apart' = IF l \in hurt THEN apart \cup {p} ELSE apart \ {p}
  /\ visits' = visits + 1
  /\ \/ UNCHANGED <<count, changes>>
     \/ /\ MayChange
        /\ \E i \in Items, d \in {-1, 1} : CountMoves(p, i, d)
        /\ changes' = changes + 1
  /\ Goto(p, "entered")
  /\ UNCHANGED <<hurt, overlap, seenHealth, seenCount, queue, read, delta, sends>>

\* readPtrs begins a new list of enemies, and appends to the inventory, of which
\* the first entries stay the ones in use.  Mutant: it begins a new one, too.
Reloaded(p) == count[p]
Inventory(p) == seenCount[p]

ReadPtrs(p) ==
  /\ pc[p] = "entered"
  /\ seenHealth' = [seenHealth EXCEPT ![p] = health[p]]
  /\ seenCount' = [seenCount EXCEPT ![p] = Inventory(p)]
  /\ Goto(p, "read")
  /\ UNCHANGED <<gameVars, queue, read, delta, sends>>

-------------------------------------------------------------------------------
(* readMessage: the events of the queue, then the write.                    *)

\* eventMessagesSize() > 0.  Mutant: one event is taken for none.
SeveralQueued(p) == Len(queue[p]) > 1
Queued(p) == queue[p] # <<>>

\* readProcessEnemiesHealth: the enemy is not in this level ...
SkipHealth(p) ==
  /\ pc[p] = "read" /\ Queued(p) /\ Head(queue[p]).kind = "health"
  /\ Head(queue[p]).of # level[p]
  /\ queue' = [queue EXCEPT ![p] = Tail(@)]
  /\ UNCHANGED <<gameVars, seenHealth, seenCount, pc, read, delta, sends>>

\* ... or its current health is read ...
ReadHealth(p) ==
  /\ pc[p] = "read" /\ Queued(p) /\ Head(queue[p]).kind = "health"
  /\ Head(queue[p]).of = level[p]
  /\ read' = [read EXCEPT ![p] = health[p]]
  /\ Goto(p, "hurt")
  /\ UNCHANGED <<gameVars, seenHealth, seenCount, queue, delta, sends>>

\* e.second = health + change.  Mutant: the change is not remembered.
HealthForgotten(p) == seenHealth[p]
HealthAfter(p) == read[p] + Head(queue[p]).by

\* ... and the sum is remembered and written.
WriteHealth(p) ==
  /\ pc[p] = "hurt"
  /\ seenHealth' = [seenHealth EXCEPT ![p] = HealthAfter(p)]
  /\ health' = [health EXCEPT ![p] = read[p] + Head(queue[p]).by]
  /\ queue' = [queue EXCEPT ![p] = Tail(@)]
  /\ read' = [read EXCEPT ![p] = 0]
  /\ Goto(p, "read")
  /\ UNCHANGED <<count, changes, overlap, levelVars, seenCount, delta, sends>>

\* readProcessInventory: added to what was seen, not below zero.
\* Mutant: below zero.
Added(n, d) == n + d
AddedTo(n, d) == IF n + d < 0 THEN 0 ELSE n + d

\* Both MainPlayer's count and the game's become the new value.
ReadItems(p) ==
  LET by  == Head(queue[p]).by
      new == [i \in Items |-> IF i \in DOMAIN by THEN AddedTo(seenCount[p][i], by[i])
                                                 ELSE seenCount[p][i]]
  IN /\ pc[p] = "read" /\ Queued(p) /\ Head(queue[p]).kind = "items"
     /\ seenCount' = [seenCount EXCEPT ![p] = new]
     /\ count' = [count EXCEPT ![p] = [i \in Items |-> IF i \in DOMAIN by THEN new[i] ELSE @[i]]]
     /\ queue' = [queue EXCEPT ![p] = Tail(@)]
     /\ UNCHANGED <<health, changes, overlap, levelVars, seenHealth, pc, read, delta, sends>>

-------------------------------------------------------------------------------
(* write: the differences go to all the others.                             *)

\* Mutant: it is sent to the sender too.
Everybody(p, m) == queue' = [q \in Players |-> Append(queue[q], m)]
Tell(p, m) == queue' = [q \in Players |-> IF q = p THEN queue[q] ELSE Append(queue[q], m)]

\* Every event was read; writeEnemiesEvent.
SendHealth(p) ==
  /\ pc[p] = "read" /\ ~Queued(p)
  /\ IF health[p] # seenHealth[p]
     THEN /\ Tell(p, HealthMsg(level[p], health[p] - seenHealth[p]))
          /\ seenHealth' = [seenHealth EXCEPT ![p] = health[p]]
          /\ sends' = sends + 1
     ELSE UNCHANGED <<queue, seenHealth, sends>>
  /\ Goto(p, "items")
  /\ UNCHANGED <<gameVars, seenCount, read, delta>>

\* writeInventoryEvent reads an item three times, while the game runs: for the
\* tests, which find out what is to be sent, if anything is ...
TestItems(p) ==
  /\ pc[p] = "items"
  /\ delta' = [delta EXCEPT ![p] = [i \in {j \in Items : Sent(p, j)} |-> count[p][i] - seenCount[p][i]]]
  /\ Goto(p, IF \E i \in Items : Sent(p, i) THEN "diff" ELSE "read")
  /\ UNCHANGED <<gameVars, seenHealth, seenCount, queue, read, sends>>

\* ... for the difference that is sent (item by item in the code) ...
DiffItems(p) ==
  /\ pc[p] = "diff"
  /\ delta' = [delta EXCEPT ![p] = [i \in DOMAIN @ |-> count[p][i] - seenCount[p][i]]]
  /\ Goto(p, "send")
  /\ UNCHANGED <<gameVars, seenHealth, seenCount, queue, read, sends>>

\* ... and for what is remembered.
SendItems(p) ==
  /\ pc[p] = "send" /\ DOMAIN delta[p] # {}
  /\ Tell(p, ItemsMsg(delta[p]))
  /\ seenCount' = [seenCount EXCEPT ![p] =
        [i \in Items |-> IF i \in DOMAIN delta[p] THEN count[p][i] ELSE @[i]]]
  /\ delta' = [delta EXCEPT ![p] = None]
  /\ sends' = sends + 1
  /\ Goto(p, "read")
  /\ UNCHANGED <<gameVars, seenHealth, read>>

-------------------------------------------------------------------------------
(* The players, in their games.                                             *)

\* The player hurts the enemy.
Hit(p) ==
  /\ MayChange
  /\ health' = [health EXCEPT ![p] = @ - 1]
  /\ changes' = changes + 1
  /\ hurt' = hurt \cup {level[p]}
  /\ apart' = IF pc[p] = "entered" THEN apart \cup {p} ELSE apart
  /\ UNCHANGED <<level, visits, count, overlap, seenHealth, seenCount, queue, pc, read, delta, sends>>

\* The player finds an item, or uses one.
Item(p, i) ==
  /\ MayChange
  /\ \E d \in {-1, 1} : CountMoves(p, i, d)
  /\ changes' = changes + 1
  /\ UNCHANGED <<health, overlap, levelVars, seenHealth, seenCount, queue, pc, read, delta, sends>>

-------------------------------------------------------------------------------
Update(p) == \/ ReadPtrs(p) \/ SkipHealth(p) \/ ReadHealth(p) \/ WriteHealth(p) \/ ReadItems(p)
             \/ SendHealth(p) \/ TestItems(p) \/ DiffItems(p) \/ SendItems(p)

Next == \E p \in Players : \/ Update(p) \/ Hit(p)
                           \/ \E i \in Items : Item(p, i)
                           \/ \E l \in Levels : Enter(p, l)

Spec == Init /\ [][Next]_vars

FairSpec == Spec /\ \A p \in Players : WF_vars(Update(p))

-------------------------------------------------------------------------------
(* Properties.                                                              *)

\* The item changes of an event, and the events.
ItemChanges == UNION {[S -> Int] : S \in SUBSET Items}
Events == [kind : {"health"}, of : Levels, by : Int] \cup [kind : {"items"}, by : ItemChanges]

\* Every variable has values of its type, and who is about to add to a health it
\* has read (MainPlayer.h:189) still has the event first in its queue.
TypeOK ==
  /\ health \in [Players -> Int] /\ seenHealth \in [Players -> Int]
  /\ count \in [Players -> [Items -> Int]] /\ seenCount \in [Players -> [Items -> Int]]
  /\ level \in [Players -> Levels] /\ hurt \subseteq Levels /\ apart \subseteq Players
  /\ visits \in Nat
  /\ pc \in [Players -> {"entered", "read", "hurt", "items", "diff", "send"}]
  /\ read \in [Players -> Int] /\ delta \in [Players -> ItemChanges]
  /\ changes \in 0 .. MaxChanges /\ sends \in Nat /\ overlap \in BOOLEAN
  /\ queue \in [Players -> Seq(Events)]
  /\ \A p \in Players : pc[p] = "hurt" => queue[p] # <<>> /\ Head(queue[p]).kind = "health"

\* What a player applies is never sent again: the players send no more events
\* than their games made changes, so that no change goes round for ever.
NoEcho == sends <= changes

\* No inventory is driven below zero, not even when several players use the
\* last of an item at the same time.
NoNegativeItems == \A p \in Players : \A i \in Items : count[p][i] >= 0 /\ seenCount[p][i] >= 0

\* The items of which every change is sent.  (What is used up of 6 and 7, and what
\* is found of 53 to 55, stays with the player.)
Shared == {i \in Items : i \notin Skipped \cup {6, 7} /\ i < 53}

\* If the games change one at a time, then once everything was exchanged all
\* players have the same shared items again, whatever levels they entered, and
\* those in the same level the same enemies, unless they entered it after a hit
\* or hit one before readPtrs.
AgreeWhenQuiet ==
  ~overlap /\ Quiet =>
    \A p, q \in Players :
      /\ \A i \in Shared : count[p][i] = count[q][i]
      /\ level[p] = level[q] /\ {p, q} \cap apart = {} => health[p] = health[q]

\* Everything that was sent is applied: the players come to rest.
ComesToRest == <>[]Quiet

===============================================================================
