----------------------------- MODULE HobbitClient ------------------------------
(***************************************************************************)
(* The client of one player: the receive thread of ServerClient/Client.cpp, *)
(* the update thread of "Hobbit Multiplayer"/HobbitClient.cpp, and the      *)
(* thread of the application that calls start() and stop().                 *)
(*                                                                          *)
(* The receive thread writes the queues under messageMutex, but the update  *)
(* thread reads, pops and clears them without it, so that the mutex orders  *)
(* nothing between the two and is not a variable.  Every access is one step *)
(* of the model: what a torn access of the containers themselves could do   *)
(* is outside it.                                                           *)
(*                                                                          *)
(* Messages are numbered: the n-th event received, the v-th snapshot of a   *)
(* sender.  Text messages are left out: no code of the repository sends     *)
(* one.  The server behaves as Server.tla shows: once it has sent a list,   *)
(* game messages come from clients of the last list.                        *)
(***************************************************************************)
EXTENDS Integers, Sequences, FiniteSets, FiniteSetsExt

CONSTANTS
  Ids,          \* ids of the clients of the server
  MyId,         \* the one the server gives this client
  MaxPlayers,   \* MAX_PLAYERS, 7 in the code
  MaxLists, MaxEvents, MaxGame,   \* bounds: lists, events, and
                \* events and snapshots of any two senders together
  MaxFlips      \* bound: times the game becomes playable or stops being so

NoId == -1      \* the id of an unused slot, and of no client
Unset == 255    \* clientID before the server has told it

ASSUME ClientAssumption ==
  /\ Ids \subseteq Nat /\ IsFiniteSet(Ids) /\ Unset \notin Ids
  /\ MyId \in Ids
  /\ MaxPlayers \in Nat \ {0}
  /\ {MaxLists, MaxEvents, MaxGame, MaxFlips} \subseteq Nat

Slots == 1 .. MaxPlayers

VARIABLES
  conn,         \* the connection: "none", "up" or "lost"
  isConnected, running, clientID,
  ready, flips, \* processMessages and isOnLevel(), and how often they changed
  main, rx, up, \* where the application, the receive and the update thread are
  list,         \* connectedClientsInfo, the last list received
  slotNo,       \* the slot the receive thread writes next
  playerId,     \* per slot: connectedPlayers[i].id
  stored,       \* per slot: the sender whose snapshot it holds
  eventMessages, snapshotMessages,
  copy,         \* readMessage's copy of the snapshots ...
  cur, slot,    \* ... the one it is at, and the slot it looks at, or found, for it
  foundAt,      \* history: the number of the list when its search began, or 0
  lists, received, applied,  \* history: lists, events received, events applied
  late,         \* history: a list came after stop() was called
  recvV, appliedV            \* history: per sender, last snapshot received, applied

mainVars == <<conn, ready, flips, main>>
rxVars   == <<rx, list, slotNo, playerId, clientID, lists, late, received, recvV>>
upVars   == <<up, stored, copy, cur, slot, foundAt, applied, appliedV>>
vars == <<mainVars, rxVars, upVars, isConnected, running, eventMessages, snapshotMessages>>

NoSnaps == [s \in Ids |-> 0]

\* Mutant: the ids are counted from the largest.
NthFromTop(S, k) == IF Cardinality(S) < k THEN NoId
                    ELSE CHOOSE x \in S : Cardinality({y \in S : y > x}) = k - 1

\* The k-th client id in the order of std::map, or none.
Nth(S, k) == IF Cardinality(S) < k THEN NoId
             ELSE CHOOSE x \in S : Cardinality({y \in S : y < x}) = k - 1

Init ==
  /\ conn = "none" /\ isConnected = FALSE /\ running = FALSE /\ clientID = Unset
  /\ ready = FALSE /\ flips = 0
  /\ main = "idle" /\ rx = "none" /\ up = "none"
  /\ list = {} /\ slotNo = 1
  /\ playerId = [i \in Slots |-> NoId]
  /\ stored = [i \in Slots |-> NoId]
  /\ eventMessages = <<>> /\ snapshotMessages = NoSnaps
  /\ copy = NoSnaps /\ cur = NoId /\ slot = 1 /\ foundAt = 0
  /\ lists = 0 /\ late = FALSE /\ received = 0 /\ applied = <<>>
  /\ recvV = NoSnaps /\ appliedV = NoSnaps

-------------------------------------------------------------------------------
(* start() and stop()                                                       *)

\* addListener and a successful connect, which starts the receive thread.
StartConnect ==
  /\ main = "idle"
  /\ conn' = "up" /\ isConnected' = TRUE
  /\ rx' = "loop"
  /\ main' = "waiting"
  /\ UNCHANGED <<ready, flips, list, slotNo, playerId, clientID, lists, late, received, recvV,
                 upVars, running, eventMessages, snapshotMessages>>

\* The game is open: running is set, the game manager is started.
StartRunning ==
  /\ main = "waiting"
  /\ running' = TRUE
  /\ main' = "opening"
  /\ UNCHANGED <<conn, ready, flips, rxVars, upVars, isConnected, eventMessages, snapshotMessages>>

\* The update thread is started, after onOpenGame().
StartUpdating ==
  /\ main = "opening"
  /\ up' = "check"
  /\ main' = "started"
  /\ UNCHANGED <<conn, ready, flips, rxVars, stored, copy, cur, slot, foundAt, applied, appliedV,
                 isConnected, running, eventMessages, snapshotMessages>>

\* running = false.  Mutant: it is left alone.
HaltNothing == UNCHANGED running
Halt == running' = FALSE

\* stop(): running is cleared, and isConnected by client.stop(), which returns
\* before it closes the socket, because the receive thread is detached.
Stop ==
  /\ main = "started"
  /\ Halt
  /\ isConnected' = FALSE
  /\ main' = "joining"
  /\ UNCHANGED <<conn, ready, flips, rxVars, upVars, eventMessages, snapshotMessages>>

\* updateThread.join()
Joined ==
  /\ main = "joining"
  /\ up = "done"
  /\ main' = "stopped"
  /\ UNCHANGED <<conn, ready, flips, rxVars, upVars, isConnected, running,
                 eventMessages, snapshotMessages>>

-------------------------------------------------------------------------------
(* receiveMessages(), the receive thread                                    *)

\* while (isConnected); after the loop, disconnect().
RxLoop ==
  /\ rx = "loop"
  /\ rx' = IF isConnected THEN "recv" ELSE "done"
  /\ UNCHANGED <<mainVars, list, slotNo, playerId, clientID, lists, late, received, recvV, upVars,
                 isConnected, running, eventMessages, snapshotMessages>>

\* sortMessageByType: the id of this client.
RxId ==
  /\ rx = "recv" /\ conn = "up" /\ clientID = Unset
  /\ clientID' = MyId
  /\ rx' = "loop"
  /\ UNCHANGED <<mainVars, list, slotNo, playerId, lists, late, received, recvV, upVars,
                 isConnected, running, eventMessages, snapshotMessages>>

\* A game message comes from another client, one of the last list if there was one.
MaySend(s) == s # MyId /\ (lists = 0 \/ s \in list)

\* The bound on events and snapshots together.
MoreGame == \A s, t \in Ids : s # t => received + recvV[s] + recvV[t] < MaxGame

\* sortMessageByType: an event is queued.
RxEvent ==
  /\ rx = "recv" /\ conn = "up"
  /\ received < MaxEvents /\ MoreGame
  /\ \E s \in Ids : MaySend(s)
  /\ received' = received + 1
  /\ eventMessages' = Append(eventMessages, received + 1)
  /\ rx' = "loop"
  /\ UNCHANGED <<mainVars, list, slotNo, playerId, clientID, lists, late, recvV, upVars,
                 isConnected, running, snapshotMessages>>

\* sortMessageByType: a snapshot replaces the one of the same sender.
RxSnap(s) ==
  /\ rx = "recv" /\ conn = "up"
  /\ MaySend(s) /\ MoreGame
  /\ recvV' = [recvV EXCEPT ![s] = @ + 1]
  /\ snapshotMessages' = [snapshotMessages EXCEPT ![s] = recvV[s] + 1]
  /\ rx' = "loop"
  /\ UNCHANGED <<mainVars, list, slotNo, playerId, clientID, lists, late, received, upVars,
                 isConnected, running, eventMessages>>

\* running = !clientIDs.empty().  Mutant: an empty list does not count.
RunningKept(S) == running
RunningAfter(S) == S # {}

\* updateClientList and the first assignment of onClientListUpdate.
UpdateClientList(S, next) ==
  /\ list' = S
  /\ running' = RunningAfter(S)
  /\ slotNo' = 1
  /\ rx' = next

\* A list of the server holds the ids of its clients, this one among them.
RxList(S) ==
  /\ rx = "recv" /\ conn = "up"
  /\ lists < MaxLists
  /\ MyId \in S
  /\ lists' = lists + 1
  /\ late' = (late \/ main \in {"joining", "stopped"})
  /\ UpdateClientList(S, "slots")
  /\ UNCHANGED <<mainVars, playerId, clientID, received, recvV, upVars,
                 isConnected, eventMessages, snapshotMessages>>

\* recv() of a size fails: notifyServerDown().
RxServerDown ==
  /\ rx = "recv" /\ conn = "lost"
  /\ isConnected' = FALSE
  /\ UpdateClientList({}, "lastslots")
  /\ UNCHANGED <<mainVars, playerId, clientID, lists, late, received, recvV, upVars,
                 eventMessages, snapshotMessages>>

\* recv() of the bytes fails: the loop is left, and nobody is told.
RxBodyFails ==
  /\ rx = "recv" /\ conn = "lost"
  /\ isConnected' = FALSE
  /\ rx' = "broken"
  /\ UNCHANGED <<mainVars, list, slotNo, playerId, clientID, lists, late, received, recvV, upVars,
                 running, eventMessages, snapshotMessages>>

\* i < MAX_PLAYERS fails after this slot.  Mutant: the loop goes one too far.
NoMoreSlotsLate(i) == i > MaxPlayers
NoMoreSlots(i) == i = MaxPlayers

\* onClientListUpdate: the next slot gets the next id of the list, or none.
RxSlot ==
  /\ rx \in {"slots", "lastslots"}
  /\ playerId' = [playerId EXCEPT ![slotNo] = Nth(list, slotNo)]
  /\ IF NoMoreSlots(slotNo)
     THEN slotNo' = 1 /\ rx' = IF rx = "slots" THEN "loop" ELSE "done"
     ELSE slotNo' = slotNo + 1 /\ UNCHANGED rx
  /\ UNCHANGED <<mainVars, list, clientID, lists, late, received, recvV, upVars,
                 isConnected, running, eventMessages, snapshotMessages>>

-------------------------------------------------------------------------------
(* update() and readMessage(), the update thread                            *)

\* while (running), then the two tests that skip the cycle with a sleep.
UpCheck ==
  /\ up = "check"
  /\ up' = IF ~running THEN "done" ELSE IF ready THEN "events" ELSE "check"
  /\ UNCHANGED <<mainVars, rxVars, stored, copy, cur, slot, foundAt, applied, appliedV,
                 isConnected, running, eventMessages, snapshotMessages>>

\* eventMessagesSize() > 0.  Mutant: one event is taken for none.
HasSeveral == Len(eventMessages) > 1
HasEvents == Len(eventMessages) > 0

\* The front event is copied and applied.
UpEvent ==
  /\ up = "events" /\ HasEvents
  /\ applied' = Append(applied, Head(eventMessages))
  /\ up' = "pop"
  /\ UNCHANGED <<mainVars, rxVars, stored, copy, cur, slot, foundAt, appliedV,
                 isConnected, running, eventMessages, snapshotMessages>>

\* popFrontEventMessage().  Mutant: the queue is cleared, as the snapshots are.
ClearEvents == eventMessages' = <<>>
PopEvent == eventMessages' = Tail(eventMessages)

UpEventPop ==
  /\ up = "pop"
  /\ PopEvent
  /\ up' = "events"
  /\ UNCHANGED <<mainVars, rxVars, stored, copy, cur, slot, foundAt, applied, appliedV,
                 isConnected, running, snapshotMessages>>

\* The events are read; the map of the snapshots is copied.
UpSnapCopy ==
  /\ up = "events" /\ ~HasEvents
  /\ copy' = snapshotMessages
  /\ up' = "snaps"
  /\ UNCHANGED <<mainVars, rxVars, stored, cur, slot, foundAt, applied, appliedV,
                 isConnected, running, eventMessages, snapshotMessages>>

Pending == {s \in Ids : copy[s] # 0}

\* The next snapshot of the copy is that of the smallest id.
UpNext ==
  /\ up = "snaps" /\ Pending # {}
  /\ cur' = Min(Pending)
  /\ slot' = 1
  /\ foundAt' = IF rx = "slots" THEN 0 ELSE lists
  /\ up' = "find"
  /\ UNCHANGED <<mainVars, rxVars, stored, copy, applied, appliedV,
                 isConnected, running, eventMessages, snapshotMessages>>

\* std::find_if comes to its end after this slot.  Mutant: it leaves out the last.
EndOfSlotsEarly(i) == i >= MaxPlayers - 1
EndOfSlots(i) == i = MaxPlayers

\* The slots are searched for the sender's id, one by one, while the receive
\* thread may write them; the first of all is taken if it is not found.
UpFind ==
  /\ up = "find"
  /\ IF playerId[slot] = cur THEN up' = "store" /\ UNCHANGED slot
     ELSE IF EndOfSlots(slot) THEN up' = "store" /\ slot' = 1
     ELSE slot' = slot + 1 /\ UNCHANGED up
  /\ UNCHANGED <<mainVars, rxVars, stored, copy, cur, foundAt, applied, appliedV,
                 isConnected, running, eventMessages, snapshotMessages>>

\* readConectedPlayerSnap
UpStore ==
  /\ up = "store"
  /\ stored' = [stored EXCEPT ![slot] = cur]
  /\ appliedV' = [appliedV EXCEPT ![cur] = copy[cur]]
  /\ up' = "clear"
  /\ UNCHANGED <<mainVars, rxVars, copy, cur, slot, foundAt, applied,
                 isConnected, running, eventMessages, snapshotMessages>>

\* snapshotMessages.clear().  Mutant: the snapshots stay.
KeepSnaps == UNCHANGED snapshotMessages
ClearSnaps == snapshotMessages' = NoSnaps

\* clearSnapMessage, in the loop over the copy.  Its local variables end.
UpClear ==
  /\ up = "clear"
  /\ ClearSnaps
  /\ copy' = [copy EXCEPT ![cur] = 0]
  /\ cur' = NoId /\ slot' = 1 /\ foundAt' = 0
  /\ up' = "snaps"
  /\ UNCHANGED <<mainVars, rxVars, stored, applied, appliedV,
                 isConnected, running, eventMessages>>

\* processPlayer for every slot changes nothing but the memory of the game: the
\* npc of a slot in use, not this client's own, is moved to what the slot has
\* stored if that is of the level being played.
UpProcess ==
  /\ up = "snaps" /\ Pending = {}
  /\ up' = "write"
  /\ UNCHANGED <<mainVars, rxVars, stored, copy, cur, slot, foundAt, applied, appliedV,
                 isConnected, running, eventMessages, snapshotMessages>>

\* writeMessage sends what MainPlayer has to tell; see EventSync.
UpWrite ==
  /\ up = "write"
  /\ up' = "check"
  /\ UNCHANGED <<mainVars, rxVars, stored, copy, cur, slot, foundAt, applied, appliedV,
                 isConnected, running, eventMessages, snapshotMessages>>

-------------------------------------------------------------------------------
(* The network and the game.                                                *)

ConnectionLost ==
  /\ conn = "up"
  /\ conn' = "lost"
  /\ UNCHANGED <<ready, flips, main, rxVars, upVars, isConnected, running,
                 eventMessages, snapshotMessages>>

\* A level is entered, loaded or left.
LevelChange ==
  /\ flips < MaxFlips
  /\ flips' = flips + 1 /\ ready' = ~ready
  /\ UNCHANGED <<conn, main, rxVars, upVars, isConnected, running,
                 eventMessages, snapshotMessages>>

-------------------------------------------------------------------------------
RxStep == \/ RxLoop \/ RxServerDown \/ RxBodyFails \/ RxSlot
          \/ RxId \/ RxEvent
          \/ \E s \in Ids : RxSnap(s)
          \/ \E S \in SUBSET Ids : RxList(S)

UpStep == \/ UpCheck \/ UpEvent \/ UpEventPop \/ UpSnapCopy
          \/ UpNext \/ UpFind \/ UpStore \/ UpClear \/ UpProcess \/ UpWrite

MainStep == StartConnect \/ StartRunning \/ StartUpdating \/ Stop \/ Joined

Next == RxStep \/ UpStep \/ MainStep \/ ConnectionLost \/ LevelChange

Spec == Init /\ [][Next]_vars

\* The threads run; stop() is joined when it can be; the receive thread gets on
\* with what it has, while messages come or not.
Fairness == /\ WF_<<up, slot>>(UpStep)
            /\ WF_main(StartRunning \/ StartUpdating \/ Joined)
            /\ WF_<<rx, slotNo>>(RxLoop \/ RxServerDown \/ RxBodyFails \/ RxSlot)

FairSpec == Spec /\ Fairness

-------------------------------------------------------------------------------
(* Properties.                                                              *)

\* Every variable has values of its type; the slot the receive thread writes is
\* one of connectedPlayers.
TypeOK ==
  /\ conn \in {"none", "up", "lost"} /\ isConnected \in BOOLEAN /\ running \in BOOLEAN
  /\ clientID \in {Unset, MyId}
  /\ ready \in BOOLEAN /\ flips \in 0 .. MaxFlips
  /\ main \in {"idle", "waiting", "opening", "started", "joining", "stopped"}
  /\ rx \in {"none", "loop", "recv", "slots", "lastslots", "done", "broken"}
  /\ up \in {"none", "check", "events", "pop", "snaps", "find", "store", "clear", "write", "done"}
  /\ list \in SUBSET Ids /\ slotNo \in Slots
  /\ playerId \in [Slots -> Ids \cup {NoId}]
  /\ stored \in [Slots -> Ids \cup {NoId}]
  /\ eventMessages \in Seq(Nat)
  /\ snapshotMessages \in [Ids -> Nat] /\ copy \in [Ids -> Nat]
  /\ cur \in Ids \cup {NoId} /\ slot \in Slots /\ foundAt \in 0 .. MaxLists
  /\ lists \in 0 .. MaxLists /\ late \in BOOLEAN /\ received \in 0 .. MaxEvents /\ applied \in Seq(Nat)
  /\ recvV \in [Ids -> Nat] /\ appliedV \in [Ids -> Nat]

\* Every event received is applied once and in the order of receipt, although
\* the queue grows between the copy of its front and the pop: what is applied,
\* followed by what is still queued, is what was received.
EventsExactlyOnce ==
  applied \o (IF up = "pop" THEN Tail(eventMessages) ELSE eventMessages)
    = [i \in 1 .. received |-> i]

\* No snapshot is applied twice, and none after a later one of its sender.
SnapshotsMoveForward ==
  [][\A s \in Ids : s = cur /\ up = "store" /\ up' = "clear" => appliedV'[s] > appliedV[s]]_vars

\* "Read all Snap Messages" (HobbitClient.cpp:148): the last snapshot received
\* of a sender was applied, or is waiting to be.
NoSnapshotLost ==
  \A s \in Ids : recvV[s] \in {appliedV[s], snapshotMessages[s], copy[s]}

\* Between two updates of the list, the slots are the ids of the list in
\* increasing order, as many as there are slots, and the rest are unused.
SlotsFollowList ==
  rx = "recv" /\ lists > 0 =>
    \A i \in Slots :
      IF i <= Cardinality(list)
      THEN playerId[i] \in list /\ \A j \in 1 .. i - 1 : playerId[j] < playerId[i]
      ELSE playerId[i] = NoId

\* A snapshot goes to the slot of its sender, provided the list did not change
\* between the search and the write, has no more clients than there are slots,
\* and still names the sender.
StoredInOwnSlot ==
  up = "store" /\ foundAt = lists /\ lists > 0 /\ cur \in list /\ Cardinality(list) <= MaxPlayers
    => playerId[slot] = cur

\* When the connection is lost after start(), the update thread ends, unless it
\* was lost in the bytes of a message, which nobody is told.  (When it is lost
\* during start(), start() sets running again.)
ServerDownEndsUpdate ==
  (main = "started" /\ rx = "recv" /\ conn = "lost") ~> (up = "done" \/ rx = "broken")

\* stop() returns, if no list comes after it (a list sets running again).
StopReturns == main = "joining" ~> main = "stopped" \/ late

\* Events that are queued while the client runs are applied once the game is
\* playable for good.
EventsApplied ==
  (eventMessages # <<>> /\ ready /\ flips = MaxFlips /\ up \notin {"none", "done"})
    ~> (eventMessages = <<>> \/ ~running)

===============================================================================
