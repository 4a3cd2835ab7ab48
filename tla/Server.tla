-------------------------------- MODULE Server --------------------------------
(***************************************************************************)
(* The relay server of ServerClient/Server.cpp: one acceptor thread, one    *)
(* detached handler thread per accepted connection, and the vector of       *)
(* registered clients they share under clientsMutex.                        *)
(*                                                                          *)
(* A message leaves the server in two calls of send(): its size, then its   *)
(* bytes.  Both are steps of the model ("hdr" and "body"), because one of   *)
(* the senders, the acceptor greeting a new client with its id, does not    *)
(* hold the mutex.  The chunks written to a connection are kept in out[c].  *)
(*                                                                          *)
(* Abstractions: a connection is used once; an address is not distinguished *)
(* from the connection it belongs to; the vector `clients' is the set of    *)
(* its elements together with the order of acceptance (push_back is only    *)
(* called by the acceptor and remove_if keeps the order); every message of  *)
(* a peer is the n-th of its connection.  A message of fewer than 2 bytes,  *)
(* for which deserializeMessage returns nullptr, is never sent by Client.   *)
(***************************************************************************)
EXTENDS Integers, Sequences, FiniteSets

CONSTANTS
  Conns,        \* connections the peers may open
  Acceptor,     \* the thread of acceptClients
  None,         \* no connection, no thread, no message
  IdSpace,      \* number of values of a uint8_t: 256 in the code
  MayClose,     \* peers that may go away
  MayStall,     \* peers that may stop reading for a while
  SendLimit,    \* bound: messages a peer sends
  MaxStarts,    \* bound: calls of start()
  MayStop,      \* the application stops the server
  SoleUser      \* stop() makes the last WSACleanup of the process

ASSUME ServerAssumption ==
  /\ IsFiniteSet(Conns)
  /\ Acceptor \notin Conns
  /\ None \notin Conns \cup {Acceptor}
  /\ IdSpace \in Nat \ {0}
  /\ MayClose \subseteq Conns /\ MayStall \subseteq Conns
  /\ SendLimit \in [Conns -> Nat]
  /\ MaxStarts \in Nat
  /\ MayStop \in BOOLEAN /\ SoleUser \in BOOLEAN

Threads == Conns \cup {Acceptor}

VARIABLES
  nextClientID, \* the next id to give
  accepted,     \* how many connections accept() has returned
  isRunning,
  listening,    \* a listening socket is open ...
  bound,        \* ... and it is the one that listeningSocket holds
  starts,       \* calls of start() so far
  backlog,      \* connections waiting for accept()
  clients,      \* registered clients
  id, seat,     \* per connection: its id, its place in the order of acceptance
  accConn,      \* the connection the acceptor is busy with
  mutex,        \* the holder of clientsMutex
  pc,           \* per thread: where it is
  sending,      \* the message the holder of the mutex is sending ...
  todo,         \* ... the clients it has still to be sent to ...
  hdrSent,      \* ... and whether the first of them has got the size already
  peer,         \* per connection: "fresh", "open" or "closed" (at the far end)
  stalled,      \* per connection: "no", "yes" or "was"
  sent, taken,  \* per connection: messages written by the peer, read by the server
  out,          \* per connection: the chunks the server wrote to it
  order         \* history: the game messages in the order they were relayed

acceptVars == <<nextClientID, accepted, backlog, id, seat, accConn>>
lockVars   == <<mutex, sending, todo, hdrSent>>
runVars    == <<isRunning, listening, bound, starts>>
peerVars   == <<peer, stalled, sent>>
vars == <<acceptVars, lockVars, runVars, peerVars, clients, pc, taken, out, order>>

-------------------------------------------------------------------------------
(* Messages of the server and the two chunks each of them is sent in.       *)

Ids == 0 .. IdSpace - 1

IdMsg(i)        == [type |-> "ID", sender |-> i]
ListMsg(S)      == [type |-> "LIST", ids |-> S]
\* Mutant: the sender's id is not stamped.
GameMsgUnstamped(i, c, n) == [type |-> "GAME", sender |-> 0, from |-> c, n |-> n]

GameMsg(i, c, n) == [type |-> "GAME", sender |-> i, from |-> c, n |-> n]

Messages == [type : {"ID"}, sender : Ids]
       \cup [type : {"LIST"}, ids : SUBSET Ids]
       \cup [type : {"GAME"}, sender : Ids, from : Conns, n : Nat]

Chunk(part, m) == [part |-> part, msg |-> m]
Chunks == [part : {"hdr", "body"}, msg : Messages]

\* Mutant: the counter is not advanced.
NextIdStuck(i) == i

\* uint8_t nextClientID++
NextId(i) == (i + 1) % IdSpace

\* The ids a LIST message carries.
ClientIds(S) == {id[c] : c \in S}

\* The element of S that comes first in the vector.
First(S) == CHOOSE c \in S : \A d \in S : seat[c] <= seat[d]

\* A blocking send() does not return while the peer is there and does not read.
Blocked(c) == peer[c] = "open" /\ stalled[c] = "yes"

\* send(): what is written to a peer that is gone is lost.
Send(c, part, m) ==
  /\ ~Blocked(c)
  /\ out' = IF peer[c] = "open" THEN [out EXCEPT ![c] = Append(@, Chunk(part, m))]
                                ELSE out

-------------------------------------------------------------------------------
Init ==
  /\ nextClientID = 1 % IdSpace /\ accepted = 0
  /\ isRunning = TRUE /\ listening = FALSE /\ bound = TRUE /\ starts = 0
  /\ backlog = {} /\ clients = {}
  /\ id = [c \in Conns |-> 0] /\ seat = [c \in Conns |-> 0]
  /\ accConn = None /\ mutex = None
  /\ pc = [t \in Threads |-> "none"]
  /\ sending = None /\ todo = {} /\ hdrSent = FALSE
  /\ peer = [c \in Conns |-> "fresh"] /\ stalled = [c \in Conns |-> "no"]
  /\ sent = [c \in Conns |-> 0] /\ taken = [c \in Conns |-> 0]
  /\ out = [c \in Conns |-> <<>>] /\ order = <<>>

Goto(t, l) == pc' = [pc EXCEPT ![t] = l]

\* std::lock_guard on clientsMutex: the thread waits until it is free.
\* Mutant: it does not wait.
NoMutex == TRUE
LockFree == mutex = None

\* The end of the lock_guard's block.  Mutant: the mutex stays locked.
KeepLocked == UNCHANGED mutex
Release == mutex' = None

-------------------------------------------------------------------------------
(* start() and stop(), called by the application.                           *)

\* A new listening socket and a new acceptor thread.  isRunning is not set: the
\* thread of a start() after a stop() leaves its loop at once, whether an earlier
\* acceptor still runs or not, and nobody accepts the connections of the backlog.
Start ==
  /\ starts < MaxStarts
  /\ ~listening
  /\ starts' = starts + 1
  /\ listening' = TRUE /\ bound' = TRUE
  /\ IF pc[Acceptor] \in {"none", "done"} THEN Goto(Acceptor, "loop") ELSE UNCHANGED pc
  /\ UNCHANGED <<isRunning, acceptVars, lockVars, peerVars, clients, taken, out, order>>

\* The port is in use by the server itself: bind() fails and no thread is
\* started, but listeningSocket holds the new, unbound socket from now on.
StartFails ==
  /\ starts < MaxStarts
  /\ listening
  /\ starts' = starts + 1
  /\ bound' = FALSE
  /\ UNCHANGED <<isRunning, listening, acceptVars, lockVars, peerVars, clients, pc, taken, out, order>>

\* closesocket(listeningSocket).  Mutant: it is left open.
LeaveListening == UNCHANGED listening
CloseListening == listening' = (listening /\ ~bound)

\* Called by the application if isRunning, which is so before any start() too.
\* The socket that listeningSocket holds is closed, and with it the connections
\* that nobody accepted; the sockets of the handlers stay open, unless the
\* WSACleanup was the last of the process, which resets them all.
Stop ==
  LET reset == IF SoleUser /\ starts <= 1 THEN Conns ELSE IF bound THEN backlog ELSE {}
  IN /\ MayStop /\ isRunning
     /\ isRunning' = FALSE
     /\ CloseListening
     /\ backlog' = backlog \ reset
     /\ peer' = [c \in Conns |-> IF c \in reset /\ peer[c] = "open" THEN "closed" ELSE peer[c]]
     /\ sent' = [c \in Conns |-> IF c \in reset THEN taken[c] ELSE sent[c]]
     /\ UNCHANGED <<bound, starts, nextClientID, accepted, id, seat, accConn, lockVars, clients,
                    pc, stalled, taken, out, order>>

-------------------------------------------------------------------------------
(* acceptClients()                                                          *)

\* while (isRunning), and the call of accept(), which fails at once on a socket
\* that does not listen.
AcceptLoop ==
  /\ pc[Acceptor] = "loop"
  /\ Goto(Acceptor, IF ~isRunning THEN "done" ELSE IF bound THEN "accept" ELSE "loop")
  /\ UNCHANGED <<acceptVars, lockVars, runVars, peerVars, clients, taken, out, order>>

\* accept() returns a connection, which gets the next id.
Accept(c) ==
  /\ pc[Acceptor] = "accept"
  /\ c \in backlog
  /\ backlog' = backlog \ {c}
  /\ accConn' = c
  /\ id' = [id EXCEPT ![c] = nextClientID]
  /\ nextClientID' = NextId(nextClientID)
  /\ accepted' = accepted + 1
  /\ seat' = [seat EXCEPT ![c] = accepted + 1]
  /\ Goto(Acceptor, "register")
  /\ UNCHANGED <<lockVars, runVars, peerVars, clients, taken, out, order>>

\* accept() fails: the listening socket was closed under it.
AcceptFails ==
  /\ pc[Acceptor] = "accept"
  /\ ~listening
  /\ Goto(Acceptor, "loop")
  /\ UNCHANGED <<acceptVars, lockVars, runVars, peerVars, clients, taken, out, order>>

\* clients.push_back under the mutex, released at the end of the block.
Register ==
  /\ pc[Acceptor] = "register"
  /\ LockFree
  /\ clients' = clients \cup {accConn}
  /\ Goto(Acceptor, "idhdr")
  /\ UNCHANGED <<acceptVars, lockVars, runVars, peerVars, taken, out, order>>

\* The id is sent to the new client without the mutex.
SendIdHdr ==
  /\ pc[Acceptor] = "idhdr"
  /\ Send(accConn, "hdr", IdMsg(id[accConn]))
  /\ Goto(Acceptor, "idbody")
  /\ UNCHANGED <<acceptVars, lockVars, runVars, peerVars, clients, taken, order>>

SendIdBody ==
  /\ pc[Acceptor] = "idbody"
  /\ Send(accConn, "body", IdMsg(id[accConn]))
  /\ Goto(Acceptor, "notify")
  /\ UNCHANGED <<acceptVars, lockVars, runVars, peerVars, clients, taken, order>>

-------------------------------------------------------------------------------
(* notifyClients() and the sends of broadcastMessage(), by any thread.      *)

\* Take the mutex and compose the list of the clients of this moment.
NotifyLock(t) ==
  /\ pc[t] = "notify"
  /\ LockFree
  /\ mutex' = t
  /\ sending' = ListMsg(ClientIds(clients))
  /\ todo' = clients
  /\ Goto(t, "sending")
  /\ UNCHANGED <<acceptVars, hdrSent, runVars, peerVars, clients, taken, out, order>>

\* The first send() to the next client: the size.
SendHdr(t) ==
  /\ pc[t] = "sending"
  /\ todo # {} /\ ~hdrSent
  /\ Send(First(todo), "hdr", sending)
  /\ hdrSent' = TRUE
  /\ UNCHANGED <<acceptVars, mutex, sending, todo, runVars, peerVars, clients, pc, taken, order>>

\* The second one: the bytes.
SendBody(t) ==
  /\ pc[t] = "sending"
  /\ hdrSent
  /\ Send(First(todo), "body", sending)
  /\ todo' = todo \ {First(todo)}
  /\ hdrSent' = FALSE
  /\ UNCHANGED <<acceptVars, mutex, sending, runVars, peerVars, clients, pc, taken, order>>

\* Where the acceptor goes when it has served a client: to its loop.  Mutant: it
\* serves one client only.
ServeOne == "done"
ServeNext == "loop"

\* The end of the loop releases the mutex; the thread goes on where the call
\* returns: the acceptor starts the handler thread of the new client and
\* accepts again, a handler that relayed reads on, one that left closes.
Unlock(t) ==
  /\ pc[t] = "sending"
  /\ todo = {}
  /\ Release
  /\ sending' = None
  /\ IF t = Acceptor
     THEN /\ pc' = [pc EXCEPT ![t] = ServeNext, ![accConn] = "loop"]
          /\ accConn' = None
     ELSE /\ Goto(t, IF sending.type = "GAME" THEN "loop" ELSE "close")
          /\ UNCHANGED accConn
  /\ UNCHANGED <<nextClientID, accepted, backlog, id, seat, todo, hdrSent, runVars, peerVars,
                 clients, taken, out, order>>

-------------------------------------------------------------------------------
(* handleClient()                                                           *)

\* while (isRunning)
HandlerLoop(c) ==
  /\ pc[c] = "loop"
  /\ Goto(c, IF isRunning THEN "recv" ELSE "erase")
  /\ UNCHANGED <<acceptVars, lockVars, runVars, peerVars, clients, taken, out, order>>

\* A whole message of the peer was read.
Recv(c) ==
  /\ pc[c] = "recv"
  /\ taken[c] < sent[c]
  /\ taken' = [taken EXCEPT ![c] = @ + 1]
  /\ Goto(c, "bcast")
  /\ UNCHANGED <<acceptVars, lockVars, runVars, peerVars, clients, out, order>>

\* Where a failed recv() leads: out of the loop, to the erase.  Mutants: to the
\* end of the function; back into the loop, the 0 of a closed connection being
\* no error.
BreakToClose == "close"
BreakIgnored == "loop"
Break == "erase"

\* recv() fails, in the size or in the bytes: the peer is gone.
RecvFails(c) ==
  /\ pc[c] = "recv"
  /\ taken[c] = sent[c]
  /\ peer[c] = "closed"
  /\ Goto(c, Break)
  /\ UNCHANGED <<acceptVars, lockVars, runVars, peerVars, clients, taken, out, order>>

\* The clients whose id is not excludeID.  Mutant: only those that came later.
LaterClients(c) == {d \in clients : id[d] > id[c]}
Recipients(c) == {d \in clients : id[d] # id[c]}

\* broadcastMessage: the sender's id is stamped on the message, the mutex is
\* taken, and the message goes to the clients whose id is another one.
BcastLock(c) ==
  /\ pc[c] = "bcast"
  /\ LockFree
  /\ mutex' = c
  /\ sending' = GameMsg(id[c], c, taken[c])
  /\ todo' = Recipients(c)
  /\ order' = Append(order, [from |-> c, n |-> taken[c]])
  /\ Goto(c, "sending")
  /\ UNCHANGED <<acceptVars, hdrSent, runVars, peerVars, clients, taken, out>>

\* What follows the erase: notifyClients.  Mutant: the others are not told.
EraseSilently == "close"
EraseThen == "notify"

\* remove_if on the id, under the mutex.
Erase(c) ==
  /\ pc[c] = "erase"
  /\ LockFree
  /\ clients' = {d \in clients : id[d] # id[c]}
  /\ Goto(c, EraseThen)
  /\ UNCHANGED <<acceptVars, lockVars, runVars, peerVars, taken, out, order>>

\* closesocket, the end of the thread: a peer that is still there is cut off.
Close(c) ==
  /\ pc[c] = "close"
  /\ Goto(c, "done")
  /\ peer' = [peer EXCEPT ![c] = "closed"]
  /\ UNCHANGED <<acceptVars, lockVars, runVars, stalled, sent, clients, taken, out, order>>

-------------------------------------------------------------------------------
(* The peers.                                                               *)

Connect(c) ==
  /\ peer[c] = "fresh"
  /\ listening
  /\ peer' = [peer EXCEPT ![c] = "open"]
  /\ backlog' = backlog \cup {c}
  /\ UNCHANGED <<nextClientID, accepted, id, seat, accConn, lockVars, runVars, stalled, sent,
                 clients, pc, taken, out, order>>

PeerSend(c) ==
  /\ peer[c] = "open"
  /\ sent[c] < SendLimit[c]
  /\ sent' = [sent EXCEPT ![c] = @ + 1]
  /\ UNCHANGED <<acceptVars, lockVars, runVars, peer, stalled, clients, pc, taken, out, order>>

\* The peer closes or dies: what the server has not read may be lost.
PeerClose(c) ==
  /\ c \in MayClose
  /\ peer[c] = "open"
  /\ peer' = [peer EXCEPT ![c] = "closed"]
  /\ \E n \in taken[c] .. sent[c] : sent' = [sent EXCEPT ![c] = n]
  /\ UNCHANGED <<acceptVars, lockVars, runVars, stalled, clients, pc, taken, out, order>>

\* The peer stops reading, and its receive window fills up.
Stall(c) ==
  /\ c \in MayStall
  /\ peer[c] = "open" /\ stalled[c] = "no"
  /\ stalled' = [stalled EXCEPT ![c] = "yes"]
  /\ UNCHANGED <<acceptVars, lockVars, runVars, peer, sent, clients, pc, taken, out, order>>

Resume(c) ==
  /\ stalled[c] = "yes"
  /\ stalled' = [stalled EXCEPT ![c] = "was"]
  /\ UNCHANGED <<acceptVars, lockVars, runVars, peer, sent, clients, pc, taken, out, order>>

-------------------------------------------------------------------------------
Locked(t) == NotifyLock(t) \/ SendHdr(t) \/ SendBody(t) \/ Unlock(t)

AcceptorStep ==
  \/ AcceptLoop \/ (\E c \in Conns : Accept(c)) \/ AcceptFails
  \/ Register \/ SendIdHdr \/ SendIdBody
  \/ Locked(Acceptor)

HandlerStep(c) ==
  \/ HandlerLoop(c) \/ Recv(c) \/ RecvFails(c) \/ BcastLock(c) \/ Erase(c) \/ Close(c)
  \/ Locked(c)

PeerStep(c) == Connect(c) \/ PeerSend(c) \/ PeerClose(c) \/ Stall(c) \/ Resume(c)

Next ==
  \/ Start \/ StartFails \/ Stop
  \/ AcceptorStep
  \/ \E c \in Conns : HandlerStep(c) \/ PeerStep(c)

Spec == Init /\ [][Next]_vars

\* The threads run, and a peer that stopped reading reads again (or closes).
Fairness ==
  /\ WF_vars(AcceptorStep)
  /\ \A c \in Conns : WF_vars(HandlerStep(c)) /\ WF_vars(Resume(c))

FairSpec == Spec /\ Fairness

-------------------------------------------------------------------------------
(* Properties.                                                              *)

Labels == {"none", "loop", "accept", "register", "idhdr", "idbody", "notify", "sending",
           "recv", "bcast", "erase", "close", "done"}

\* Every variable has values of its type; ids stay within a uint8_t.
TypeOK ==
  /\ nextClientID \in Ids /\ accepted \in Nat
  /\ isRunning \in BOOLEAN /\ listening \in BOOLEAN /\ bound \in BOOLEAN /\ starts \in Nat
  /\ backlog \subseteq Conns /\ clients \subseteq Conns
  /\ id \in [Conns -> Ids] /\ seat \in [Conns -> Nat]
  /\ accConn \in Conns \cup {None}
  /\ mutex \in Threads \cup {None}
  /\ pc \in [Threads -> Labels]
  /\ sending \in Messages \cup {None}
  /\ todo \subseteq Conns /\ hdrSent \in BOOLEAN
  /\ peer \in [Conns -> {"fresh", "open", "closed"}]
  /\ stalled \in [Conns -> {"no", "yes", "was"}]
  /\ sent \in [Conns -> Nat] /\ taken \in [Conns -> Nat]
  /\ out \in [Conns -> Seq(Chunks)]
  /\ order \in Seq([from : Conns, n : Nat])

\* The handler of c is between its start and the erase of its client.
Serving(c) == \/ pc[c] \in {"loop", "recv", "bcast", "erase"}
              \/ pc[c] = "sending" /\ sending.type = "GAME"

\* A client whose handler is serving it is in `clients', so that it gets what
\* the others send, as long as no more than IdSpace connections were accepted
\* (handleClient erases every client that has the id of its own, and a uint8_t
\* id is given again after 256 connections).
ServedIsRegistered ==
  accepted <= IdSpace => \A c \in Conns : Serving(c) => c \in clients

\* The server writes to no socket that its handler has closed: neither the loops
\* of broadcastMessage and notifyClients nor the greeting of the acceptor.
NoSendAfterClose ==
  /\ \A c \in todo : pc[c] # "done"
  /\ pc[Acceptor] \in {"idhdr", "idbody"} => pc[accConn] # "done"

\* The loops of the two sending functions do not overlap: whoever is in one of
\* them holds clientsMutex.
SendersHoldTheLock == \A t \in Threads : pc[t] = "sending" <=> mutex = t

\* The places in out[c] of what was written under the mutex, and of the bodies of
\* the messages of a type.
LockedAt(c) == {i \in DOMAIN out[c] : out[c][i].msg.type # "ID"}
BodiesAt(type, c) == {i \in DOMAIN out[c] : out[c][i].part = "body" /\ out[c][i].msg.type = type}

IsLast(i, S) == i \in S /\ \A j \in S : j <= i
Earlier(S, i) == {j \in S : j < i}

\* What broadcastMessage and notifyClients write to a connection is a sequence
\* of sizes each followed by its own bytes.  (The greeting, written without the
\* mutex, may fall between any two chunks of them.)
LockedFramesIntact ==
  \A c \in Conns : \A i \in LockedAt(c) :
    LET before == Earlier(LockedAt(c), i)
    IN IF out[c][i].part = "hdr"
       THEN \A j \in before : IsLast(j, before) => out[c][j].part = "body"
       ELSE \E j \in before : IsLast(j, before) /\ out[c][j] = Chunk("hdr", out[c][i].msg)

\* Nobody is about to send a list.
NoListPending == /\ mutex = None
                 /\ \A t \in Threads : pc[t] \notin {"idhdr", "idbody", "notify"}

\* S is the last client list that was sent to c.
Told(c, S) == \E i \in BodiesAt("LIST", c) : IsLast(i, BodiesAt("LIST", c)) /\ out[c][i].msg.ids = S

\* When no thread is about to notify, the last client list that each registered
\* client was sent is the set of the registered clients: two notifications that
\* race never leave a client with the older list.
SettledLists ==
  NoListPending => \A c \in clients : peer[c] = "open" => Told(c, ClientIds(clients))

\* A game message carries the id of its sender and never comes back to it, and
\* once a client has a list, the sender of every game message it is sent is on
\* the last list it was sent: a client is listed before it is heard of and not
\* heard of after it is dropped from the list.
SenderListed ==
  \A r \in Conns : \A i \in BodiesAt("GAME", r) :
    LET m == out[r][i].msg
        lists == Earlier(BodiesAt("LIST", r), i)
    IN /\ m.sender = id[m.from] /\ m.from # r
       /\ \A j \in lists : IsLast(j, lists) => m.sender \in out[r][j].msg.ids

\* What the server promises the players: see Relay.  A member has yet to get the
\* last message of the order if the sender still has it in its list of recipients.
Payload(m) == [from |-> m.from, n |-> m.n]
Behind(c) == c \in todo /\ sending.type = "GAME"

Gone == {c \in Conns : peer[c] = "closed"}
Got == [c \in Conns |-> IF c \notin clients THEN 0
                        ELSE IF Behind(c) THEN Len(order) - 1 ELSE Len(order)]
Inbox == [c \in Conns |-> {[at |-> i, msg |-> Payload(out[c][i].msg)] : i \in BodiesAt("GAME", c)}]

R == INSTANCE Relay WITH
       Procs <- Conns, log <- order, members <- clients, gone <- Gone, got <- Got, inbox <- Inbox

\* Every registered client gets the game messages of the others, each once, in
\* one order common to all, from its registration until it leaves.
ImplementsRelay == R!Spec

\* The mutex does not stay with one thread for ever.
MutexFreed == []<>(mutex = None)

\* A client that is gone is taken off the list in the end.
DepartureNoticed ==
  \A c \in Conns : (peer[c] = "closed" /\ c \in clients) ~> (c \notin clients)

\* A connection that waits in the backlog is registered, unless the peer gives
\* up, the server was stopped or listeningSocket was overwritten by a second
\* start().
JoinServed ==
  \A c \in Conns : c \in backlog ~> (c \in clients \/ peer[c] = "closed" \/ ~isRunning \/ ~bound)

\* stop() ends the acceptor thread of the first start(), wherever it is, unless
\* start() is called again before the thread has noticed.
AcceptorEnds == ~isRunning /\ starts <= 1 ~> (pc[Acceptor] \in {"none", "done"} \/ starts > 1)

===============================================================================
