----------------------------- MODULE ServerProofs -----------------------------
(***************************************************************************)
(* Theorems about Server, for any set of connections, any IdSpace and any   *)
(* bounds.  The inductive invariant IndInv says, besides the types:         *)
(*   Places   where each thread may be, and that the connection the         *)
(*            acceptor is busy with has no handler yet;                     *)
(*   Locking  that clientsMutex is held by the one thread that is sending,  *)
(*            to clients that are registered;                               *)
(*   Living   that a registered client has not been through its erase;      *)
(*   Waiting  that a connection that was not accepted yet has no handler    *)
(*            and is not registered.                                        *)
(* IdInv adds that ids are given in turn, in the order of acceptance.       *)
(* What is written to the clients needs more, each on top of the others:    *)
(*   Composing  that what the holder of the mutex is sending is still the   *)
(*              list of the clients, or the last message of its own peer;   *)
(*   Frames     how a stream ends, as far as the mutex is concerned;        *)
(*   Telling, Settled  who has the list of the clients of now;              *)
(*   Known      that a client with a handler is on the list of the others;  *)
(*   Numbered, Ordered  that the order has all the messages that were read  *)
(*              from a connection, and ends with the one being relayed.     *)
(* With the last ones every step of the server is a step of Relay, or one   *)
(* that the players cannot see.  From those steps follows in turn           *)
(*   HeardInOrder  that the players received what is in the order, in the   *)
(*              order, and without gaps.                                    *)
(***************************************************************************)
EXTENDS Server, FiniteSetTheorems, WellFoundedInduction, TLAPS

AcceptorPlaces == {"none", "loop", "accept", "register", "idhdr", "idbody", "notify", "sending", "done"}
HandlerPlaces  == {"none", "loop", "recv", "bcast", "erase", "notify", "sending", "close", "done"}
BusyPlaces     == {"register", "idhdr", "idbody", "notify", "sending"}

Places ==
  /\ pc[Acceptor] \in AcceptorPlaces
  /\ \A c \in Conns : pc[c] \in HandlerPlaces
  /\ pc[Acceptor] \in BusyPlaces => accConn \in Conns /\ pc[accConn] = "none"

Locking ==
  /\ \A t \in Threads : pc[t] = "sending" <=> mutex = t
  /\ mutex # None => sending \in Messages
  /\ mutex = None => todo = {}
  /\ hdrSent => todo # {}
  /\ todo \subseteq clients

Living ==
  \A c \in clients : \/ pc[c] \in {"none", "loop", "recv", "bcast", "erase"}
                     \/ pc[c] = "sending" /\ sending.type = "GAME"

Waiting ==
  /\ \A c \in Conns : /\ c \in backlog => seat[c] = 0 /\ peer[c] # "fresh"
                      /\ peer[c] = "fresh" => seat[c] = 0
                      /\ seat[c] = 0 => pc[c] = "none" /\ c \notin clients
  /\ pc[Acceptor] \in BusyPlaces => seat[accConn] # 0

IndInv == TypeOK /\ Places /\ Locking /\ Living /\ Waiting

-------------------------------------------------------------------------------
(* Types of the values the actions compute.                                 *)

\* A remainder is a value of a uint8_t, as nextClientID++ gives.
LEMMA ModIds == ASSUME NEW n \in Nat PROVE n % IdSpace \in Ids
BY ServerAssumption DEF Ids

\* The messages the server composes are messages.
LEMMA MessageTypes ==
  ASSUME NEW i \in Ids, NEW S \in SUBSET Ids, NEW c \in Conns, NEW n \in Nat
  PROVE  IdMsg(i) \in Messages /\ ListMsg(S) \in Messages /\ GameMsg(i, c, n) \in Messages
BY DEF IdMsg, ListMsg, GameMsg, Messages

\* send() appends a chunk to a stream and keeps the type of the streams.
LEMMA SendType ==
  ASSUME out \in [Conns -> Seq(Chunks)], NEW c, NEW part \in {"hdr", "body"}, NEW m \in Messages,
         Send(c, part, m)
  PROVE  out' \in [Conns -> Seq(Chunks)]
<1>1. Chunk(part, m) \in Chunks
  BY DEF Chunk, Chunks
<1>2. ASSUME NEW d \in Conns PROVE Append(out[d], Chunk(part, m)) \in Seq(Chunks)
  BY <1>1
<1> QED
  BY <1>1, <1>2 DEF Send

\* The greeting of the acceptor is typed, and goes to a connection.
LEMMA GreetingType ==
  ASSUME IndInv, pc[Acceptor] \in BusyPlaces PROVE IdMsg(id[accConn]) \in Messages
<1>1. id[accConn] \in Ids
  BY DEF IndInv, TypeOK, Places
<1> QED
  BY <1>1 DEF IdMsg, Messages

-------------------------------------------------------------------------------
(* The invariant holds initially and is kept by every step.                 *)

\* The server starts with no client, no lock and no thread.
LEMMA InitInv == Init => IndInv
<1> SUFFICES ASSUME Init PROVE IndInv
  OBVIOUS
<1>1. TypeOK
  <2>1. 1 % IdSpace \in Ids /\ 0 \in Ids
    BY ModIds, ServerAssumption DEF Ids
  <2>2. pc \in [Threads -> Labels]
    BY DEF Init, Labels
  <2>3. /\ sending \in Messages \cup {None}
        /\ mutex \in Threads \cup {None}
        /\ accConn \in Conns \cup {None}
    BY DEF Init
  <2>4. out \in [Conns -> Seq(Chunks)] /\ order \in Seq([from : Conns, n : Nat])
    BY DEF Init
  <2> QED
    BY <2>1, <2>2, <2>3, <2>4 DEF Init, TypeOK
<1>2. Places
  BY ServerAssumption DEF Init, Places, Threads, AcceptorPlaces, HandlerPlaces, BusyPlaces
<1>3. Locking /\ Living
  BY ServerAssumption DEF Init, Locking, Living, Threads
<1>4. Waiting
  BY ServerAssumption DEF Init, Waiting, Threads, BusyPlaces
<1> QED
  BY <1>1, <1>2, <1>3, <1>4 DEF IndInv

\* start() and stop() keep the invariant.
LEMMA ApplicationInv ==
  ASSUME IndInv, Start \/ StartFails \/ Stop
  PROVE  IndInv'
<1>1. CASE Start
  <2>0. /\ pc' = pc \/ (pc' = [pc EXCEPT ![Acceptor] = "loop"] /\ pc[Acceptor] \in {"none", "done"})
        /\ starts' = starts + 1 /\ listening' = TRUE /\ bound' = TRUE
        /\ UNCHANGED <<isRunning, acceptVars, lockVars, peerVars, clients, taken, out, order>>
    BY <1>1 DEF Start, Goto
  <2>1. TypeOK'
    <3>1. pc' \in [Threads -> Labels]
      <4>1. pc \in [Threads -> Labels] /\ "loop" \in Labels
        BY DEF IndInv, TypeOK, Labels
      <4> QED
        BY <2>0, <4>1
    <3>2. starts' \in Nat
      BY <2>0 DEF IndInv, TypeOK
    <3> QED
      BY <2>0, <3>1, <3>2 DEF IndInv, TypeOK, acceptVars, lockVars, peerVars
  <2>2. Places'
    <3>1. /\ \A c \in Conns : pc'[c] = pc[c]
          /\ pc'[Acceptor] = pc[Acceptor] \/ pc'[Acceptor] = "loop"
          /\ accConn' = accConn
      BY <2>0, ServerAssumption DEF IndInv, TypeOK, Threads, acceptVars
    <3> QED
      BY <3>1, ServerAssumption DEF IndInv, Places, AcceptorPlaces, BusyPlaces
  <2>3. Locking'
    BY <1>1, ServerAssumption DEF IndInv, TypeOK, Places, Locking, Threads, AcceptorPlaces, HandlerPlaces, BusyPlaces,
       Start, Goto, acceptVars, lockVars, runVars, peerVars
  <2>4. Living'
    BY <1>1, ServerAssumption DEF IndInv, TypeOK, Places, Locking, Living, Threads, AcceptorPlaces, HandlerPlaces, BusyPlaces,
       Start, Goto, acceptVars, lockVars, runVars, peerVars
  <2>5. Waiting'
    BY <1>1, ServerAssumption DEF IndInv, TypeOK, Places, Locking, Waiting, Threads, AcceptorPlaces, HandlerPlaces, BusyPlaces,
       Start, Goto, acceptVars, lockVars, runVars, peerVars
  <2> QED
    BY <2>1, <2>2, <2>3, <2>4, <2>5 DEF IndInv
<1>2. CASE StartFails
  <2>1. TypeOK'
    <3>0. starts' \in Nat
      BY <1>2 DEF IndInv, TypeOK, StartFails
    <3>1. bound' \in BOOLEAN
      BY <1>2, Zenon DEF StartFails
    <3>2. pc' \in [Threads -> Labels] /\ sending' \in Messages \cup {None}
      BY <1>2 DEF IndInv, TypeOK, StartFails, lockVars
    <3> QED
      BY <1>2, <3>0, <3>1, <3>2 DEF IndInv, TypeOK, StartFails, acceptVars, lockVars, peerVars
  <2>2. Places'
    BY <1>2, ServerAssumption DEF IndInv, TypeOK, Places, Locking, Waiting, Threads, AcceptorPlaces, HandlerPlaces, BusyPlaces,
       StartFails, acceptVars, lockVars, runVars, peerVars
  <2>3. Locking'
    BY <1>2, ServerAssumption DEF IndInv, TypeOK, Places, Locking, Threads, AcceptorPlaces, HandlerPlaces, BusyPlaces,
       StartFails, acceptVars, lockVars, runVars, peerVars
  <2>4. Living'
    BY <1>2, ServerAssumption DEF IndInv, TypeOK, Places, Locking, Living, Threads, AcceptorPlaces, HandlerPlaces, BusyPlaces,
       StartFails, acceptVars, lockVars, runVars, peerVars
  <2>5. Waiting'
    BY <1>2, ServerAssumption DEF IndInv, TypeOK, Places, Locking, Waiting, Threads, AcceptorPlaces, HandlerPlaces, BusyPlaces,
       StartFails, acceptVars, lockVars, runVars, peerVars
  <2> QED
    BY <2>1, <2>2, <2>3, <2>4, <2>5 DEF IndInv
<1>3. CASE Stop
  <2>1. TypeOK'
    BY <1>3, ServerAssumption DEF IndInv, TypeOK, Threads, Labels,
       Stop, Goto, acceptVars, lockVars, runVars, peerVars, CloseListening
  <2>2. Places'
    BY <1>3, ServerAssumption DEF IndInv, TypeOK, Places, Locking, Waiting, Threads, AcceptorPlaces, HandlerPlaces, BusyPlaces,
       Stop, Goto, acceptVars, lockVars, runVars, peerVars, CloseListening
  <2>3. Locking'
    BY <1>3, ServerAssumption DEF IndInv, TypeOK, Places, Locking, Threads, AcceptorPlaces, HandlerPlaces, BusyPlaces,
       Stop, Goto, acceptVars, lockVars, runVars, peerVars, CloseListening
  <2>4. Living'
    BY <1>3, ServerAssumption DEF IndInv, TypeOK, Places, Locking, Living, Threads, AcceptorPlaces, HandlerPlaces, BusyPlaces,
       Stop, Goto, acceptVars, lockVars, runVars, peerVars, CloseListening
  <2>5. Waiting'
    BY <1>3, ServerAssumption DEF IndInv, TypeOK, Places, Locking, Waiting, Threads, AcceptorPlaces, HandlerPlaces, BusyPlaces,
       Stop, Goto, acceptVars, lockVars, runVars, peerVars, CloseListening
  <2> QED
    BY <2>1, <2>2, <2>3, <2>4, <2>5 DEF IndInv
<1> QED
  BY <1>1, <1>2, <1>3

\* The steps of acceptClients keep the invariant.
LEMMA AcceptorInv ==
  ASSUME IndInv, NEW c, AcceptLoop \/ Accept(c) \/ AcceptFails \/ Register \/ SendIdHdr \/ SendIdBody
  PROVE  IndInv'
<1>1. CASE AcceptLoop
  <2>1. TypeOK'
    BY <1>1, ServerAssumption DEF IndInv, TypeOK, Threads, Labels,
       AcceptLoop, Goto, acceptVars, lockVars, runVars, peerVars
  <2>2. Places'
    BY <1>1, ServerAssumption DEF IndInv, TypeOK, Places, Locking, Waiting, Threads, AcceptorPlaces, HandlerPlaces, BusyPlaces,
       AcceptLoop, Goto, acceptVars, lockVars, runVars, peerVars
  <2>3. Locking'
    BY <1>1, ServerAssumption DEF IndInv, TypeOK, Places, Locking, Threads, AcceptorPlaces, HandlerPlaces, BusyPlaces,
       AcceptLoop, Goto, acceptVars, lockVars, runVars, peerVars
  <2>4. Living'
    <3>1. clients' = clients /\ sending' = sending /\ \A d \in Conns : pc'[d] = pc[d]
      BY <1>1, ServerAssumption DEF IndInv, TypeOK, Threads, AcceptLoop, Goto, lockVars
    <3> QED
      BY <3>1 DEF IndInv, TypeOK, Living
  <2>5. Waiting'
    BY <1>1, ServerAssumption DEF IndInv, TypeOK, Places, Locking, Waiting, Threads, AcceptorPlaces, HandlerPlaces, BusyPlaces,
       AcceptLoop, Goto, acceptVars, lockVars, runVars, peerVars
  <2> QED
    BY <2>1, <2>2, <2>3, <2>4, <2>5 DEF IndInv
<1>2. CASE Accept(c)
  <2>1. TypeOK'
    <3>1. NextId(nextClientID) \in Ids
      <4>1. nextClientID + 1 \in Nat
        BY ServerAssumption DEF IndInv, TypeOK, Ids
      <4> QED
        BY <4>1, ModIds DEF NextId
    <3> QED
      BY <1>2, <3>1, ServerAssumption DEF IndInv, TypeOK, Threads, Labels, Accept, Goto, acceptVars, lockVars, runVars, peerVars
  <2>2. Places'
    BY <1>2, ServerAssumption DEF IndInv, TypeOK, Places, Locking, Waiting, Threads,
       AcceptorPlaces, HandlerPlaces, BusyPlaces, Accept, Goto, acceptVars, lockVars, runVars, peerVars
  <2>3. Locking'
    BY <1>2, ServerAssumption DEF IndInv, TypeOK, Places, Locking, Threads,
       AcceptorPlaces, HandlerPlaces, BusyPlaces, Accept, Goto, acceptVars, lockVars, runVars, peerVars
  <2>4. Living'
    BY <1>2, ServerAssumption DEF IndInv, TypeOK, Places, Locking, Living, Threads,
       AcceptorPlaces, HandlerPlaces, BusyPlaces, Accept, Goto, acceptVars, lockVars, runVars, peerVars
  <2>5. Waiting'
    <3>1. /\ c \in Conns /\ c \in backlog /\ c \notin backlog' /\ backlog' \subseteq backlog
          /\ seat'[c] # 0 /\ \A d \in Conns : d # c => seat'[d] = seat[d]
          /\ \A d \in Conns : pc'[d] = pc[d]
          /\ accConn' = c /\ UNCHANGED <<peer, clients>>
      BY <1>2, ServerAssumption DEF IndInv, TypeOK, Threads, Accept, Goto, peerVars
    <3> QED
      BY <3>1 DEF IndInv, Waiting
  <2> QED
    BY <2>1, <2>2, <2>3, <2>4, <2>5 DEF IndInv
<1>3. CASE AcceptFails
  <2>1. TypeOK'
    BY <1>3, ServerAssumption DEF IndInv, TypeOK, Threads, Labels,
       AcceptFails, Goto, acceptVars, lockVars, runVars, peerVars
  <2>2. Places'
    BY <1>3, ServerAssumption DEF IndInv, TypeOK, Places, Locking, Waiting, Threads, AcceptorPlaces, HandlerPlaces, BusyPlaces,
       AcceptFails, Goto, acceptVars, lockVars, runVars, peerVars
  <2>3. Locking'
    BY <1>3, ServerAssumption DEF IndInv, TypeOK, Places, Locking, Threads, AcceptorPlaces, HandlerPlaces, BusyPlaces,
       AcceptFails, Goto, acceptVars, lockVars, runVars, peerVars
  <2>4. Living'
    BY <1>3, ServerAssumption DEF IndInv, TypeOK, Places, Locking, Living, Threads, AcceptorPlaces, HandlerPlaces, BusyPlaces,
       AcceptFails, Goto, acceptVars, lockVars, runVars, peerVars
  <2>5. Waiting'
    BY <1>3, ServerAssumption DEF IndInv, TypeOK, Places, Locking, Waiting, Threads, AcceptorPlaces, HandlerPlaces, BusyPlaces,
       AcceptFails, Goto, acceptVars, lockVars, runVars, peerVars
  <2> QED
    BY <2>1, <2>2, <2>3, <2>4, <2>5 DEF IndInv
<1>4. CASE Register
  <2>1. TypeOK'
    <3>1. accConn \in Conns
      BY <1>4 DEF IndInv, Places, BusyPlaces, Register
    <3> QED
      BY <1>4, <3>1, ServerAssumption DEF IndInv, TypeOK, Threads, Labels, Register, Goto, acceptVars, lockVars, runVars, peerVars, LockFree
  <2>2. Places'
    BY <1>4, ServerAssumption DEF IndInv, TypeOK, Places, Locking, Waiting, Threads,
       AcceptorPlaces, HandlerPlaces, BusyPlaces, Register, Goto, acceptVars, lockVars, runVars, peerVars, LockFree
  <2>3. Locking'
    BY <1>4, ServerAssumption DEF IndInv, TypeOK, Places, Locking, Threads,
       AcceptorPlaces, HandlerPlaces, BusyPlaces, Register, Goto, acceptVars, lockVars, runVars, peerVars, LockFree
  <2>4. Living'
    BY <1>4, ServerAssumption DEF IndInv, TypeOK, Places, Locking, Living, Threads,
       AcceptorPlaces, HandlerPlaces, BusyPlaces, Register, Goto, acceptVars, lockVars, runVars, peerVars, LockFree
  <2>5. Waiting'
    BY <1>4, ServerAssumption DEF IndInv, TypeOK, Places, Locking, Waiting, Threads,
       AcceptorPlaces, HandlerPlaces, BusyPlaces, Register, Goto, acceptVars, lockVars, runVars, peerVars, LockFree
  <2> QED
    BY <2>1, <2>2, <2>3, <2>4, <2>5 DEF IndInv
<1>5. CASE SendIdHdr
  <2>1. TypeOK'
    <3>1. out' \in [Conns -> Seq(Chunks)]
      BY <1>5, GreetingType, SendType DEF IndInv, TypeOK, BusyPlaces, SendIdHdr
    <3> QED
      BY <1>5, <3>1, ServerAssumption DEF IndInv, TypeOK, Threads, Labels, SendIdHdr, Goto, acceptVars, lockVars, runVars, peerVars
  <2>2. Places'
    BY <1>5, ServerAssumption DEF IndInv, TypeOK, Places, Locking, Waiting, Threads,
       AcceptorPlaces, HandlerPlaces, BusyPlaces, SendIdHdr, Goto, acceptVars, lockVars, runVars, peerVars
  <2>3. Locking'
    BY <1>5, ServerAssumption DEF IndInv, TypeOK, Places, Locking, Threads,
       AcceptorPlaces, HandlerPlaces, BusyPlaces, SendIdHdr, Goto, acceptVars, lockVars, runVars, peerVars
  <2>4. Living'
    BY <1>5, ServerAssumption DEF IndInv, TypeOK, Places, Locking, Living, Threads,
       AcceptorPlaces, HandlerPlaces, BusyPlaces, SendIdHdr, Goto, acceptVars, lockVars, runVars, peerVars
  <2>5. Waiting'
    BY <1>5, ServerAssumption DEF IndInv, TypeOK, Places, Locking, Waiting, Threads,
       AcceptorPlaces, HandlerPlaces, BusyPlaces, SendIdHdr, Goto, acceptVars, lockVars, runVars, peerVars
  <2> QED
    BY <2>1, <2>2, <2>3, <2>4, <2>5 DEF IndInv
<1>6. CASE SendIdBody
  <2>1. TypeOK'
    <3>1. out' \in [Conns -> Seq(Chunks)]
      BY <1>6, GreetingType, SendType DEF IndInv, TypeOK, BusyPlaces, SendIdBody
    <3> QED
      BY <1>6, <3>1, ServerAssumption DEF IndInv, TypeOK, Threads, Labels, SendIdBody, Goto, acceptVars, lockVars, runVars, peerVars
  <2>2. Places'
    BY <1>6, ServerAssumption DEF IndInv, TypeOK, Places, Locking, Waiting, Threads,
       AcceptorPlaces, HandlerPlaces, BusyPlaces, SendIdBody, Goto, acceptVars, lockVars, runVars, peerVars
  <2>3. Locking'
    BY <1>6, ServerAssumption DEF IndInv, TypeOK, Places, Locking, Threads,
       AcceptorPlaces, HandlerPlaces, BusyPlaces, SendIdBody, Goto, acceptVars, lockVars, runVars, peerVars
  <2>4. Living'
    BY <1>6, ServerAssumption DEF IndInv, TypeOK, Places, Locking, Living, Threads,
       AcceptorPlaces, HandlerPlaces, BusyPlaces, SendIdBody, Goto, acceptVars, lockVars, runVars, peerVars
  <2>5. Waiting'
    BY <1>6, ServerAssumption DEF IndInv, TypeOK, Places, Locking, Waiting, Threads,
       AcceptorPlaces, HandlerPlaces, BusyPlaces, SendIdBody, Goto, acceptVars, lockVars, runVars, peerVars
  <2> QED
    BY <2>1, <2>2, <2>3, <2>4, <2>5 DEF IndInv
<1> QED
  BY <1>1, <1>2, <1>3, <1>4, <1>5, <1>6

\* notifyClients and the sends of broadcastMessage keep the invariant.
LEMMA LockedInv ==
  ASSUME IndInv, NEW t \in Threads, NotifyLock(t) \/ SendHdr(t) \/ SendBody(t) \/ Unlock(t)
  PROVE  IndInv'
<1>1. CASE NotifyLock(t)
  <2>0. sending' \in Messages
    <3>1. ClientIds(clients) \in SUBSET Ids
      BY <1>1 DEF IndInv, TypeOK, ClientIds
    <3> QED
      BY <1>1, <3>1 DEF NotifyLock, ListMsg, Messages
  <2>1. TypeOK'
    BY <1>1, <2>0, ServerAssumption DEF IndInv, TypeOK, Threads, Labels, NotifyLock, Goto, acceptVars, lockVars, runVars, peerVars, LockFree
  <2>2. Places'
    BY <1>1, <2>0, ServerAssumption DEF IndInv, TypeOK, Places, Locking, Waiting, Threads,
       AcceptorPlaces, HandlerPlaces, BusyPlaces, NotifyLock, Goto, acceptVars, lockVars, runVars, peerVars, LockFree
  <2>3. Locking'
    BY <1>1, <2>0, ServerAssumption DEF IndInv, TypeOK, Places, Locking, Threads,
       AcceptorPlaces, HandlerPlaces, BusyPlaces, NotifyLock, Goto, acceptVars, lockVars, runVars, peerVars, LockFree
  <2>4. Living'
    <3>1. pc[t] = "notify" /\ clients' = clients /\ \A d \in Conns : d # t => pc'[d] = pc[d]
      BY <1>1 DEF IndInv, TypeOK, Threads, NotifyLock, Goto
    <3>2. \A d \in Conns : pc[d] # "sending"
      BY <1>1, ServerAssumption DEF IndInv, Locking, Threads, NotifyLock, LockFree
    <3>3. t \notin clients
      BY <3>1 DEF IndInv, Living
    <3> QED
      BY <3>1, <3>2, <3>3 DEF IndInv, TypeOK, Living
  <2>5. Waiting'
    BY <1>1, <2>0, ServerAssumption DEF IndInv, TypeOK, Places, Locking, Waiting, Threads,
       AcceptorPlaces, HandlerPlaces, BusyPlaces, NotifyLock, Goto, acceptVars, lockVars, runVars, peerVars, LockFree
  <2> QED
    BY <2>1, <2>2, <2>3, <2>4, <2>5 DEF IndInv
<1>2. CASE SendHdr(t)
  <2>1. TypeOK'
    <3>1. sending \in Messages
      BY <1>2, ServerAssumption DEF IndInv, Locking, Threads, SendHdr
    <3>2. out' \in [Conns -> Seq(Chunks)]
      BY <1>2, <3>1, SendType DEF IndInv, TypeOK, SendHdr
    <3> QED
      BY <1>2, <3>2, ServerAssumption DEF IndInv, TypeOK, Threads, Labels, SendHdr, Goto, acceptVars, lockVars, runVars, peerVars
  <2>2. Places'
    BY <1>2, ServerAssumption DEF IndInv, TypeOK, Places, Locking, Waiting, Threads,
       AcceptorPlaces, HandlerPlaces, BusyPlaces, SendHdr, Goto, acceptVars, lockVars, runVars, peerVars
  <2>3. Locking'
    BY <1>2, ServerAssumption DEF IndInv, TypeOK, Places, Locking, Threads,
       AcceptorPlaces, HandlerPlaces, BusyPlaces, SendHdr, Goto, acceptVars, lockVars, runVars, peerVars
  <2>4. Living'
    BY <1>2, ServerAssumption DEF IndInv, TypeOK, Places, Locking, Living, Threads,
       AcceptorPlaces, HandlerPlaces, BusyPlaces, SendHdr, Goto, acceptVars, lockVars, runVars, peerVars
  <2>5. Waiting'
    BY <1>2, ServerAssumption DEF IndInv, TypeOK, Places, Locking, Waiting, Threads,
       AcceptorPlaces, HandlerPlaces, BusyPlaces, SendHdr, Goto, acceptVars, lockVars, runVars, peerVars
  <2> QED
    BY <2>1, <2>2, <2>3, <2>4, <2>5 DEF IndInv
<1>3. CASE SendBody(t)
  <2>1. TypeOK'
    <3>1. sending \in Messages
      BY <1>3, ServerAssumption DEF IndInv, Locking, Threads, SendBody
    <3>2. out' \in [Conns -> Seq(Chunks)]
      BY <1>3, <3>1, SendType DEF IndInv, TypeOK, SendBody
    <3> QED
      BY <1>3, <3>2, ServerAssumption DEF IndInv, TypeOK, Threads, Labels, SendBody, Goto, acceptVars, lockVars, runVars, peerVars
  <2>2. Places'
    BY <1>3, ServerAssumption DEF IndInv, TypeOK, Places, Locking, Waiting, Threads,
       AcceptorPlaces, HandlerPlaces, BusyPlaces, SendBody, Goto, acceptVars, lockVars, runVars, peerVars
  <2>3. Locking'
    BY <1>3, ServerAssumption DEF IndInv, TypeOK, Places, Locking, Threads,
       AcceptorPlaces, HandlerPlaces, BusyPlaces, SendBody, Goto, acceptVars, lockVars, runVars, peerVars
  <2>4. Living'
    BY <1>3, ServerAssumption DEF IndInv, TypeOK, Places, Locking, Living, Threads,
       AcceptorPlaces, HandlerPlaces, BusyPlaces, SendBody, Goto, acceptVars, lockVars, runVars, peerVars
  <2>5. Waiting'
    BY <1>3, ServerAssumption DEF IndInv, TypeOK, Places, Locking, Waiting, Threads,
       AcceptorPlaces, HandlerPlaces, BusyPlaces, SendBody, Goto, acceptVars, lockVars, runVars, peerVars
  <2> QED
    BY <2>1, <2>2, <2>3, <2>4, <2>5 DEF IndInv
<1>4. CASE Unlock(t)
  <2>0. /\ sending \in Messages /\ mutex = t /\ pc[t] = "sending"
        /\ t = Acceptor => accConn \in Conns /\ pc[accConn] = "none"
    BY <1>4, ServerAssumption DEF IndInv, Locking, Places, Threads, BusyPlaces, Unlock
  <2>1. TypeOK'
    BY <1>4, <2>0, ServerAssumption DEF IndInv, TypeOK, Threads, Labels, Unlock, Goto, acceptVars, lockVars, runVars, peerVars, Release, ServeNext
  <2>4. Waiting'
    <3>1. \A d \in Conns : d # t /\ (t = Acceptor => d # accConn) => pc'[d] = pc[d]
      BY <1>4, <2>0, ServerAssumption DEF IndInv, TypeOK, Threads, Unlock, Goto
    <3>2. seat[t] # 0 \/ t \notin Conns
      BY <2>0 DEF IndInv, Waiting
    <3>3. t = Acceptor => seat[accConn] # 0
      BY <2>0 DEF IndInv, Waiting, BusyPlaces
    <3>4. UNCHANGED <<backlog, seat, peer, clients>>
      BY <1>4 DEF Unlock, peerVars
    <3>5. pc'[Acceptor] \in BusyPlaces => t # Acceptor /\ pc'[Acceptor] = pc[Acceptor] /\ accConn' = accConn
      BY <1>4, <2>0, ServerAssumption DEF IndInv, TypeOK, Threads, BusyPlaces, Unlock, Goto, ServeNext
    <3> QED
      BY <3>1, <3>2, <3>3, <3>4, <3>5 DEF IndInv, Waiting
  <2>2. CASE t = Acceptor
    <3>1. pc' = [pc EXCEPT ![Acceptor] = "loop", ![accConn] = "loop"] /\ accConn' = None
      BY <1>4, <2>2 DEF Unlock, ServeNext
    <3>2. /\ accConn # Acceptor /\ pc'[Acceptor] = "loop" /\ pc'[accConn] = "loop"
          /\ \A c \in Conns : c # accConn => pc'[c] = pc[c]
      BY <2>0, <2>2, <3>1, ServerAssumption DEF IndInv, TypeOK, Threads
    <3>3. Places'
      BY <3>2, ServerAssumption DEF IndInv, Places, AcceptorPlaces, HandlerPlaces, BusyPlaces
    <3>4. mutex' = None /\ todo' = {} /\ ~hdrSent' /\ clients' = clients
      BY <1>4, <2>0 DEF Unlock, Release, IndInv, Locking, TypeOK
    <3>5. Locking'
      BY <2>0, <2>2, <3>2, <3>4, ServerAssumption DEF IndInv, Locking, Threads
    <3>6. Living'
      <4>1. ASSUME NEW c \in clients, c # accConn
            PROVE  pc'[c] \in {"none", "loop", "recv", "bcast", "erase"}
        <5>1. c \in Conns /\ mutex # c
          BY <2>0, <2>2, ServerAssumption DEF IndInv, TypeOK
        <5> QED
          BY <3>2, <4>1, <5>1 DEF IndInv, Locking, Living, Threads
      <4> QED
        BY <3>2, <3>4, <4>1 DEF Living
    <3> QED
      BY <2>1, <2>4, <3>3, <3>5, <3>6 DEF IndInv
  <2>3. CASE t # Acceptor
    <3>1. /\ t \in Conns /\ pc' = [pc EXCEPT ![t] = IF sending.type = "GAME" THEN "loop" ELSE "close"]
          /\ accConn' = accConn
      BY <1>4, <2>3 DEF Unlock, Goto, Threads
    <3>2. /\ \A u \in Threads : u # t => pc'[u] = pc[u]
          /\ pc'[t] = IF sending.type = "GAME" THEN "loop" ELSE "close"
      BY <3>1 DEF IndInv, TypeOK
    <3>3. Places'
      BY <2>0, <2>3, <3>1, <3>2, ServerAssumption
      DEF IndInv, Places, AcceptorPlaces, HandlerPlaces, BusyPlaces, Threads
    <3>4. mutex' = None /\ todo' = {} /\ ~hdrSent' /\ clients' = clients
      BY <1>4, <2>0 DEF Unlock, Release, IndInv, Locking, TypeOK
    <3>5. Locking'
      BY <2>0, <3>2, <3>4, ServerAssumption DEF IndInv, Locking, Threads
    <3>6. Living'
      <4>1. ASSUME NEW c \in clients, c # t PROVE pc'[c] \in {"none", "loop", "recv", "bcast", "erase"}
        BY <2>0, <3>2, <4>1, ServerAssumption DEF IndInv, TypeOK, Locking, Living, Threads
      <4>2. t \in clients => pc'[t] = "loop"
        BY <2>0, <3>2 DEF IndInv, Living
      <4> QED
        BY <3>4, <4>1, <4>2 DEF Living
    <3> QED
      BY <2>1, <2>4, <3>3, <3>5, <3>6 DEF IndInv
  <2> QED
    BY <2>2, <2>3
<1> QED
  BY <1>1, <1>2, <1>3, <1>4

\* The steps of handleClient keep the invariant.
LEMMA HandlerInv ==
  ASSUME IndInv, NEW c \in Conns, HandlerLoop(c) \/ Recv(c) \/ RecvFails(c) \/ BcastLock(c) \/ Erase(c) \/ Close(c)
  PROVE  IndInv'
<1>1. CASE HandlerLoop(c)
  <2>1. TypeOK'
    BY <1>1, ServerAssumption DEF IndInv, TypeOK, Threads, Labels,
       HandlerLoop, Goto, acceptVars, lockVars, runVars, peerVars
  <2>2. Places'
    BY <1>1, ServerAssumption DEF IndInv, TypeOK, Places, Locking, Waiting, Threads, AcceptorPlaces, HandlerPlaces, BusyPlaces,
       HandlerLoop, Goto, acceptVars, lockVars, runVars, peerVars
  <2>3. Locking'
    BY <1>1, ServerAssumption DEF IndInv, TypeOK, Places, Locking, Threads, AcceptorPlaces, HandlerPlaces, BusyPlaces,
       HandlerLoop, Goto, acceptVars, lockVars, runVars, peerVars
  <2>4. Living'
    BY <1>1, ServerAssumption DEF IndInv, TypeOK, Places, Locking, Living, Threads, AcceptorPlaces, HandlerPlaces, BusyPlaces,
       HandlerLoop, Goto, acceptVars, lockVars, runVars, peerVars
  <2>5. Waiting'
    BY <1>1, ServerAssumption DEF IndInv, TypeOK, Places, Locking, Waiting, Threads, AcceptorPlaces, HandlerPlaces, BusyPlaces,
       HandlerLoop, Goto, acceptVars, lockVars, runVars, peerVars
  <2> QED
    BY <2>1, <2>2, <2>3, <2>4, <2>5 DEF IndInv
<1>2. CASE Recv(c)
  <2>1. TypeOK'
    BY <1>2, ServerAssumption DEF IndInv, TypeOK, Threads, Labels, Recv, Goto, acceptVars, lockVars, runVars, peerVars
  <2>2. Places' /\ Locking' /\ Living' /\ Waiting'
    BY <1>2, ServerAssumption DEF IndInv, TypeOK, Places, Locking, Living, Waiting, Threads,
       AcceptorPlaces, HandlerPlaces, BusyPlaces, Recv, Goto, acceptVars, lockVars, runVars, peerVars
  <2> QED
    BY <2>1, <2>2 DEF IndInv
<1>3. CASE RecvFails(c)
  <2>1. TypeOK'
    BY <1>3, ServerAssumption DEF IndInv, TypeOK, Threads, Labels,
       RecvFails, Goto, acceptVars, lockVars, runVars, peerVars, Break
  <2>2. Places'
    BY <1>3, ServerAssumption DEF IndInv, TypeOK, Places, Locking, Waiting, Threads, AcceptorPlaces, HandlerPlaces, BusyPlaces,
       RecvFails, Goto, acceptVars, lockVars, runVars, peerVars, Break
  <2>3. Locking'
    BY <1>3, ServerAssumption DEF IndInv, TypeOK, Places, Locking, Threads, AcceptorPlaces, HandlerPlaces, BusyPlaces,
       RecvFails, Goto, acceptVars, lockVars, runVars, peerVars, Break
  <2>4. Living'
    BY <1>3, ServerAssumption DEF IndInv, TypeOK, Places, Locking, Living, Threads, AcceptorPlaces, HandlerPlaces, BusyPlaces,
       RecvFails, Goto, acceptVars, lockVars, runVars, peerVars, Break
  <2>5. Waiting'
    BY <1>3, ServerAssumption DEF IndInv, TypeOK, Places, Locking, Waiting, Threads, AcceptorPlaces, HandlerPlaces, BusyPlaces,
       RecvFails, Goto, acceptVars, lockVars, runVars, peerVars, Break
  <2> QED
    BY <2>1, <2>2, <2>3, <2>4, <2>5 DEF IndInv
<1>4. CASE BcastLock(c)
  <2>0. sending' \in Messages /\ sending'.type = "GAME"
    BY <1>4 DEF IndInv, TypeOK, BcastLock, GameMsg, Messages
  <2>1. TypeOK'
    BY <1>4, <2>0, ServerAssumption DEF IndInv, TypeOK, Threads, Labels, BcastLock, Goto, acceptVars, lockVars, runVars, peerVars, LockFree, Recipients
  <2>2. Places'
    BY <1>4, <2>0, ServerAssumption DEF IndInv, TypeOK, Places, Locking, Waiting, Threads,
       AcceptorPlaces, HandlerPlaces, BusyPlaces, BcastLock, Goto, acceptVars, lockVars, runVars, peerVars, LockFree, Recipients
  <2>3. Locking'
    BY <1>4, <2>0, ServerAssumption DEF IndInv, TypeOK, Places, Locking, Threads,
       AcceptorPlaces, HandlerPlaces, BusyPlaces, BcastLock, Goto, acceptVars, lockVars, runVars, peerVars, LockFree, Recipients
  <2>4. Living'
    BY <1>4, <2>0, ServerAssumption DEF IndInv, TypeOK, Places, Locking, Living, Threads,
       AcceptorPlaces, HandlerPlaces, BusyPlaces, BcastLock, Goto, acceptVars, lockVars, runVars, peerVars, LockFree, Recipients
  <2>5. Waiting'
    BY <1>4, <2>0, ServerAssumption DEF IndInv, TypeOK, Places, Locking, Waiting, Threads,
       AcceptorPlaces, HandlerPlaces, BusyPlaces, BcastLock, Goto, acceptVars, lockVars, runVars, peerVars, LockFree, Recipients
  <2> QED
    BY <2>1, <2>2, <2>3, <2>4, <2>5 DEF IndInv
<1>5. CASE Erase(c)
  <2>1. TypeOK'
    BY <1>5, ServerAssumption DEF IndInv, TypeOK, Threads, Labels,
       Erase, Goto, acceptVars, lockVars, runVars, peerVars, LockFree, EraseThen
  <2>2. Places'
    BY <1>5, ServerAssumption DEF IndInv, TypeOK, Places, Locking, Waiting, Threads, AcceptorPlaces, HandlerPlaces, BusyPlaces,
       Erase, Goto, acceptVars, lockVars, runVars, peerVars, LockFree, EraseThen
  <2>3. Locking'
    BY <1>5, ServerAssumption DEF IndInv, TypeOK, Places, Locking, Threads, AcceptorPlaces, HandlerPlaces, BusyPlaces,
       Erase, Goto, acceptVars, lockVars, runVars, peerVars, LockFree, EraseThen
  <2>4. Living'
    BY <1>5, ServerAssumption DEF IndInv, TypeOK, Places, Locking, Living, Threads, AcceptorPlaces, HandlerPlaces, BusyPlaces,
       Erase, Goto, acceptVars, lockVars, runVars, peerVars, LockFree, EraseThen
  <2>5. Waiting'
    BY <1>5, ServerAssumption DEF IndInv, TypeOK, Places, Locking, Waiting, Threads, AcceptorPlaces, HandlerPlaces, BusyPlaces,
       Erase, Goto, acceptVars, lockVars, runVars, peerVars, LockFree, EraseThen
  <2> QED
    BY <2>1, <2>2, <2>3, <2>4, <2>5 DEF IndInv
<1>6. CASE Close(c)
  <2>1. TypeOK'
    BY <1>6, ServerAssumption DEF IndInv, TypeOK, Threads, Labels,
       Close, Goto, acceptVars, lockVars, runVars, peerVars
  <2>2. Places'
    BY <1>6, ServerAssumption DEF IndInv, TypeOK, Places, Locking, Waiting, Threads, AcceptorPlaces, HandlerPlaces, BusyPlaces,
       Close, Goto, acceptVars, lockVars, runVars, peerVars
  <2>3. Locking'
    BY <1>6, ServerAssumption DEF IndInv, TypeOK, Places, Locking, Threads, AcceptorPlaces, HandlerPlaces, BusyPlaces,
       Close, Goto, acceptVars, lockVars, runVars, peerVars
  <2>4. Living'
    BY <1>6, ServerAssumption DEF IndInv, TypeOK, Places, Locking, Living, Threads, AcceptorPlaces, HandlerPlaces, BusyPlaces,
       Close, Goto, acceptVars, lockVars, runVars, peerVars
  <2>5. Waiting'
    BY <1>6, ServerAssumption DEF IndInv, TypeOK, Places, Locking, Waiting, Threads, AcceptorPlaces, HandlerPlaces, BusyPlaces,
       Close, Goto, acceptVars, lockVars, runVars, peerVars
  <2> QED
    BY <2>1, <2>2, <2>3, <2>4, <2>5 DEF IndInv
<1> QED
  BY <1>1, <1>2, <1>3, <1>4, <1>5, <1>6

\* What the peers do keeps the invariant.
LEMMA PeerInv ==
  ASSUME IndInv, NEW c \in Conns, Connect(c) \/ PeerSend(c) \/ PeerClose(c) \/ Stall(c) \/ Resume(c)
  PROVE  IndInv'
<1>1. CASE Connect(c)
  <2>1. TypeOK'
    BY <1>1, ServerAssumption DEF IndInv, TypeOK, Threads, Labels,
       Connect, Goto, acceptVars, lockVars, runVars, peerVars
  <2>2. Places'
    BY <1>1, ServerAssumption DEF IndInv, TypeOK, Places, Locking, Waiting, Threads, AcceptorPlaces, HandlerPlaces, BusyPlaces,
       Connect, Goto, acceptVars, lockVars, runVars, peerVars
  <2>3. Locking'
    BY <1>1, ServerAssumption DEF IndInv, TypeOK, Places, Locking, Threads, AcceptorPlaces, HandlerPlaces, BusyPlaces,
       Connect, Goto, acceptVars, lockVars, runVars, peerVars
  <2>4. Living'
    BY <1>1, ServerAssumption DEF IndInv, TypeOK, Places, Locking, Living, Threads, AcceptorPlaces, HandlerPlaces, BusyPlaces,
       Connect, Goto, acceptVars, lockVars, runVars, peerVars
  <2>5. Waiting'
    BY <1>1, ServerAssumption DEF IndInv, TypeOK, Places, Locking, Waiting, Threads, AcceptorPlaces, HandlerPlaces, BusyPlaces,
       Connect, Goto, acceptVars, lockVars, runVars, peerVars
  <2> QED
    BY <2>1, <2>2, <2>3, <2>4, <2>5 DEF IndInv
<1>2. CASE PeerSend(c)
  <2>1. TypeOK'
    BY <1>2, ServerAssumption DEF IndInv, TypeOK, Threads, Labels, PeerSend, Goto, acceptVars, lockVars, runVars, peerVars
  <2>2. Places' /\ Locking' /\ Living' /\ Waiting'
    BY <1>2, ServerAssumption DEF IndInv, TypeOK, Places, Locking, Living, Waiting, Threads,
       AcceptorPlaces, HandlerPlaces, BusyPlaces, PeerSend, Goto, acceptVars, lockVars, runVars, peerVars
  <2> QED
    BY <2>1, <2>2 DEF IndInv
<1>3. CASE PeerClose(c)
  <2>1. TypeOK'
    BY <1>3, ServerAssumption DEF IndInv, TypeOK, Threads, Labels, PeerClose, Goto, acceptVars, lockVars, runVars, peerVars
  <2>2. Places' /\ Locking' /\ Living'
    <3>1. UNCHANGED <<acceptVars, lockVars, clients, pc>>
      BY <1>3 DEF PeerClose
    <3> QED
      BY <3>1 DEF IndInv, Places, Locking, Living, acceptVars, lockVars
  <2>3. Waiting'
    <3>1. /\ UNCHANGED <<acceptVars, clients, pc>>
          /\ \A d \in Conns : peer'[d] = "fresh" <=> peer[d] = "fresh"
      BY <1>3 DEF IndInv, TypeOK, PeerClose
    <3> QED
      BY <3>1 DEF IndInv, Waiting, acceptVars
  <2> QED
    BY <2>1, <2>2, <2>3 DEF IndInv
<1>4. CASE Stall(c)
  <2>1. TypeOK'
    BY <1>4, ServerAssumption DEF IndInv, TypeOK, Threads, Labels, Stall, Goto, acceptVars, lockVars, runVars, peerVars
  <2>2. Places' /\ Locking' /\ Living' /\ Waiting'
    BY <1>4, ServerAssumption DEF IndInv, TypeOK, Places, Locking, Living, Waiting, Threads,
       AcceptorPlaces, HandlerPlaces, BusyPlaces, Stall, Goto, acceptVars, lockVars, runVars, peerVars
  <2> QED
    BY <2>1, <2>2 DEF IndInv
<1>5. CASE Resume(c)
  <2>1. TypeOK'
    BY <1>5, ServerAssumption DEF IndInv, TypeOK, Threads, Labels, Resume, Goto, acceptVars, lockVars, runVars, peerVars
  <2>2. Places' /\ Locking' /\ Living' /\ Waiting'
    BY <1>5, ServerAssumption DEF IndInv, TypeOK, Places, Locking, Living, Waiting, Threads,
       AcceptorPlaces, HandlerPlaces, BusyPlaces, Resume, Goto, acceptVars, lockVars, runVars, peerVars
  <2> QED
    BY <2>1, <2>2 DEF IndInv
<1> QED
  BY <1>1, <1>2, <1>3, <1>4, <1>5

\* Every step of the server, its clients and its application keeps the invariant.
LEMMA NextInv == IndInv /\ [Next]_vars => IndInv'
<1> SUFFICES ASSUME IndInv, [Next]_vars PROVE IndInv'
  OBVIOUS
<1>1. CASE UNCHANGED vars
  BY <1>1 DEF IndInv, TypeOK, Places, Locking, Living, Waiting, vars, acceptVars, lockVars, runVars, peerVars
<1>2. CASE Start \/ StartFails \/ Stop
  BY <1>2, ApplicationInv
<1>3. CASE AcceptorStep
  <2>1. Acceptor \in Threads
    BY DEF Threads
  <2>2. CASE Locked(Acceptor)
    BY <2>1, <2>2, LockedInv DEF Locked
  <2>3. CASE \E c \in Conns : Accept(c)
    BY <2>3, AcceptorInv
  <2>4. CASE AcceptLoop \/ AcceptFails \/ Register \/ SendIdHdr \/ SendIdBody
    BY <2>4, AcceptorInv
  <2> QED
    BY <1>3, <2>2, <2>3, <2>4 DEF AcceptorStep
<1>4. CASE \E c \in Conns : HandlerStep(c) \/ PeerStep(c)
  <2>1. PICK c \in Conns : HandlerStep(c) \/ PeerStep(c)
    BY <1>4
  <2>2. CASE Locked(c)
    BY <2>2, LockedInv DEF Locked, Threads
  <2> QED
    BY <2>1, <2>2, HandlerInv, PeerInv DEF HandlerStep, PeerStep
<1> QED
  BY <1>1, <1>2, <1>3, <1>4 DEF Next

\* The invariant holds in every state the server can reach.
THEOREM Invariance == Spec => []IndInv
BY InitInv, NextInv, PTL DEF Spec

\* Type correctness: in particular ids fit a uint8_t, and what is sent is a message.
THEOREM TypeCorrectness == Spec => []TypeOK
<1>1. IndInv => TypeOK
  BY DEF IndInv
<1> QED
  BY <1>1, Invariance, PTL

\* The loops of broadcastMessage and notifyClients never overlap.
THEOREM LockDiscipline == Spec => []SendersHoldTheLock
<1>1. IndInv => SendersHoldTheLock
  BY DEF IndInv, Locking, SendersHoldTheLock
<1> QED
  BY <1>1, Invariance, PTL

\* No thread writes to a socket after its handler has closed it, even when ids
\* wrap around and a handler erases clients that are not its own.
THEOREM ClosedSocketsAreLeftAlone == Spec => []NoSendAfterClose
<1>1. IndInv => NoSendAfterClose
  BY DEF IndInv, Places, Locking, Living, BusyPlaces, NoSendAfterClose
<1> QED
  BY <1>1, Invariance, PTL

-------------------------------------------------------------------------------
(* Ids are given in turn: the n-th connection has id n, the IdSpace-th has  *)
(* id 0, and up to there no two connections have the same.                  *)

Wrapped(n) == IF n = IdSpace THEN 0 ELSE n

Turns ==
  /\ accepted < IdSpace => nextClientID = Wrapped(accepted + 1)
  /\ accepted <= IdSpace => \A c \in Conns : seat[c] # 0 => id[c] = Wrapped(seat[c])
  /\ \A c \in Conns : seat[c] <= accepted
  /\ \A c, d \in Conns : seat[c] = seat[d] /\ seat[c] # 0 => c = d

\* The client the acceptor is greeting is registered too.
Served ==
  accepted <= IdSpace =>
    /\ \A c \in Conns : Serving(c) => c \in clients
    /\ pc[Acceptor] \in {"idhdr", "idbody", "notify", "sending"} => accConn \in clients

IdInv == IndInv /\ Turns /\ Served

\* uint8_t nextClientID++, up to the wrap and at it.
LEMMA NextIdWraps == ASSUME NEW n \in Nat, n < IdSpace PROVE (n + 1) % IdSpace = Wrapped(n + 1)
<1>1. CASE n + 1 = IdSpace
  BY <1>1, ServerAssumption DEF Wrapped
<1>2. CASE n + 1 # IdSpace
  BY <1>2, ServerAssumption DEF Wrapped
<1> QED
  BY <1>1, <1>2

\* As long as ids did not wrap, two accepted connections have different ids.
LEMMA DistinctIds ==
  ASSUME IdInv, accepted <= IdSpace, NEW c \in Conns, NEW d \in Conns,
         seat[c] # 0, seat[d] # 0, id[c] = id[d]
  PROVE  c = d
BY ServerAssumption DEF IdInv, IndInv, TypeOK, Turns, Wrapped

\* No connection is accepted, given an id or a seat by the step.
Seated == UNCHANGED <<nextClientID, accepted, id, seat>>

\* Turns only speaks of what accept() changes.
LEMMA TurnsKept == ASSUME Turns, Seated PROVE Turns'
BY DEF Turns, Seated

\* accept() gives the next id, and no seat twice.
LEMMA AcceptTurns == ASSUME IdInv, NEW c \in Conns, Accept(c) PROVE Turns'
<1>1. accepted \in Nat /\ seat \in [Conns -> Nat] /\ id \in [Conns -> Ids]
  BY DEF IdInv, IndInv, TypeOK
<1>2. accepted' = accepted + 1 /\ seat' = [seat EXCEPT ![c] = accepted + 1]
      /\ id' = [id EXCEPT ![c] = nextClientID] /\ nextClientID' = NextId(nextClientID)
  BY DEF Accept
<1>3. \A d \in Conns : seat[d] <= accepted
  BY DEF IdInv, Turns
<1>4. \A d \in Conns : seat'[d] <= accepted'
  BY <1>1, <1>2, <1>3
<1>5. \A d, e \in Conns : seat'[d] = seat'[e] /\ seat'[d] # 0 => d = e
  BY <1>1, <1>2, <1>3 DEF IdInv, Turns
<1>6. accepted' <= IdSpace => \A d \in Conns : seat'[d] # 0 => id'[d] = Wrapped(seat'[d])
  BY <1>1, <1>2, ServerAssumption DEF IdInv, Turns
<1>7. accepted' < IdSpace => nextClientID' = Wrapped(accepted' + 1)
  <2> SUFFICES ASSUME accepted' < IdSpace PROVE nextClientID' = Wrapped(accepted' + 1)
    OBVIOUS
  <2>1. nextClientID = accepted + 1
    BY <1>1, <1>2, ServerAssumption DEF IdInv, Turns, Wrapped
  <2> QED
    BY <1>1, <1>2, <2>1, NextIdWraps DEF NextId
<1> QED
  BY <1>4, <1>5, <1>6, <1>7 DEF Turns

\* The server starts with no connection served.
LEMMA InitIds == Init => IdInv
<1> SUFFICES ASSUME Init PROVE IdInv
  OBVIOUS
<1>1. Turns
  <2>1. 1 % IdSpace = Wrapped(1)
    BY NextIdWraps, ServerAssumption
  <2> QED
    BY <2>1 DEF Init, Turns
<1>2. Served
  BY ServerAssumption DEF Init, Served, Serving, Threads
<1> QED
  BY <1>1, <1>2, InitInv DEF IdInv

\* start() and stop() keep the numbering.
LEMMA ApplicationIds ==
  ASSUME IdInv, Start \/ StartFails \/ Stop
  PROVE  Turns' /\ Served'
<1>1. CASE Start
  BY <1>1, TurnsKept, ServerAssumption DEF Seated, IdInv, IndInv, TypeOK, Places, Served, Serving, Threads,
     Start, Goto, acceptVars, lockVars, runVars, peerVars
<1>2. CASE StartFails
  BY <1>2, TurnsKept, ServerAssumption DEF Seated, IdInv, IndInv, TypeOK, Places, Served, Serving, Threads,
     StartFails, acceptVars, lockVars, runVars, peerVars
<1>3. CASE Stop
  BY <1>3, TurnsKept, ServerAssumption DEF Seated, IdInv, IndInv, TypeOK, Places, Served, Serving, Threads,
     Stop, Goto, acceptVars, lockVars, runVars, peerVars, CloseListening
<1> QED
  BY <1>1, <1>2, <1>3

\* acceptClients keeps the numbering, and registers whom it greets.
LEMMA AcceptorIds ==
  ASSUME IdInv, NEW c, AcceptLoop \/ Accept(c) \/ AcceptFails \/ Register \/ SendIdHdr \/ SendIdBody
  PROVE  Turns' /\ Served'
<1>1. CASE AcceptLoop
  BY <1>1, TurnsKept, ServerAssumption DEF Seated, IdInv, IndInv, TypeOK, Places, Served, Serving, Threads,
     AcceptLoop, Goto, acceptVars, lockVars, runVars, peerVars
<1>2. CASE Accept(c)
  <2>1. Turns'
    BY <1>2, AcceptTurns DEF Accept, IdInv, IndInv, TypeOK
  <2>2. Served'
    BY <1>2, ServerAssumption DEF IdInv, IndInv, TypeOK, Places, Locking, Waiting, Served, Serving, Threads,
       AcceptorPlaces, HandlerPlaces, BusyPlaces, Accept, Goto, acceptVars, lockVars, runVars, peerVars
  <2> QED
    BY <2>1, <2>2
<1>3. CASE AcceptFails
  BY <1>3, TurnsKept, ServerAssumption DEF Seated, IdInv, IndInv, TypeOK, Places, Served, Serving, Threads,
     AcceptFails, Goto, acceptVars, lockVars, runVars, peerVars
<1>4. CASE Register
  <2>1. Turns'
    <3>1. Seated
      BY <1>4 DEF Register, Seated, acceptVars
    <3> QED
      BY <3>1, TurnsKept DEF IdInv
  <2>2. Served'
    BY <1>4, ServerAssumption DEF IdInv, IndInv, TypeOK, Places, Locking, Waiting, Served, Serving, Threads,
       AcceptorPlaces, HandlerPlaces, BusyPlaces, Register, Goto, acceptVars, lockVars, runVars, peerVars, LockFree
  <2> QED
    BY <2>1, <2>2
<1>5. CASE SendIdHdr
  <2>1. Turns'
    <3>1. Seated
      BY <1>5 DEF SendIdHdr, Seated, acceptVars
    <3> QED
      BY <3>1, TurnsKept DEF IdInv
  <2>2. Served'
    BY <1>5, ServerAssumption DEF IdInv, IndInv, TypeOK, Places, Locking, Waiting, Served, Serving, Threads,
       AcceptorPlaces, HandlerPlaces, BusyPlaces, SendIdHdr, Goto, acceptVars, lockVars, runVars, peerVars
  <2> QED
    BY <2>1, <2>2
<1>6. CASE SendIdBody
  <2>1. Turns'
    <3>1. Seated
      BY <1>6 DEF SendIdBody, Seated, acceptVars
    <3> QED
      BY <3>1, TurnsKept DEF IdInv
  <2>2. Served'
    BY <1>6, ServerAssumption DEF IdInv, IndInv, TypeOK, Places, Locking, Waiting, Served, Serving, Threads,
       AcceptorPlaces, HandlerPlaces, BusyPlaces, SendIdBody, Goto, acceptVars, lockVars, runVars, peerVars
  <2> QED
    BY <2>1, <2>2
<1> QED
  BY <1>1, <1>2, <1>3, <1>4, <1>5, <1>6

\* The sending loops keep the numbering; a new handler is of a registered client.
LEMMA LockedIds ==
  ASSUME IdInv, NEW t \in Threads, NotifyLock(t) \/ SendHdr(t) \/ SendBody(t) \/ Unlock(t)
  PROVE  Turns' /\ Served'
<1>1. CASE NotifyLock(t)
  <2>1. Turns'
    <3>1. Seated
      BY <1>1 DEF NotifyLock, Seated, acceptVars
    <3> QED
      BY <3>1, TurnsKept DEF IdInv
  <2>2. Served'
    <3>1. sending'.type = "LIST" /\ clients' = clients /\ accepted' = accepted /\ accConn' = accConn
      BY <1>1 DEF NotifyLock, ListMsg, acceptVars
    <3>2. pc[t] = "notify" /\ pc'[t] = "sending" /\ \A u \in Threads : u # t => pc'[u] = pc[u] /\ pc[u] # "sending"
      BY <1>1, ServerAssumption DEF IdInv, IndInv, TypeOK, Locking, Threads, NotifyLock, LockFree, Goto
    <3>3. ASSUME accepted <= IdSpace, NEW c \in Conns, Serving(c)' PROVE c \in clients
      BY <3>1, <3>2, <3>3 DEF IdInv, Served, Serving, Threads
    <3> QED
      BY <3>1, <3>2, <3>3 DEF IdInv, Served, Threads
  <2> QED
    BY <2>1, <2>2
<1>2. CASE SendHdr(t)
  <2>1. Turns'
    <3>1. Seated
      BY <1>2 DEF SendHdr, Seated, acceptVars
    <3> QED
      BY <3>1, TurnsKept DEF IdInv
  <2>2. Served'
    BY <1>2, ServerAssumption DEF IdInv, IndInv, TypeOK, Places, Locking, Waiting, Served, Serving, Threads,
       AcceptorPlaces, HandlerPlaces, BusyPlaces, SendHdr, Goto, acceptVars, lockVars, runVars, peerVars
  <2> QED
    BY <2>1, <2>2
<1>3. CASE SendBody(t)
  <2>1. Turns'
    <3>1. Seated
      BY <1>3 DEF SendBody, Seated, acceptVars
    <3> QED
      BY <3>1, TurnsKept DEF IdInv
  <2>2. Served'
    BY <1>3, ServerAssumption DEF IdInv, IndInv, TypeOK, Places, Locking, Waiting, Served, Serving, Threads,
       AcceptorPlaces, HandlerPlaces, BusyPlaces, SendBody, Goto, acceptVars, lockVars, runVars, peerVars
  <2> QED
    BY <2>1, <2>2
<1>4. CASE Unlock(t)
  <2>1. Turns'
    <3>1. Seated
      BY <1>4 DEF Unlock, Seated, acceptVars
    <3> QED
      BY <3>1, TurnsKept DEF IdInv
  <2>2. Served'
    <3>1. /\ clients' = clients /\ accepted' = accepted
          /\ mutex = t /\ (t = Acceptor => accConn \in Conns)
      BY <1>4, ServerAssumption DEF IdInv, IndInv, Locking, Places, BusyPlaces, Threads, Unlock
    <3>2. CASE t = Acceptor
      <4>1. \A u \in Threads : u # Acceptor /\ u # accConn => pc'[u] = pc[u]
        BY <1>4, <3>2 DEF IdInv, IndInv, TypeOK, Unlock
      <4>2. \A d \in Conns : pc[d] # "sending"
        BY <3>1, <3>2, ServerAssumption DEF IdInv, IndInv, Locking, Threads
      <4>3. pc'[Acceptor] = "loop"
        BY <1>4, <3>1, <3>2, ServerAssumption DEF IdInv, IndInv, TypeOK, Threads, Unlock, ServeNext
      <4>4. accepted <= IdSpace => accConn \in clients
        BY <1>4, <3>2 DEF IdInv, Served, Unlock
      <4>5. ASSUME accepted <= IdSpace, NEW d \in Conns, Serving(d)' PROVE d \in clients
        BY <4>1, <4>2, <4>4, <4>5, ServerAssumption DEF IdInv, Served, Serving, Threads
      <4> QED
        BY <3>1, <4>3, <4>5 DEF Served
    <3>3. CASE t # Acceptor
      <4>1. /\ t \in Conns /\ \A u \in Threads : u # t => pc'[u] = pc[u]
            /\ pc'[t] = IF sending.type = "GAME" THEN "loop" ELSE "close"
            /\ accConn' = accConn
        BY <1>4, <3>3 DEF IdInv, IndInv, TypeOK, Unlock, Goto, Threads
      <4>2. \A d \in Conns : d # t => pc[d] # "sending"
        BY <3>1 DEF IdInv, IndInv, Locking, Threads
      <4>3. accepted <= IdSpace /\ sending.type = "GAME" => t \in clients
        BY <1>4, <4>1 DEF IdInv, Served, Serving, Unlock
      <4>4. ASSUME accepted <= IdSpace, NEW d \in Conns, Serving(d)' PROVE d \in clients
        BY <4>1, <4>2, <4>3, <4>4 DEF IdInv, Served, Serving, Threads
      <4> QED
        BY <3>1, <3>3, <4>1, <4>4 DEF IdInv, Served, Threads
    <3> QED
      BY <3>2, <3>3
  <2> QED
    BY <2>1, <2>2
<1> QED
  BY <1>1, <1>2, <1>3, <1>4

\* handleClient keeps the numbering, and erases its own client only.
LEMMA HandlerIds ==
  ASSUME IdInv, NEW c \in Conns, HandlerLoop(c) \/ Recv(c) \/ RecvFails(c) \/ BcastLock(c) \/ Erase(c) \/ Close(c)
  PROVE  Turns' /\ Served'
<1>1. CASE HandlerLoop(c)
  BY <1>1, TurnsKept, ServerAssumption DEF Seated, IdInv, IndInv, TypeOK, Places, Served, Serving, Threads,
     HandlerLoop, Goto, acceptVars, lockVars, runVars, peerVars
<1>2. CASE Recv(c)
  BY <1>2, TurnsKept, ServerAssumption DEF Seated, IdInv, IndInv, TypeOK, Places, Served, Serving, Threads,
     Recv, Goto, acceptVars, lockVars, runVars, peerVars
<1>3. CASE RecvFails(c)
  BY <1>3, TurnsKept, ServerAssumption DEF Seated, IdInv, IndInv, TypeOK, Places, Served, Serving, Threads,
     RecvFails, Goto, acceptVars, lockVars, runVars, peerVars, Break
<1>4. CASE BcastLock(c)
  <2>1. Turns'
    <3>1. Seated
      BY <1>4 DEF BcastLock, Seated, acceptVars
    <3> QED
      BY <3>1, TurnsKept DEF IdInv
  <2>2. Served'
    BY <1>4, ServerAssumption DEF IdInv, IndInv, TypeOK, Places, Locking, Waiting, Served, Serving, Threads,
       AcceptorPlaces, HandlerPlaces, BusyPlaces, BcastLock, Goto, acceptVars, lockVars, runVars, peerVars, LockFree, Recipients
  <2> QED
    BY <2>1, <2>2
<1>5. CASE Erase(c)
  <2>1. Turns'
    <3>1. Seated
      BY <1>5 DEF Erase, Seated, acceptVars
    <3> QED
      BY <3>1, TurnsKept DEF IdInv
  <2>2. Served'
    <3> SUFFICES ASSUME accepted <= IdSpace PROVE Served'
      BY <1>5 DEF Served, Erase, acceptVars
    <3>1. seat[c] # 0
      BY <1>5, ServerAssumption DEF IdInv, IndInv, Waiting, Erase
    <3>2. ASSUME NEW d \in clients, d # c PROVE d \in clients'
      <4>1. d \in Conns /\ seat[d] # 0
        BY DEF IdInv, IndInv, TypeOK, Waiting
      <4> QED
        BY <1>5, <3>1, <3>2, <4>1, DistinctIds DEF Erase
    <3>3. /\ pc'[c] = "notify" /\ pc'[Acceptor] = pc[Acceptor]
          /\ \A d \in Conns : d # c => pc'[d] = pc[d]
      BY <1>5, ServerAssumption DEF IdInv, IndInv, TypeOK, Threads, Erase, EraseThen, Goto
    <3>4. ASSUME NEW d \in Conns, Serving(d)' PROVE d \in clients'
      BY <1>5, <3>2, <3>3, <3>4 DEF IdInv, Served, Serving, Erase, lockVars
    <3>5. pc[Acceptor] \in BusyPlaces => accConn # c
      BY <1>5 DEF IdInv, IndInv, Places, Erase
    <3> QED
      BY <1>5, <3>2, <3>3, <3>4, <3>5 DEF IdInv, Served, Erase, acceptVars, BusyPlaces
  <2> QED
    BY <2>1, <2>2
<1>6. CASE Close(c)
  BY <1>6, TurnsKept, ServerAssumption DEF Seated, IdInv, IndInv, TypeOK, Places, Served, Serving, Threads,
     Close, Goto, acceptVars, lockVars, runVars, peerVars
<1> QED
  BY <1>1, <1>2, <1>3, <1>4, <1>5, <1>6

\* What the peers do keeps the numbering.
LEMMA PeerIds ==
  ASSUME IdInv, NEW c \in Conns, Connect(c) \/ PeerSend(c) \/ PeerClose(c) \/ Stall(c) \/ Resume(c)
  PROVE  Turns' /\ Served'
<1>1. CASE Connect(c)
  BY <1>1, TurnsKept, ServerAssumption DEF Seated, IdInv, IndInv, TypeOK, Places, Served, Serving, Threads,
     Connect, Goto, acceptVars, lockVars, runVars, peerVars
<1>2. CASE PeerSend(c)
  BY <1>2, TurnsKept, ServerAssumption DEF Seated, IdInv, IndInv, TypeOK, Places, Served, Serving, Threads,
     PeerSend, Goto, acceptVars, lockVars, runVars, peerVars
<1>3. CASE PeerClose(c)
  BY <1>3, TurnsKept, ServerAssumption DEF Seated, IdInv, IndInv, TypeOK, Places, Served, Serving, Threads,
     PeerClose, Goto, acceptVars, lockVars, runVars, peerVars
<1>4. CASE Stall(c)
  BY <1>4, TurnsKept, ServerAssumption DEF Seated, IdInv, IndInv, TypeOK, Places, Served, Serving, Threads,
     Stall, Goto, acceptVars, lockVars, runVars, peerVars
<1>5. CASE Resume(c)
  BY <1>5, TurnsKept, ServerAssumption DEF Seated, IdInv, IndInv, TypeOK, Places, Served, Serving, Threads,
     Resume, Goto, acceptVars, lockVars, runVars, peerVars
<1> QED
  BY <1>1, <1>2, <1>3, <1>4, <1>5

\* Every step keeps the numbering and serves registered clients.
LEMMA NextIds == IdInv /\ [Next]_vars => IdInv'
<1> SUFFICES ASSUME IdInv, [Next]_vars PROVE Turns' /\ Served'
  BY NextInv DEF IdInv
<1>1. CASE UNCHANGED vars
  BY <1>1 DEF IdInv, Turns, Served, Serving, vars, acceptVars, lockVars, runVars, peerVars
<1>2. CASE Start \/ StartFails \/ Stop
  BY <1>2, ApplicationIds
<1>3. CASE AcceptorStep
  <2>1. CASE Locked(Acceptor)
    BY <2>1, LockedIds DEF Locked, Threads
  <2>2. CASE \E c \in Conns : Accept(c)
    BY <2>2, AcceptorIds
  <2>3. CASE AcceptLoop \/ AcceptFails \/ Register \/ SendIdHdr \/ SendIdBody
    BY <2>3, AcceptorIds
  <2> QED
    BY <1>3, <2>1, <2>2, <2>3 DEF AcceptorStep
<1>4. CASE \E c \in Conns : HandlerStep(c) \/ PeerStep(c)
  <2>1. PICK c \in Conns : HandlerStep(c) \/ PeerStep(c)
    BY <1>4
  <2>2. CASE Locked(c)
    BY <2>2, LockedIds DEF Locked, Threads
  <2> QED
    BY <2>1, <2>2, HandlerIds, PeerIds DEF HandlerStep, PeerStep
<1> QED
  BY <1>1, <1>2, <1>3, <1>4 DEF Next

\* Up to the IdSpace-th connection, whoever is served is registered: no handler
\* erases the client of another one.
THEOREM ServedClientsAreRegistered == Spec => []ServedIsRegistered
<1>1. IdInv => ServedIsRegistered
  BY DEF IdInv, Served, ServedIsRegistered
<1> QED
  BY <1>1, InitIds, NextIds, PTL DEF Spec

-------------------------------------------------------------------------------
(* What the server writes.  Most steps leave the clients, the lock and the  *)
(* streams aside.                                                           *)

\* The places of a thread that is about to send a list.
Announcing == {"idhdr", "idbody", "notify"}

\* What such a step does to the rest.
Aside ==
  /\ UNCHANGED <<out, clients, mutex, sending, todo, hdrSent, id, seat, accepted, accConn, order>>
  /\ \A c \in Conns : peer'[c] = "open" => peer[c] = "open" \/ seat[c] = 0
  /\ \A c \in Conns : peer[c] = "closed" => peer'[c] = "closed"
  /\ \A t \in Threads : /\ pc'[t] \in Announcing <=> pc[t] \in Announcing
                        /\ pc'[t] = "register" <=> pc[t] = "register"
  /\ \A c \in Conns : /\ pc'[c] = "none" <=> pc[c] = "none"
                      /\ pc'[c] = "bcast" => IF pc[c] = "bcast" THEN taken'[c] = taken[c]
                                                                ELSE taken'[c] = taken[c] + 1
                      /\ pc'[c] # "bcast" => pc[c] # "bcast" /\ taken'[c] = taken[c]

\* The steps of start() and stop(), of the loops, of reading and of the peers.
AsideStep ==
  \/ Start \/ StartFails \/ Stop \/ AcceptLoop \/ AcceptFails \/ UNCHANGED vars
  \/ \E c \in Conns : HandlerLoop(c) \/ Recv(c) \/ RecvFails(c) \/ Close(c) \/ PeerStep(c)

\* They leave what was written, and who is to be written to, as it was.
LEMMA AsideSteps == ASSUME IndInv, AsideStep PROVE Aside
<1> USE ServerAssumption DEF Goto, Announcing, Threads, acceptVars, lockVars, runVars, peerVars
<1>0. TypeOK /\ Places /\ Waiting
  BY DEF IndInv
<1>1. CASE Start
  <2>1. /\ \A c \in Conns : pc'[c] = pc[c]
        /\ pc'[Acceptor] = pc[Acceptor] \/ (pc[Acceptor] \in {"none", "done"} /\ pc'[Acceptor] = "loop")
    BY <1>0, <1>1 DEF Start, TypeOK
  <2> QED BY <1>1, <2>1 DEF Start, Aside
<1>2. CASE StartFails
  BY <1>2 DEF StartFails, Aside
<1>3. CASE Stop
  BY <1>0, <1>3 DEF Stop, Aside, TypeOK
<1>4. CASE AcceptLoop
  BY <1>0, <1>4 DEF AcceptLoop, Aside, TypeOK
<1>5. CASE AcceptFails
  BY <1>0, <1>5 DEF AcceptFails, Aside, TypeOK
<1>6. ASSUME NEW c \in Conns, HandlerLoop(c) PROVE Aside
  BY <1>0, <1>6 DEF HandlerLoop, Aside, TypeOK
<1>7. ASSUME NEW c \in Conns, Recv(c) PROVE Aside
  BY <1>0, <1>7 DEF Recv, Aside, TypeOK
<1>8. ASSUME NEW c \in Conns, RecvFails(c) PROVE Aside
  BY <1>0, <1>8 DEF RecvFails, Break, Aside, TypeOK
<1>9. ASSUME NEW c \in Conns, Close(c) PROVE Aside
  BY <1>0, <1>9 DEF Close, Aside, TypeOK
<1>10. ASSUME NEW c \in Conns, PeerStep(c) PROVE Aside
  <2>1. CASE Connect(c)
    BY <1>0, <2>1 DEF Connect, Aside, TypeOK, Waiting
  <2>2. CASE PeerSend(c)
    BY <2>2 DEF PeerSend, Aside
  <2>3. CASE PeerClose(c)
    BY <1>0, <2>3 DEF PeerClose, Aside, TypeOK
  <2>4. CASE Stall(c) \/ Resume(c)
    BY <2>4 DEF Stall, Resume, Aside
  <2> QED BY <1>10, <2>1, <2>2, <2>3, <2>4 DEF PeerStep
<1>11. CASE UNCHANGED vars
  BY <1>11 DEF vars, Aside
<1> QED BY <1>1, <1>2, <1>3, <1>4, <1>5, <1>6, <1>7, <1>8, <1>9, <1>10, <1>11 DEF AsideStep

\* The other steps, each by itself.
LEMMA StepsAreThese ==
  ASSUME [Next]_vars
  PROVE  \/ AsideStep \/ Register \/ SendIdHdr \/ SendIdBody
         \/ \E c \in Conns : Accept(c) \/ BcastLock(c) \/ Erase(c)
         \/ \E t \in Threads : Locked(t)
<1>1. CASE UNCHANGED vars \/ Start \/ StartFails \/ Stop
  BY <1>1 DEF AsideStep
<1>2. CASE AcceptorStep
  BY <1>2 DEF AcceptorStep, AsideStep, Threads
<1>3. CASE \E c \in Conns : HandlerStep(c) \/ PeerStep(c)
  BY <1>3 DEF HandlerStep, AsideStep, Threads
<1> QED BY <1>1, <1>2, <1>3 DEF Next

-------------------------------------------------------------------------------
(* Places in a stream, and the last of them.                                *)

\* A place after all the others becomes the last one, and leaves what was before
\* the others as it was.
LEMMA NewLast ==
  ASSUME NEW S, S \subseteq Nat, NEW n \in Nat, \A i \in S : i < n
  PROVE  /\ IsLast(n, S \cup {n}) /\ \A j : IsLast(j, S \cup {n}) => j = n
         /\ Earlier(S \cup {n}, n) = S /\ Earlier(S, n) = S
         /\ \A i \in S : Earlier(S \cup {n}, i) = Earlier(S, i)
         /\ n \notin S
<1>1. \A i \in S : i \in Nat /\ i < n /\ i <= n /\ ~(n <= i) /\ ~(n < i)
  OBVIOUS
<1>2. n <= n /\ ~(n < n) /\ n \notin S
  BY <1>1
<1>3. IsLast(n, S \cup {n})
  BY <1>1, <1>2 DEF IsLast
<1>4. \A j : IsLast(j, S \cup {n}) => j = n
  BY <1>1 DEF IsLast
<1>5. Earlier(S \cup {n}, n) = S /\ Earlier(S, n) = S
  BY <1>1, <1>2 DEF Earlier
<1>6. \A i \in S : Earlier(S \cup {n}, i) = Earlier(S, i)
  BY <1>1 DEF Earlier
<1> QED BY <1>2, <1>3, <1>4, <1>5, <1>6

\* There is only one last place.
LEMMA OneLast ==
  ASSUME NEW S, S \subseteq Nat, NEW i, NEW j, IsLast(i, S), IsLast(j, S)
  PROVE  i = j
<1>1. i \in Nat /\ j \in Nat /\ i <= j /\ j <= i
  BY DEF IsLast
<1> QED BY <1>1

\* What send() does to the streams: a chunk at a new last place of one of them.
WrittenTo(c, n, x) ==
  /\ \A d \in Conns : d # c => out'[d] = out[d]
  /\ n \in Nat /\ \A i \in DOMAIN out[c] : i \in Nat /\ i < n /\ out'[c][i] = out[c][i]
  /\ DOMAIN out'[c] = DOMAIN out[c] \cup {n}
  /\ out'[c][n] = x

\* A send() writes one chunk to the end of a stream, or nothing to a closed one.
LEMMA Written ==
  ASSUME TypeOK, NEW c \in Conns, NEW part \in {"hdr", "body"}, NEW m \in Messages, Send(c, part, m)
  PROVE  /\ peer[c] # "open" => out' = out
         /\ peer[c] = "open" => WrittenTo(c, Len(out[c]) + 1, Chunk(part, m))
<1>1. out[c] \in Seq(Chunks) /\ Chunk(part, m) \in Chunks
  BY DEF TypeOK, Chunk, Chunks
<1>2. CASE peer[c] = "open"
  <2>1. out' = [out EXCEPT ![c] = Append(out[c], Chunk(part, m))]
    BY <1>2 DEF Send
  <2>2. out'[c] = Append(out[c], Chunk(part, m)) /\ \A d \in Conns : d # c => out'[d] = out[d]
    BY <2>1 DEF TypeOK
  <2>3. Len(out[c]) \in Nat /\ DOMAIN out[c] = 1 .. Len(out[c])
    BY <1>1
  <2>4. /\ DOMAIN Append(out[c], Chunk(part, m)) = 1 .. Len(out[c]) + 1
        /\ Append(out[c], Chunk(part, m))[Len(out[c]) + 1] = Chunk(part, m)
        /\ \A i \in 1 .. Len(out[c]) : Append(out[c], Chunk(part, m))[i] = out[c][i]
    BY <1>1
  <2>5. 1 .. Len(out[c]) + 1 = (1 .. Len(out[c])) \cup {Len(out[c]) + 1}
    BY <2>3
  <2> QED BY <1>2, <2>2, <2>3, <2>4, <2>5 DEF WrittenTo
<1>3. CASE peer[c] # "open"
  BY <1>3 DEF Send
<1> QED BY <1>2, <1>3

\* The places of what was written under the lock and of the bodies, after that.
LEMMA WrittenPlaces ==
  ASSUME NEW c \in Conns, NEW n, NEW part \in {"hdr", "body"}, NEW m, WrittenTo(c, n, Chunk(part, m))
  PROVE  /\ \A d \in Conns : d # c => /\ LockedAt(d)' = LockedAt(d)
                                      /\ \A type : BodiesAt(type, d)' = BodiesAt(type, d)
         /\ LockedAt(c)' = IF m.type = "ID" THEN LockedAt(c) ELSE LockedAt(c) \cup {n}
         /\ \A type : BodiesAt(type, c)' = IF part = "body" /\ m.type = type
                                           THEN BodiesAt(type, c) \cup {n} ELSE BodiesAt(type, c)
         /\ n \in Nat /\ \A i \in DOMAIN out[c] : i \in Nat /\ i < n
<1> USE DEF WrittenTo, LockedAt, BodiesAt, Chunk
<1>1. n \notin DOMAIN out[c]
  OBVIOUS
<1>2. \A d \in Conns : d # c => /\ LockedAt(d)' = LockedAt(d)
                                /\ \A type : BodiesAt(type, d)' = BodiesAt(type, d)
  OBVIOUS
<1>3. LockedAt(c)' = IF m.type = "ID" THEN LockedAt(c) ELSE LockedAt(c) \cup {n}
  BY <1>1
<1>4. ASSUME NEW type
      PROVE  BodiesAt(type, c)' = IF part = "body" /\ m.type = type
                                  THEN BodiesAt(type, c) \cup {n} ELSE BodiesAt(type, c)
  BY <1>1
<1> QED BY <1>2, <1>3, <1>4

\* The greeting adds neither to the lists nor to the game messages.
LEMMA GreetingPlaces ==
  ASSUME NEW c \in Conns, NEW n, NEW part, NEW m, WrittenTo(c, n, Chunk(part, m)), m.type = "ID"
  PROVE  \A d \in Conns : \A type \in {"LIST", "GAME"} : BodiesAt(type, d)' = BodiesAt(type, d)
<1> SUFFICES ASSUME NEW d \in Conns, NEW type \in {"LIST", "GAME"}
             PROVE  BodiesAt(type, d)' = BodiesAt(type, d)
  OBVIOUS
<1>1. CASE d # c
  BY <1>1 DEF WrittenTo, BodiesAt
<1>2. CASE d = c
  <2>1. out'[c][n].msg.type # type
    BY DEF WrittenTo, Chunk
  <2> QED BY <1>2, <2>1 DEF WrittenTo, BodiesAt
<1> QED BY <1>1, <1>2

-------------------------------------------------------------------------------
(* The first of the recipients that are left.                               *)

\* A set of numbers that is not empty has a least element.
LEMMA LeastNatural ==
  ASSUME NEW T, T \subseteq Nat, T # {}
  PROVE  \E m \in T : \A k \in T : m <= k
<1> DEFINE U == {1 .. k : k \in T}
<1>1. U # {} /\ U \subseteq FiniteSubsetsOf(Nat)
  <2>1. \A k \in T : 1 .. k \subseteq Nat /\ IsFiniteSet(1 .. k)
    BY FS_Interval
  <2> QED BY <2>1 DEF FiniteSubsetsOf
<1>2. IsWellFoundedOn(StrictSubsetOrdering(Nat), FiniteSubsetsOf(Nat))
  BY FS_StrictSubsetOrderingWellFounded
<1> HIDE DEF U
<1>3. PICK x \in U : \A y \in U : ~(<<y, x>> \in StrictSubsetOrdering(Nat))
  BY <1>1, <1>2, WFMin
<1>4. PICK m \in T : x = 1 .. m
  BY <1>3 DEF U
<1>5. ASSUME NEW k \in T, k < m PROVE FALSE
  <2>1. 1 .. k \subseteq 1 .. m /\ m \in 1 .. m /\ m \notin 1 .. k
    BY <1>5
  <2>2. <<1 .. k, 1 .. m>> \in StrictSubsetOrdering(Nat)
    BY <2>1 DEF StrictSubsetOrdering
  <2>3. 1 .. k \in U
    BY DEF U
  <2> QED BY <1>3, <1>4, <2>2, <2>3
<1> QED BY <1>5

\* The first of the clients that are left is one of them.
LEMMA FirstIsLeft ==
  ASSUME NEW S \in SUBSET Conns, S # {}, seat \in [Conns -> Nat]
  PROVE  First(S) \in S
<1> DEFINE T == {seat[c] : c \in S}
<1>1. T \subseteq Nat /\ T # {}
  OBVIOUS
<1>2. PICK m \in T : \A k \in T : m <= k
  BY <1>1, LeastNatural
<1>3. \E c \in S : \A d \in S : seat[c] <= seat[d]
  BY <1>2
<1> QED BY <1>3 DEF First

\* It stays the first as long as none of them gets another seat.
LEMMA FirstKept ==
  ASSUME UNCHANGED todo, \A d \in todo : seat'[d] = seat[d]
  PROVE  First(todo)' = First(todo)
<1>1. (CHOOSE c \in todo : \A d \in todo : seat'[c] <= seat'[d])
        = (CHOOSE c \in todo : \A d \in todo : seat[c] <= seat[d])
  OBVIOUS
<1> QED BY <1>1 DEF First

\* Whoever sends has somebody to send to, and a message to send.
LEMMA SendingTo ==
  ASSUME IndInv, NEW t \in Threads, SendHdr(t) \/ SendBody(t)
  PROVE  /\ First(todo) \in todo /\ First(todo) \in clients /\ First(todo) \in Conns
         /\ mutex = t /\ mutex # None /\ sending \in Messages
<1>1. todo # {} /\ mutex = t /\ mutex # None /\ todo \subseteq clients /\ sending \in Messages
  BY ServerAssumption DEF IndInv, Locking, SendHdr, SendBody, Threads
<1>2. todo \in SUBSET Conns /\ seat \in [Conns -> Nat] /\ clients \subseteq Conns
  BY DEF IndInv, TypeOK
<1> QED BY <1>1, <1>2, FirstIsLeft

-------------------------------------------------------------------------------
(* What is being sent, as long as the lock is held.                         *)

Composing ==
  mutex # None =>
    \/ sending.type = "LIST" /\ sending.ids = ClientIds(clients)
    \/ /\ sending.type = "GAME" /\ mutex \in Conns /\ mutex \notin todo
       /\ sending = GameMsg(id[mutex], mutex, taken[mutex])

\* The list or the message is composed under the lock, and while it is held
\* nobody is registered or erased.
LEMMA ComposingStep == IndInv /\ IndInv' /\ Composing /\ [Next]_vars => Composing'
<1> SUFFICES ASSUME IndInv, IndInv', Composing, [Next]_vars PROVE Composing'
  OBVIOUS
<1> USE ServerAssumption DEF Composing
<1>a. TypeOK /\ Locking /\ Waiting /\ TypeOK' /\ Locking'
  BY DEF IndInv
<1>b. CASE Aside
  <2>1. mutex \in Conns => pc'[mutex] = "sending"
    BY <1>a, <1>b DEF Aside, Locking, Threads
  <2>2. ClientIds(clients)' = ClientIds(clients)
    BY <1>b DEF Aside, ClientIds
  <2> QED BY <1>b, <2>1, <2>2 DEF Aside, GameMsg
<1>1. CASE AsideStep
  BY <1>1, <1>b, AsideSteps
<1>2. ASSUME NEW c \in Conns, Accept(c) PROVE Composing'
  <2>1. c \notin clients /\ pc[c] = "none" /\ id' = [id EXCEPT ![c] = nextClientID]
        /\ UNCHANGED <<mutex, sending, todo, clients, taken>>
    BY <1>2, <1>a DEF Accept, Waiting, lockVars, TypeOK
  <2>2. mutex # c
    BY <1>a, <2>1 DEF Locking, Threads
  <2>3. ClientIds(clients)' = ClientIds(clients)
    <3>1. \A d \in clients : id'[d] = id[d]
      BY <1>a, <2>1 DEF TypeOK
    <3> QED BY <2>1, <3>1 DEF ClientIds
  <2> QED BY <1>a, <2>1, <2>2, <2>3 DEF TypeOK, GameMsg
<1>3. ASSUME NEW c \in Conns, BcastLock(c) PROVE Composing'
  BY <1>3 DEF BcastLock, GameMsg, Recipients, acceptVars
<1>4. CASE Register \/ \E c \in Conns : Erase(c)
  BY <1>4 DEF Register, Erase, LockFree, lockVars
<1>5. CASE SendIdHdr \/ SendIdBody
  BY <1>5 DEF SendIdHdr, SendIdBody, acceptVars, lockVars, ClientIds, GameMsg
<1>6. ASSUME NEW t \in Threads, NotifyLock(t) PROVE Composing'
  BY <1>6 DEF NotifyLock, ListMsg, acceptVars, ClientIds
<1>7. ASSUME NEW t \in Threads, SendHdr(t) \/ SendBody(t) PROVE Composing'
  <2>1. UNCHANGED <<mutex, sending, clients, id, taken>> /\ todo' \subseteq todo
    BY <1>7 DEF SendHdr, SendBody, acceptVars
  <2>2. ClientIds(clients)' = ClientIds(clients)
    BY <2>1 DEF ClientIds
  <2> QED BY <2>1, <2>2 DEF GameMsg
<1>8. ASSUME NEW t \in Threads, Unlock(t) PROVE Composing'
  BY <1>8 DEF Unlock, Release
<1> QED BY <1>1, <1>2, <1>3, <1>4, <1>5, <1>6, <1>7, <1>8, StepsAreThese DEF Locked

-------------------------------------------------------------------------------
(* The frames of a stream.                                                  *)

\* LockedFramesIntact, for one connection.
IntactAt(c) ==
  \A i \in LockedAt(c) :
    LET before == Earlier(LockedAt(c), i)
    IN IF out[c][i].part = "hdr"
       THEN \A j \in before : IsLast(j, before) => out[c][j].part = "body"
       ELSE \E j \in before : IsLast(j, before) /\ out[c][j] = Chunk("hdr", out[c][i].msg)

\* A stream that is written to ends, as far as the lock is concerned, with the
\* size of the message being sent, if it is the turn of its client, and with the
\* bytes of some message if not.
Ending(c) ==
  IF hdrSent /\ c = First(todo)
  THEN \E j \in LockedAt(c) : IsLast(j, LockedAt(c)) /\ out[c][j] = Chunk("hdr", sending)
  ELSE \A j \in LockedAt(c) : IsLast(j, LockedAt(c)) => out[c][j].part = "body"

Frames ==
  \A c \in Conns : /\ IntactAt(c)
                   /\ seat[c] = 0 => out[c] = <<>>
                   /\ peer[c] = "open" => Ending(c)

\* Nothing was written, and what is to be written next is the same.
LEMMA FramesKept ==
  ASSUME Frames, IndInv, out' = out,
         \A c \in Conns : peer'[c] = "open" => peer[c] = "open" \/ seat[c] = 0,
         \A c \in Conns : seat'[c] = 0 => seat[c] = 0,
         \/ ~hdrSent /\ ~hdrSent'
         \/ UNCHANGED <<hdrSent, sending>> /\ First(todo)' = First(todo)
  PROVE  Frames'
<1> SUFFICES ASSUME NEW c \in Conns
             PROVE  /\ IntactAt(c)'
                    /\ seat'[c] = 0 => out'[c] = <<>>
                    /\ peer'[c] = "open" => Ending(c)'
  BY DEF Frames
<1>1. LockedAt(c)' = LockedAt(c)
  BY DEF LockedAt
<1>2. IntactAt(c)'
  BY <1>1 DEF Frames, IntactAt
<1>3. seat'[c] = 0 => out'[c] = <<>>
  BY DEF Frames
<1>4. ASSUME peer'[c] = "open" PROVE Ending(c)'
  <2>1. CASE peer[c] = "open"
    BY <1>1, <2>1 DEF Frames, Ending
  <2>2. CASE seat[c] = 0
    <3>1. LockedAt(c) = {}
      BY <2>2 DEF Frames, LockedAt
    <3>2. hdrSent => c # First(todo)
      <4>1. hdrSent => First(todo) \in clients
        BY FirstIsLeft DEF IndInv, Locking, TypeOK
      <4> QED BY <2>2, <4>1 DEF IndInv, Waiting
    <3>3. ~(hdrSent' /\ c = First(todo)')
      BY <3>2
    <3> QED BY <1>1, <3>1, <3>3 DEF Ending
  <2> QED BY <1>4, <2>1, <2>2
<1> QED BY <1>2, <1>3, <1>4

\* A chunk that goes after the others leaves their frames as they were.
LEMMA EarlierFrames ==
  ASSUME NEW c \in Conns, NEW n, NEW x, WrittenTo(c, n, x), IntactAt(c),
         LockedAt(c)' = LockedAt(c) \/ LockedAt(c)' = LockedAt(c) \cup {n}
  PROVE  \A i \in LockedAt(c) :
           LET before == Earlier(LockedAt(c)', i)
           IN IF out'[c][i].part = "hdr"
              THEN \A j \in before : IsLast(j, before) => out'[c][j].part = "body"
              ELSE \E j \in before : IsLast(j, before) /\ out'[c][j] = Chunk("hdr", out'[c][i].msg)
<1> TAKE i \in LockedAt(c)
<1>1. LockedAt(c) \subseteq Nat /\ n \in Nat /\ \A j \in LockedAt(c) : j < n /\ out'[c][j] = out[c][j]
  BY DEF WrittenTo, LockedAt
<1>2. Earlier(LockedAt(c)', i) = Earlier(LockedAt(c), i)
  <2>1. Earlier(LockedAt(c) \cup {n}, i) = Earlier(LockedAt(c), i)
    <3>1. ~(n < i)
      BY <1>1
    <3> QED BY <3>1 DEF Earlier
  <2> QED BY <2>1
<1>3. Earlier(LockedAt(c), i) \subseteq LockedAt(c)
  BY DEF Earlier
<1> QED BY <1>1, <1>2, <1>3 DEF IntactAt

\* A write without the lock, of the greeting, leaves the frames alone.
LEMMA GreetingFrames ==
  ASSUME Frames, NEW c \in Conns, NEW n, NEW part \in {"hdr", "body"}, NEW m, m.type = "ID",
         WrittenTo(c, n, Chunk(part, m)), seat[c] # 0,
         UNCHANGED <<todo, sending, hdrSent, peer, seat>>
  PROVE  Frames'
<1>1. /\ \A d \in Conns : LockedAt(d)' = LockedAt(d)
      /\ \A d \in Conns : \A i \in LockedAt(d) : out'[d][i] = out[d][i]
  <2>1. \A d \in Conns : LockedAt(d)' = LockedAt(d)
    BY WrittenPlaces
  <2> QED BY <2>1 DEF WrittenTo, LockedAt
<1>2. First(todo)' = First(todo)
  BY FirstKept
<1> SUFFICES ASSUME NEW d \in Conns
             PROVE  /\ IntactAt(d)'
                    /\ seat'[d] = 0 => out'[d] = <<>>
                    /\ peer'[d] = "open" => Ending(d)'
  BY DEF Frames
<1>3. IntactAt(d)'
  <2>1. \A i \in LockedAt(d) : Earlier(LockedAt(d), i) \subseteq LockedAt(d)
    BY DEF Earlier
  <2> QED BY <1>1, <2>1 DEF Frames, IntactAt
<1>4. seat'[d] = 0 => out'[d] = <<>>
  BY DEF Frames, WrittenTo
<1>5. peer'[d] = "open" => Ending(d)'
  BY <1>1, <1>2 DEF Frames, Ending, IsLast
<1> QED BY <1>3, <1>4, <1>5

\* A write under the lock keeps the frames if the stream goes on as it should.
LEMMA LockedWrite ==
  ASSUME Frames, NEW c \in Conns, NEW n, NEW part \in {"hdr", "body"}, NEW m, m.type # "ID",
         WrittenTo(c, n, Chunk(part, m)), seat[c] # 0, UNCHANGED <<peer, seat>>,
         IF part = "hdr"
         THEN \A j \in LockedAt(c) : IsLast(j, LockedAt(c)) => out[c][j].part = "body"
         ELSE \E j \in LockedAt(c) : IsLast(j, LockedAt(c)) /\ out[c][j] = Chunk("hdr", m),
         Ending(c)',
         \A d \in Conns : d # c => (peer[d] = "open" => Ending(d)')
  PROVE  Frames'
<1>1. /\ \A d \in Conns : d # c => out'[d] = out[d] /\ LockedAt(d)' = LockedAt(d)
      /\ LockedAt(c)' = LockedAt(c) \cup {n}
  BY WrittenPlaces DEF WrittenTo
<1> SUFFICES ASSUME NEW d \in Conns
             PROVE  /\ IntactAt(d)'
                    /\ seat'[d] = 0 => out'[d] = <<>>
                    /\ peer'[d] = "open" => Ending(d)'
  BY DEF Frames
<1>2. CASE d # c
  <2>1. IntactAt(d)'
    BY <1>1, <1>2 DEF Frames, IntactAt
  <2> QED BY <1>1, <1>2, <2>1 DEF Frames
<1>3. CASE d = c
  <2>0. IntactAt(c)
    BY DEF Frames
  <2>1. /\ LockedAt(c) \subseteq Nat /\ n \in Nat
        /\ \A j \in LockedAt(c) : j < n /\ out'[c][j] = out[c][j]
        /\ out'[c][n] = Chunk(part, m)
    BY DEF WrittenTo, LockedAt
  <2>2. Earlier(LockedAt(c)', n) = LockedAt(c)
    <3>1. \A j \in LockedAt(c) : j < n
      BY <2>1
    <3>2. ~(n < n)
      BY <2>1
    <3> QED BY <1>1, <3>1, <3>2 DEF Earlier
  <2>3. IntactAt(c)'
    <3>1. ASSUME NEW i \in LockedAt(c)
          PROVE  LET before == Earlier(LockedAt(c)', i)
                 IN IF out'[c][i].part = "hdr"
                    THEN \A j \in before : IsLast(j, before) => out'[c][j].part = "body"
                    ELSE \E j \in before : IsLast(j, before) /\ out'[c][j] = Chunk("hdr", out'[c][i].msg)
      BY <1>1, <2>0, EarlierFrames
    <3>2. LET before == Earlier(LockedAt(c)', n)
          IN IF out'[c][n].part = "hdr"
             THEN \A j \in before : IsLast(j, before) => out'[c][j].part = "body"
             ELSE \E j \in before : IsLast(j, before) /\ out'[c][j] = Chunk("hdr", out'[c][n].msg)
      BY <2>1, <2>2 DEF Chunk
    <3> QED BY <1>1, <3>1, <3>2 DEF IntactAt
  <2> QED BY <1>3, <2>3
<1> QED BY <1>2, <1>3

\* The size goes after the bytes of something else, and the bytes after their size.
LEMMA SendFrames ==
  ASSUME IndInv, Frames, Composing, NEW t \in Threads, SendHdr(t) \/ SendBody(t) PROVE Frames'
<1>0. PICK c \in Conns : c = First(todo)
  BY SendingTo
<1>1. c \in todo /\ c \in clients /\ sending \in Messages /\ sending.type # "ID"
  BY <1>0, SendingTo DEF Composing
<1>t. PICK part \in {"hdr", "body"} : part = IF hdrSent THEN "body" ELSE "hdr"
  BY Zenon
<1>2. /\ Send(c, part, sending) /\ hdrSent \in BOOLEAN /\ hdrSent' = ~hdrSent
      /\ IF hdrSent THEN todo' = todo \ {c} ELSE todo' = todo
      /\ UNCHANGED <<sending, peer, seat>>
  BY <1>0, <1>t DEF SendHdr, SendBody, acceptVars, peerVars, IndInv, TypeOK
<1>3. hdrSent' => First(todo)' = c
  BY <1>0, <1>2, FirstKept
<1>4. seat[c] # 0
  BY <1>1 DEF IndInv, Waiting
<1>5. \A d \in Conns : d # c /\ peer[d] = "open" =>
        \A j \in LockedAt(d) : IsLast(j, LockedAt(d)) => out[d][j].part = "body"
  BY <1>0 DEF Frames, Ending
<1>6. CASE peer[c] = "open"
  <2>1. PICK n : WrittenTo(c, n, Chunk(part, sending))
    BY <1>1, <1>2, <1>6, Written DEF IndInv
  <2>2. /\ \A d \in Conns : d # c => out'[d] = out[d] /\ LockedAt(d)' = LockedAt(d)
        /\ LockedAt(c)' = LockedAt(c) \cup {n}
    BY <1>1, <1>2, <2>1, WrittenPlaces DEF WrittenTo
  <2>3. /\ out'[c][n] = Chunk(part, sending)
        /\ \A j : IsLast(j, LockedAt(c) \cup {n}) => j = n
        /\ IsLast(n, LockedAt(c) \cup {n})
    <3>1. n \in Nat /\ \A i \in LockedAt(c) : i \in Nat /\ i < n
      BY <2>1 DEF WrittenTo, LockedAt
    <3> QED BY <2>1, <3>1, NewLast DEF WrittenTo
  <2>4. Ending(c)'
    <3>1. CASE hdrSent
      <4>1. ~hdrSent' /\ out'[c][n].part = "body"
        <5>1. part = "body" /\ ~hdrSent'
          BY <1>t, <1>2, <3>1
        <5> QED BY <2>3, <5>1 DEF Chunk
      <4> QED BY <2>2, <2>3, <4>1 DEF Ending
    <3>2. CASE ~hdrSent
      <4>1. out'[c][n] = Chunk("hdr", sending') /\ hdrSent' /\ c = First(todo)'
        BY <1>t, <1>2, <1>3, <2>3, <3>2
      <4>2. n \in LockedAt(c)' /\ IsLast(n, LockedAt(c)')
        BY <2>2, <2>3
      <4> QED BY <4>1, <4>2 DEF Ending
    <3> QED BY <3>1, <3>2
  <2>5. ASSUME NEW d \in Conns, d # c, peer[d] = "open" PROVE Ending(d)'
    BY <1>2, <1>3, <1>5, <2>2, <2>5 DEF Ending
  <2>6. IF part = "hdr"
        THEN \A j \in LockedAt(c) : IsLast(j, LockedAt(c)) => out[c][j].part = "body"
        ELSE \E j \in LockedAt(c) : IsLast(j, LockedAt(c)) /\ out[c][j] = Chunk("hdr", sending)
    BY <1>0, <1>t, <1>1, <1>6 DEF Frames, Ending
  <2> QED BY <1>1, <1>2, <1>4, <2>1, <2>4, <2>5, <2>6, LockedWrite
<1>7. CASE peer[c] # "open"
  <2>1. out' = out
    BY <1>1, <1>2, <1>7, Written DEF IndInv
  <2>2. \A d \in Conns : LockedAt(d)' = LockedAt(d)
    BY <2>1 DEF LockedAt
  <2>3. ASSUME NEW d \in Conns, peer[d] = "open" PROVE Ending(d)'
    BY <1>2, <1>3, <1>5, <1>7, <2>1, <2>2, <2>3 DEF Ending
  <2>4. \A d \in Conns : IntactAt(d)' /\ (seat'[d] = 0 => out'[d] = <<>>)
    BY <1>2, <2>1, <2>2 DEF Frames, IntactAt
  <2> QED BY <1>2, <2>3, <2>4 DEF Frames
<1> QED BY <1>6, <1>7

\* Every step keeps the frames.
LEMMA FramesStep == IndInv /\ IndInv' /\ Composing /\ Frames /\ [Next]_vars => Frames'
<1> SUFFICES ASSUME IndInv, IndInv', Composing, Frames, [Next]_vars PROVE Frames'
  OBVIOUS
<1>a. TypeOK /\ Places /\ Locking /\ Waiting
  BY DEF IndInv
<1>b. mutex = None => ~hdrSent
  BY <1>a DEF Locking
<1>1. CASE AsideStep
  <2>1. Aside
    BY <1>1, AsideSteps
  <2>2. First(todo)' = First(todo)
    BY <2>1, FirstKept DEF Aside
  <2> QED BY <2>1, <2>2, FramesKept DEF Aside
<1>2. ASSUME NEW c \in Conns, Accept(c) PROVE Frames'
  <2>1. /\ c \notin todo /\ UNCHANGED <<todo, hdrSent, sending, out, peer>>
        /\ \A d \in Conns : d # c => seat'[d] = seat[d]
        /\ seat'[c] = accepted + 1 /\ accepted \in Nat
    BY <1>2, <1>a DEF Accept, Waiting, Locking, TypeOK, lockVars, peerVars
  <2>2. First(todo)' = First(todo)
    BY <2>1, <1>a, FirstKept DEF TypeOK
  <2>3. \A d \in Conns : seat'[d] = 0 => seat[d] = 0
    BY <2>1
  <2> QED BY <2>1, <2>2, <2>3, FramesKept
<1>3. CASE Register \/ \E c \in Conns : BcastLock(c) \/ Erase(c)
  <2>1. mutex = None /\ hdrSent' = hdrSent /\ UNCHANGED <<out, peer, seat>>
    BY <1>3 DEF Register, BcastLock, Erase, LockFree, lockVars, acceptVars, peerVars
  <2> QED BY <1>b, <2>1, FramesKept
<1>4. CASE SendIdHdr \/ SendIdBody
  <2>1. /\ accConn \in Conns /\ seat[accConn] # 0 /\ IdMsg(id[accConn]) \in Messages
        /\ IdMsg(id[accConn]).type = "ID"
    BY <1>4, <1>a, GreetingType DEF SendIdHdr, SendIdBody, Places, Waiting, BusyPlaces, IdMsg
  <2>2. PICK part \in {"hdr", "body"} : Send(accConn, part, IdMsg(id[accConn]))
    BY <1>4 DEF SendIdHdr, SendIdBody
  <2>3. UNCHANGED <<todo, sending, hdrSent, peer, seat>>
    BY <1>4 DEF SendIdHdr, SendIdBody, lockVars, acceptVars, peerVars
  <2>4. CASE peer[accConn] = "open"
    <3>1. PICK n : WrittenTo(accConn, n, Chunk(part, IdMsg(id[accConn])))
      BY <1>a, <2>1, <2>2, <2>4, Written
    <3> QED BY <2>1, <2>2, <2>3, <3>1, GreetingFrames
  <2>5. CASE peer[accConn] # "open"
    <3>1. out' = out
      BY <1>a, <2>1, <2>2, <2>5, Written
    <3> QED BY <2>3, <3>1, FirstKept, FramesKept
  <2> QED BY <2>4, <2>5
<1>5. ASSUME NEW t \in Threads, NotifyLock(t) \/ Unlock(t) PROVE Frames'
  <2>1. ~hdrSent /\ ~hdrSent' /\ UNCHANGED <<out, peer, seat>>
    BY <1>5, <1>a, <1>b DEF NotifyLock, Unlock, LockFree, Locking, acceptVars, peerVars
  <2> QED BY <2>1, FramesKept
<1>6. ASSUME NEW t \in Threads, SendHdr(t) \/ SendBody(t) PROVE Frames'
  BY <1>6, SendFrames
<1> QED BY <1>1, <1>2, <1>3, <1>4, <1>5, <1>6, StepsAreThese DEF Locked

\* It holds when the server starts.
LEMMA InitFrames == Init => Frames /\ Composing
<1> SUFFICES ASSUME Init PROVE Frames /\ Composing
  OBVIOUS
<1>1. Composing
  BY DEF Init, Composing
<1>2. \A c \in Conns : out[c] = <<>> /\ LockedAt(c) = {} /\ peer[c] # "open"
  BY DEF Init, LockedAt
<1>3. Frames
  BY <1>2 DEF Frames, IntactAt
<1> QED BY <1>1, <1>3

\* What the clients are sent under the lock is never torn apart.
THEOREM FramesStayWhole == Spec => []LockedFramesIntact
<1>1. Init => IndInv /\ Composing /\ Frames
  BY InitInv, InitFrames
<1>2. IndInv /\ Composing /\ Frames /\ [Next]_vars => (IndInv /\ Composing /\ Frames)'
  BY NextInv, ComposingStep, FramesStep
<1>3. Frames => LockedFramesIntact
  BY DEF Frames, IntactAt, LockedFramesIntact
<1> QED BY <1>1, <1>2, <1>3, PTL DEF Spec

-------------------------------------------------------------------------------
(* The lists the clients are told.                                          *)

\* The last list c was sent is of the clients of now.
UpToDate(c) == Told(c, ClientIds(clients))

\* While a list is being sent, who is served already is up to date; while none
\* is about to be composed or sent, everybody is.
Telling ==
  mutex # None /\ sending.type = "LIST" =>
    \A c \in clients : peer[c] = "open" /\ c \notin todo => UpToDate(c)

Settled ==
  /\ \A t \in Threads : pc[t] \notin Announcing
  /\ mutex = None \/ sending.type = "GAME"
  => \A c \in clients : peer[c] = "open" => UpToDate(c)

\* The same lists were sent, to the same clients.
SameLists ==
  /\ \A c \in Conns : /\ BodiesAt("LIST", c)' = BodiesAt("LIST", c)
                      /\ \A i \in BodiesAt("LIST", c) : out'[c][i] = out[c][i]
  /\ clients' = clients /\ \A c \in clients : id'[c] = id[c]
  /\ \A c \in clients : peer'[c] = "open" => peer[c] = "open"

\* Who is up to date stays so, when no list is sent and nobody joins or leaves.
LEMMA StillUpToDate ==
  ASSUME SameLists, NEW c \in clients, clients \subseteq Conns, UpToDate(c)
  PROVE  UpToDate(c)'
<1>1. ClientIds(clients)' = ClientIds(clients)
  BY DEF SameLists, ClientIds
<1>2. BodiesAt("LIST", c)' = BodiesAt("LIST", c) /\ \A i \in BodiesAt("LIST", c) : out'[c][i] = out[c][i]
  BY DEF SameLists
<1> QED BY <1>1, <1>2 DEF UpToDate, Told

\* A step that sends no list and announces none.
LEMMA TellingKept ==
  ASSUME SameLists, Telling, Settled, clients \subseteq Conns, UNCHANGED <<mutex, sending, todo>>,
         \A t \in Threads : pc[t] \in Announcing => pc'[t] \in Announcing
  PROVE  Telling' /\ Settled'
<1>1. \A c \in clients : peer'[c] = "open" /\ UpToDate(c) => UpToDate(c)'
  BY StillUpToDate
<1>2. clients' = clients /\ \A c \in clients : peer'[c] = "open" => peer[c] = "open"
  BY DEF SameLists
<1> QED BY <1>1, <1>2 DEF Telling, Settled

\* Every step keeps them.
LEMMA TellingStep ==
  IndInv /\ IndInv' /\ Composing /\ Telling /\ Settled /\ [Next]_vars => Telling' /\ Settled'
<1> SUFFICES ASSUME IndInv, IndInv', Composing, Telling, Settled, [Next]_vars
             PROVE  Telling' /\ Settled'
  OBVIOUS
<1> USE ServerAssumption
<1>a. TypeOK /\ Places /\ Locking /\ Waiting /\ clients \subseteq Conns
  BY DEF IndInv, TypeOK
<1>b. \A c \in Conns : BodiesAt("LIST", c) \subseteq DOMAIN out[c]
  BY DEF BodiesAt
<1>c. out' = out => \A c \in Conns : BodiesAt("LIST", c)' = BodiesAt("LIST", c)
  BY DEF BodiesAt
<1>1. CASE AsideStep
  <2>1. Aside
    BY <1>1, AsideSteps
  <2>2. SameLists
    BY <1>a, <1>c, <2>1 DEF Aside, SameLists, Waiting
  <2> QED BY <1>a, <2>1, <2>2, TellingKept DEF Aside
<1>2. ASSUME NEW c \in Conns, Accept(c) PROVE Telling' /\ Settled'
  <2>1. /\ c \notin clients /\ \A d \in Conns : d # c => id'[d] = id[d]
        /\ UNCHANGED <<out, clients, peer, mutex, sending, todo>>
    BY <1>2, <1>a DEF Accept, Waiting, TypeOK, lockVars, peerVars
  <2>2. SameLists
    BY <1>a, <1>c, <2>1 DEF SameLists
  <2>3. \A t \in Threads : pc[t] \in Announcing => pc'[t] \in Announcing
    BY <1>2, <1>a DEF Accept, Goto, Announcing, TypeOK
  <2> QED BY <1>a, <2>1, <2>2, <2>3, TellingKept
<1>3. CASE Register
  <2>1. mutex' = None /\ pc'[Acceptor] \in Announcing
    BY <1>3, <1>a DEF Register, LockFree, lockVars, Goto, TypeOK, Announcing, Threads
  <2> QED BY <2>1 DEF Telling, Settled, Threads
<1>4. CASE SendIdHdr \/ SendIdBody
  <2>1. PICK c \in Conns : c = accConn /\ IdMsg(id[c]) \in Messages /\ IdMsg(id[c]).type = "ID"
    BY <1>4, <1>a, GreetingType DEF SendIdHdr, SendIdBody, Places, BusyPlaces, IdMsg
  <2>2. PICK part \in {"hdr", "body"} : Send(c, part, IdMsg(id[c]))
    BY <1>4, <2>1 DEF SendIdHdr, SendIdBody
  <2>3. UNCHANGED <<clients, id, peer, mutex, sending, todo>>
    BY <1>4 DEF SendIdHdr, SendIdBody, lockVars, acceptVars, peerVars
  <2>4. \A t \in Threads : pc[t] \in Announcing => pc'[t] \in Announcing
    BY <1>4, <1>a DEF SendIdHdr, SendIdBody, Goto, Announcing, TypeOK
  <2>5. SameLists
    <3>1. CASE peer[c] = "open"
      <4>1. PICK n : WrittenTo(c, n, Chunk(part, IdMsg(id[c])))
        BY <1>a, <2>1, <2>2, <3>1, Written
      <4>2. \A d \in Conns : BodiesAt("LIST", d)' = BodiesAt("LIST", d)
        BY <2>1, <4>1, GreetingPlaces
      <4> QED BY <1>b, <2>3, <4>1, <4>2 DEF SameLists, WrittenTo
    <3>2. CASE peer[c] # "open"
      <4>1. out' = out
        BY <1>a, <2>1, <2>2, <3>2, Written
      <4> QED BY <1>c, <2>3, <4>1 DEF SameLists
    <3> QED BY <3>1, <3>2
  <2> QED BY <1>a, <2>3, <2>4, <2>5, TellingKept
<1>5. ASSUME NEW c \in Conns, BcastLock(c) PROVE Telling' /\ Settled'
  <2>1. /\ mutex = None /\ sending'.type = "GAME" /\ UNCHANGED <<out, clients, id, peer>>
        /\ \A t \in Threads : pc[t] \in Announcing => pc'[t] \in Announcing
    BY <1>5, <1>a DEF BcastLock, LockFree, GameMsg, acceptVars, peerVars, Goto, TypeOK, Announcing
  <2>2. SameLists
    BY <1>c, <2>1 DEF SameLists
  <2>3. \A d \in clients : peer'[d] = "open" /\ UpToDate(d) => UpToDate(d)'
    BY <1>a, <2>2, StillUpToDate
  <2> QED BY <2>1, <2>3 DEF Telling, Settled
<1>6. ASSUME NEW c \in Conns, Erase(c) PROVE Telling' /\ Settled'
  <2>1. mutex' = None /\ pc'[c] \in Announcing
    BY <1>6, <1>a DEF Erase, EraseThen, LockFree, lockVars, Goto, TypeOK, Announcing, Threads
  <2> QED BY <2>1 DEF Telling, Settled, Threads
<1>7. ASSUME NEW t \in Threads, NotifyLock(t) PROVE Telling' /\ Settled'
  <2>1. mutex' = t /\ t # None /\ sending'.type = "LIST" /\ todo' = clients /\ clients' = clients
    BY <1>7 DEF NotifyLock, ListMsg, Threads
  <2> QED BY <2>1 DEF Telling, Settled
<1>8. ASSUME NEW t \in Threads, SendHdr(t) \/ SendBody(t) PROVE Telling' /\ Settled'
  <2>1. PICK c \in Conns : c = First(todo)
    BY <1>8, SendingTo
  <2>2. c \in todo /\ c \in clients /\ sending \in Messages /\ mutex # None
    BY <1>8, <2>1, SendingTo
  <2>3. UNCHANGED <<mutex, sending, clients, id, peer, pc>>
    BY <1>8 DEF SendHdr, SendBody, acceptVars, peerVars
  <2>4. PICK part \in {"hdr", "body"} : /\ Send(c, part, sending)
                                        /\ todo' = IF part = "hdr" THEN todo ELSE todo \ {c}
    BY <1>8, <2>1 DEF SendHdr, SendBody
  <2>5. CASE peer[c] = "open" /\ part = "body" /\ sending.type = "LIST"
    <3>1. PICK n : WrittenTo(c, n, Chunk(part, sending))
      BY <1>a, <2>2, <2>4, <2>5, Written
    <3>2. /\ \A d \in Conns : d # c => out'[d] = out[d] /\ BodiesAt("LIST", d)' = BodiesAt("LIST", d)
          /\ BodiesAt("LIST", c)' = BodiesAt("LIST", c) \cup {n}
      BY <2>5, <3>1, WrittenPlaces DEF WrittenTo
    <3>3. IsLast(n, BodiesAt("LIST", c) \cup {n}) /\ out'[c][n].msg = sending
      <4>1. n \in Nat /\ \A i \in BodiesAt("LIST", c) : i \in Nat /\ i < n
        BY <1>b, <3>1 DEF WrittenTo
      <4>2. n \in Nat /\ BodiesAt("LIST", c) \subseteq Nat /\ \A i \in BodiesAt("LIST", c) : i < n
        BY <4>1
      <4>3. IsLast(n, BodiesAt("LIST", c) \cup {n})
        BY <4>2, NewLast
      <4> QED BY <3>1, <4>3 DEF WrittenTo, Chunk
    <3>4. ClientIds(clients)' = ClientIds(clients) /\ sending.ids = ClientIds(clients)
      BY <2>2, <2>3, <2>5 DEF Composing, ClientIds
    <3>5. UpToDate(c)'
      BY <3>2, <3>3, <3>4 DEF UpToDate, Told
    <3>6. ASSUME NEW d \in clients, d # c, UpToDate(d) PROVE UpToDate(d)'
      BY <1>a, <3>2, <3>4, <3>6 DEF UpToDate, Told
    <3> QED BY <2>2, <2>3, <2>4, <2>5, <3>5, <3>6 DEF Telling, Settled
  <2>6. CASE peer[c] # "open" \/ part = "hdr" \/ sending.type # "LIST"
    <3>1. SameLists
      <4>1. CASE peer[c] = "open"
        <5>1. PICK n : WrittenTo(c, n, Chunk(part, sending))
          BY <1>a, <2>2, <2>4, <4>1, Written
        <5>2. \A d \in Conns : BodiesAt("LIST", d)' = BodiesAt("LIST", d)
          <6>1. ~(part = "body" /\ sending.type = "LIST")
            BY <2>6, <4>1
          <6> QED BY <5>1, <6>1, WrittenPlaces
        <5> QED BY <1>b, <2>3, <5>1, <5>2 DEF SameLists, WrittenTo
      <4>2. CASE peer[c] # "open"
        <5>1. out' = out
          BY <1>a, <2>2, <2>4, <4>2, Written
        <5> QED BY <1>c, <2>3, <5>1 DEF SameLists
      <4> QED BY <4>1, <4>2
    <3>2. \A d \in clients : peer'[d] = "open" /\ UpToDate(d) => UpToDate(d)'
      BY <1>a, <3>1, StillUpToDate
    <3>3. ASSUME sending.type = "LIST" PROVE \A d \in clients : peer[d] = "open" /\ d \notin todo' => d \notin todo
      BY <2>4, <2>6, <3>3
    <3> QED BY <2>3, <3>2, <3>3 DEF Telling, Settled
  <2> QED BY <2>5, <2>6
<1>9. ASSUME NEW t \in Threads, Unlock(t) PROVE Telling' /\ Settled'
  <2>1. /\ mutex' = None /\ mutex # None /\ todo = {} /\ UNCHANGED <<out, clients, id, peer>>
    BY <1>9, <1>a DEF Unlock, Release, Locking, peerVars, Threads
  <2>2. \A u \in Threads : pc[u] \in Announcing => pc'[u] \in Announcing
    BY <1>9, <1>a DEF Unlock, Goto, TypeOK, Announcing, Places, BusyPlaces
  <2>3. SameLists
    BY <1>c, <2>1 DEF SameLists
  <2>4. \A d \in clients : peer'[d] = "open" /\ UpToDate(d) => UpToDate(d)'
    BY <1>a, <2>3, StillUpToDate
  <2>5. sending.type \in {"LIST", "GAME"}
    BY <2>1 DEF Composing
  <2> QED BY <2>1, <2>2, <2>4, <2>5 DEF Telling, Settled
<1> QED BY <1>1, <1>2, <1>3, <1>4, <1>5, <1>6, <1>7, <1>8, <1>9, StepsAreThese DEF Locked

\* Whoever may not know of a change is about to be told.
THEOREM ListsSettle == Spec => []SettledLists
<1>1. Init => IndInv /\ Composing /\ Telling /\ Settled
  BY InitInv, InitFrames DEF Init, Telling, Settled
<1>2. IndInv /\ Composing /\ Telling /\ Settled /\ [Next]_vars
        => (IndInv /\ Composing /\ Telling /\ Settled)'
  BY NextInv, ComposingStep, TellingStep
<1>3. Settled => SettledLists
  BY DEF Settled, SettledLists, NoListPending, Announcing, UpToDate
<1> QED BY <1>1, <1>2, <1>3, PTL DEF Spec

-------------------------------------------------------------------------------
(* Who is on the list a client has.                                         *)

\* A connection that was not registered yet was sent no list.
Unlisted ==
  \A c \in Conns : c \notin clients /\ pc[c] = "none" => BodiesAt("LIST", c) = {}

\* A registered client with a handler is on the last list of every client.
Listed ==
  \A c, r \in clients :
    pc[c] # "none" /\ peer[r] = "open" =>
      \A j \in BodiesAt("LIST", r) : IsLast(j, BodiesAt("LIST", r)) => id[c] \in out[r][j].msg.ids

\* SenderListed for one message of one connection, whose sender was accepted.
ListedWith(r, i) ==
  LET m == out[r][i].msg
      lists == Earlier(BodiesAt("LIST", r), i)
  IN /\ m.from \in Conns /\ seat[m.from] # 0
     /\ m.sender = id[m.from] /\ m.from # r
     /\ \A j \in lists : IsLast(j, lists) => m.sender \in out[r][j].msg.ids

Heard == \A r \in Conns : \A i \in BodiesAt("GAME", r) : ListedWith(r, i)

Known == accepted <= IdSpace => Unlisted /\ Listed /\ Heard

\* The same lists and game messages were sent, and who was accepted keeps its id.
SameBodies ==
  /\ \A c \in Conns : \A type \in {"LIST", "GAME"} :
       /\ BodiesAt(type, c)' = BodiesAt(type, c)
       /\ \A i \in BodiesAt(type, c) : out'[c][i] = out[c][i]
  /\ \A c \in Conns : seat[c] # 0 => seat'[c] # 0 /\ id'[c] = id[c]

\* What was sent was sent from a listed client.
LEMMA HeardKept == ASSUME SameBodies, Heard PROVE Heard'
<1> SUFFICES ASSUME NEW r \in Conns, NEW i \in BodiesAt("GAME", r)' PROVE ListedWith(r, i)'
  BY DEF Heard
<1>1. BodiesAt("LIST", r)' = BodiesAt("LIST", r) /\ \A j \in BodiesAt("LIST", r) : out'[r][j] = out[r][j]
  BY DEF SameBodies
<1>2. i \in BodiesAt("GAME", r) /\ out'[r][i] = out[r][i]
  BY DEF SameBodies
<1>3. ListedWith(r, i)
  BY <1>2 DEF Heard
<1>4. \A j \in Earlier(BodiesAt("LIST", r), i) : j \in BodiesAt("LIST", r)
  BY DEF Earlier
<1> QED BY <1>1, <1>2, <1>3, <1>4 DEF ListedWith, SameBodies

\* A step that sends neither a list nor a message and starts no handler.
LEMMA KnownKept ==
  ASSUME SameBodies, Known, Waiting, clients \subseteq Conns, clients' \subseteq Conns,
         accepted' <= IdSpace => accepted <= IdSpace,
         \A c \in clients' : \/ c \in clients
                             \/ pc'[c] = "none" /\ (accepted <= IdSpace => BodiesAt("LIST", c) = {}),
         accepted <= IdSpace =>
           \A c \in Conns : c \notin clients' /\ pc'[c] = "none" => c \notin clients /\ pc[c] = "none",
         \A c \in Conns : pc'[c] # "none" => pc[c] # "none",
         \A c \in clients : peer'[c] = "open" => peer[c] = "open"
  PROVE  Known'
<1> SUFFICES ASSUME accepted <= IdSpace PROVE Unlisted' /\ Listed' /\ Heard'
  BY DEF Known
<1>0. Unlisted /\ Listed /\ Heard
  BY DEF Known
<1>1. Unlisted'
  BY <1>0 DEF Unlisted, SameBodies
<1>2. Listed'
  <2> SUFFICES ASSUME NEW c \in clients', NEW r \in clients', pc'[c] # "none", peer'[r] = "open",
                      NEW j \in BodiesAt("LIST", r)', IsLast(j, BodiesAt("LIST", r)')
               PROVE  id'[c] \in out'[r][j].msg.ids
    BY DEF Listed
  <2>1. c \in clients /\ pc[c] # "none" /\ seat[c] # 0
    BY DEF Waiting
  <2>2. BodiesAt("LIST", r)' = BodiesAt("LIST", r) /\ out'[r][j] = out[r][j] /\ id'[c] = id[c]
    BY <2>1 DEF SameBodies
  <2>3. r \in clients /\ peer[r] = "open"
    BY <2>2
  <2> QED BY <1>0, <2>1, <2>2, <2>3 DEF Listed
<1> QED BY <1>0, <1>1, <1>2, HeardKept

\* Bytes written to a connection are at a new last place, of their type.
LEMMA BodyPlaces ==
  ASSUME NEW c \in Conns, NEW n, NEW m, WrittenTo(c, n, Chunk("body", m))
  PROVE  \A type : BodiesAt(type, c)' = IF m.type = type THEN BodiesAt(type, c) \cup {n}
                                                        ELSE BodiesAt(type, c)
<1>1. n \notin DOMAIN out[c]
  BY DEF WrittenTo
<1> QED BY <1>1 DEF WrittenTo, BodiesAt, Chunk

\* A new list is of all the registered clients, of those with a handler too.
LEMMA ListSent ==
  ASSUME Unlisted /\ Listed /\ Heard, Waiting, clients \subseteq Conns,
         NEW c \in clients, NEW n, NEW m, m.type = "LIST", m.ids = ClientIds(clients),
         WrittenTo(c, n, Chunk("body", m)), UNCHANGED <<clients, id, seat, pc, peer>>
  PROVE  Unlisted' /\ Listed' /\ Heard'
<1>1. c \in Conns
  OBVIOUS
<1>2. /\ \A d \in Conns : d # c => BodiesAt("LIST", d)' = BodiesAt("LIST", d) /\ out'[d] = out[d]
      /\ \A d \in Conns : BodiesAt("GAME", d)' = BodiesAt("GAME", d)
      /\ BodiesAt("LIST", c)' = BodiesAt("LIST", c) \cup {n}
  <2>1. \A d \in Conns : d # c => \A type : BodiesAt(type, d)' = BodiesAt(type, d)
    BY <1>1, WrittenPlaces
  <2>2. \A type : BodiesAt(type, c)' = IF m.type = type THEN BodiesAt(type, c) \cup {n} ELSE BodiesAt(type, c)
    BY <1>1, BodyPlaces
  <2>3. BodiesAt("LIST", c)' = BodiesAt("LIST", c) \cup {n} /\ BodiesAt("GAME", c)' = BodiesAt("GAME", c)
    BY <2>2
  <2> QED BY <2>1, <2>3 DEF WrittenTo
<1>3. /\ n \in Nat /\ out'[c][n].msg = m
      /\ \A type : /\ BodiesAt(type, c) \subseteq Nat
                   /\ \A i \in BodiesAt(type, c) : i < n /\ out'[c][i] = out[c][i]
  BY DEF WrittenTo, BodiesAt, Chunk
<1>4. Unlisted'
  BY <1>2 DEF Unlisted
<1>5. Listed'
  <2> SUFFICES ASSUME NEW d \in clients, NEW r \in clients, pc[d] # "none", peer[r] = "open",
                      NEW j \in BodiesAt("LIST", r)', IsLast(j, BodiesAt("LIST", r)')
               PROVE  id[d] \in out'[r][j].msg.ids
    BY DEF Listed
  <2>1. CASE r = c
    <3>1. j = n
      <4>1. j \in BodiesAt("LIST", c) \cup {n} /\ IsLast(j, BodiesAt("LIST", c) \cup {n})
        BY <1>2, <2>1
      <4> QED BY <1>3, <4>1 DEF IsLast
    <3> QED BY <1>3, <2>1, <3>1 DEF ClientIds
  <2>2. CASE r # c
    BY <1>2, <2>2 DEF Listed
  <2> QED BY <2>1, <2>2
<1>6. Heard'
  <2> SUFFICES ASSUME NEW r \in Conns, NEW i \in BodiesAt("GAME", r) PROVE ListedWith(r, i)'
    BY <1>2 DEF Heard
  <2>1. ListedWith(r, i)
    BY DEF Heard
  <2>2. /\ out'[r][i] = out[r][i] /\ Earlier(BodiesAt("LIST", r)', i) = Earlier(BodiesAt("LIST", r), i)
        /\ \A j \in Earlier(BodiesAt("LIST", r), i) : out'[r][j] = out[r][j]
    <3>1. CASE r = c
      <4>1. i \in Nat /\ i < n /\ ~(n < i)
        BY <1>3, <3>1
      <4> QED BY <1>2, <1>3, <3>1, <4>1 DEF Earlier
    <3>2. CASE r # c
      BY <1>2, <3>2
    <3> QED BY <3>1, <3>2
  <2> QED BY <2>1, <2>2 DEF ListedWith
<1> QED BY <1>4, <1>5, <1>6

\* A new message is of a listed client, and goes to others.
LEMMA GameSent ==
  ASSUME Unlisted /\ Listed /\ Heard, Waiting, clients \subseteq Conns,
         NEW c \in clients, NEW s \in clients, s # c, pc[s] # "none", peer[c] = "open",
         NEW n, NEW m, m.type = "GAME", m.sender = id[s], m.from = s,
         WrittenTo(c, n, Chunk("body", m)), UNCHANGED <<clients, id, seat, pc, peer>>
  PROVE  Unlisted' /\ Listed' /\ Heard'
<1>1. c \in Conns /\ s \in Conns /\ seat[s] # 0
  BY DEF Waiting
<1>2. /\ \A d \in Conns : d # c => BodiesAt("GAME", d)' = BodiesAt("GAME", d) /\ out'[d] = out[d]
      /\ \A d \in Conns : BodiesAt("LIST", d)' = BodiesAt("LIST", d)
      /\ BodiesAt("GAME", c)' = BodiesAt("GAME", c) \cup {n}
  <2>1. \A d \in Conns : d # c => \A type : BodiesAt(type, d)' = BodiesAt(type, d)
    BY <1>1, WrittenPlaces
  <2>2. \A type : BodiesAt(type, c)' = IF m.type = type THEN BodiesAt(type, c) \cup {n} ELSE BodiesAt(type, c)
    BY <1>1, BodyPlaces
  <2>3. BodiesAt("GAME", c)' = BodiesAt("GAME", c) \cup {n} /\ BodiesAt("LIST", c)' = BodiesAt("LIST", c)
    BY <2>2
  <2> QED BY <2>1, <2>3 DEF WrittenTo
<1>3. /\ n \in Nat /\ out'[c][n].msg = m
      /\ \A type : /\ BodiesAt(type, c) \subseteq Nat
                   /\ \A i \in BodiesAt(type, c) : i < n /\ out'[c][i] = out[c][i]
  BY DEF WrittenTo, BodiesAt, Chunk
<1>4. \A d \in Conns : \A j \in BodiesAt("LIST", d) : out'[d][j] = out[d][j]
  BY <1>2, <1>3
<1>5. Unlisted' /\ Listed'
  BY <1>2, <1>4 DEF Unlisted, Listed
<1>6. Heard'
  <2> SUFFICES ASSUME NEW r \in Conns, NEW i \in BodiesAt("GAME", r)' PROVE ListedWith(r, i)'
    BY DEF Heard
  <2>0. \A j \in Earlier(BodiesAt("LIST", r), i) : j \in BodiesAt("LIST", r)
    BY DEF Earlier
  <2>1. CASE i \in BodiesAt("GAME", r)
    <3>1. ListedWith(r, i) /\ out'[r][i] = out[r][i]
      BY <1>2, <1>3, <2>1 DEF Heard
    <3> QED BY <1>2, <1>4, <2>0, <3>1 DEF ListedWith
  <2>2. CASE r = c /\ i = n
    <3>1. Earlier(BodiesAt("LIST", c), n) = BodiesAt("LIST", c)
      BY <1>3 DEF Earlier
    <3>2. \A j \in BodiesAt("LIST", c) : IsLast(j, BodiesAt("LIST", c)) => id[s] \in out[c][j].msg.ids
      BY DEF Listed
    <3> QED BY <1>1, <1>2, <1>3, <1>4, <2>2, <3>1, <3>2 DEF ListedWith
  <2> QED BY <1>2, <2>1, <2>2
<1> QED BY <1>5, <1>6

\* Every step keeps it.
LEMMA KnownStep ==
  IdInv /\ IdInv' /\ Composing /\ Telling /\ Known /\ [Next]_vars => Known'
<1> SUFFICES ASSUME IdInv, IdInv', Composing, Telling, Known, [Next]_vars PROVE Known'
  OBVIOUS
<1> USE ServerAssumption
<1>a. /\ TypeOK /\ Places /\ Locking /\ Living /\ Waiting /\ Turns /\ Served /\ IndInv
      /\ clients \subseteq Conns /\ clients' \subseteq Conns
  BY DEF IdInv, IndInv, TypeOK
<1>b. \A c \in Conns : \A type : BodiesAt(type, c) \subseteq DOMAIN out[c]
  BY DEF BodiesAt
<1>c. out' = out /\ (\A c \in Conns : seat[c] # 0 => seat'[c] # 0 /\ id'[c] = id[c]) => SameBodies
  BY DEF BodiesAt, SameBodies
<1>1. CASE AsideStep
  <2>1. Aside
    BY <1>1, <1>a, AsideSteps
  <2>2. SameBodies
    BY <1>c, <2>1 DEF Aside
  <2> QED BY <1>a, <2>1, <2>2, KnownKept DEF Aside, Waiting
<1>2. ASSUME NEW c \in Conns, Accept(c) PROVE Known'
  <2>1. /\ c \notin clients /\ seat[c] = 0 /\ \A d \in Conns : d # c => seat'[d] = seat[d] /\ id'[d] = id[d]
        /\ UNCHANGED <<out, clients, peer>> /\ accepted' = accepted + 1 /\ accepted \in Nat
    BY <1>2, <1>a DEF Accept, Waiting, TypeOK, peerVars
  <2>2. \A d \in Conns : pc'[d] = pc[d]
    BY <1>2, <1>a DEF Accept, Goto, TypeOK, Threads
  <2>3. SameBodies
    BY <1>c, <2>1
  <2>4. accepted' <= IdSpace => accepted <= IdSpace
    BY <2>1
  <2> QED BY <1>a, <2>1, <2>2, <2>3, <2>4, KnownKept
<1>3. CASE Register
  <2>1. /\ accConn \in Conns /\ pc[accConn] = "none" /\ clients' = clients \cup {accConn}
        /\ UNCHANGED <<out, accepted, seat, id, peer>>
        /\ \A d \in Conns : pc'[d] = pc[d]
    BY <1>3, <1>a DEF Register, Goto, TypeOK, Threads, acceptVars, peerVars, Places, BusyPlaces
  <2>2. SameBodies
    BY <1>c, <2>1
  <2>3. accConn \in clients \/ (accepted <= IdSpace => BodiesAt("LIST", accConn) = {})
    BY <2>1 DEF Known, Unlisted
  <2> QED BY <1>a, <2>1, <2>2, <2>3, KnownKept
<1>4. CASE SendIdHdr \/ SendIdBody
  <2>1. PICK c \in Conns : c = accConn /\ IdMsg(id[c]) \in Messages /\ IdMsg(id[c]).type = "ID"
    BY <1>4, <1>a, GreetingType DEF SendIdHdr, SendIdBody, Places, BusyPlaces, IdMsg
  <2>2. PICK part \in {"hdr", "body"} : Send(c, part, IdMsg(id[c]))
    BY <1>4, <2>1 DEF SendIdHdr, SendIdBody
  <2>3. /\ UNCHANGED <<clients, accepted, seat, id, peer>>
        /\ \A d \in Conns : pc'[d] = pc[d]
    BY <1>4, <1>a DEF SendIdHdr, SendIdBody, acceptVars, peerVars, Goto, TypeOK, Threads
  <2>4. SameBodies
    <3>1. CASE peer[c] = "open"
      <4>1. PICK n : WrittenTo(c, n, Chunk(part, IdMsg(id[c])))
        BY <1>a, <2>1, <2>2, <3>1, Written
      <4>2. \A d \in Conns : \A type \in {"LIST", "GAME"} : BodiesAt(type, d)' = BodiesAt(type, d)
        BY <2>1, <4>1, GreetingPlaces
      <4> QED BY <1>b, <2>3, <4>1, <4>2 DEF SameBodies, WrittenTo
    <3>2. CASE peer[c] # "open"
      <4>1. out' = out
        BY <1>a, <2>1, <2>2, <3>2, Written
      <4> QED BY <1>c, <2>3, <4>1
    <3> QED BY <3>1, <3>2
  <2> QED BY <1>a, <2>3, <2>4, KnownKept
<1>5. ASSUME NEW c \in Conns, BcastLock(c) PROVE Known'
  <2>1. UNCHANGED <<out, clients, accepted, seat, id, peer>>
    BY <1>5 DEF BcastLock, acceptVars, peerVars
  <2>2. \A d \in Conns : pc'[d] # "none" <=> pc[d] # "none"
    BY <1>5, <1>a DEF BcastLock, Goto, TypeOK, Threads
  <2>3. SameBodies
    BY <1>c, <2>1
  <2> QED BY <1>a, <2>1, <2>2, <2>3, KnownKept
<1>6. ASSUME NEW c \in Conns, Erase(c) PROVE Known'
  <2>1. UNCHANGED <<out, accepted, seat, id, peer>> /\ clients' = {d \in clients : id[d] # id[c]}
    BY <1>6 DEF Erase, acceptVars, peerVars
  <2>2. \A d \in Conns : pc'[d] # "none" <=> pc[d] # "none"
    BY <1>6, <1>a DEF Erase, EraseThen, Goto, TypeOK, Threads
  <2>3. seat[c] # 0 /\ pc[c] # "none"
    BY <1>6, <1>a DEF Erase, Waiting
  <2>4. ASSUME accepted <= IdSpace, NEW d \in Conns, d \notin clients', pc'[d] = "none"
        PROVE  d \notin clients /\ pc[d] = "none"
    <3>1. d # c
      BY <2>2, <2>3, <2>4
    <3>2. d \in clients => seat[d] # 0
      BY <1>a DEF Waiting
    <3> QED BY <2>1, <2>2, <2>3, <2>4, <3>1, <3>2, DistinctIds
  <2>5. SameBodies
    BY <1>c, <2>1
  <2> QED BY <1>a, <2>1, <2>2, <2>4, <2>5, KnownKept
<1>7. ASSUME NEW t \in Threads, NotifyLock(t) PROVE Known'
  <2>1. UNCHANGED <<out, clients, accepted, seat, id, peer>>
    BY <1>7 DEF NotifyLock, acceptVars, peerVars
  <2>2. \A d \in Conns : pc'[d] # "none" <=> pc[d] # "none"
    BY <1>7, <1>a DEF NotifyLock, Goto, TypeOK, Threads
  <2>3. SameBodies
    BY <1>c, <2>1
  <2> QED BY <1>a, <2>1, <2>2, <2>3, KnownKept
<1>8. ASSUME NEW t \in Threads, SendHdr(t) \/ SendBody(t) PROVE Known'
  <2>1. PICK c \in Conns : c = First(todo)
    BY <1>8, <1>a, SendingTo
  <2>2. c \in todo /\ c \in clients /\ sending \in Messages /\ mutex # None /\ mutex = t
    BY <1>8, <1>a, <2>1, SendingTo
  <2>3. UNCHANGED <<clients, accepted, id, seat, peer, pc>>
    BY <1>8 DEF SendHdr, SendBody, acceptVars, peerVars
  <2>4. PICK part \in {"hdr", "body"} : Send(c, part, sending)
    BY <1>8, <2>1 DEF SendHdr, SendBody
  <2>5. CASE peer[c] = "open" /\ part = "body"
    <3>1. PICK n : WrittenTo(c, n, Chunk("body", sending))
      BY <1>a, <2>2, <2>4, <2>5, Written
    <3>2. CASE sending.type = "LIST"
      <4>1. sending.ids = ClientIds(clients)
        BY <2>2, <3>2 DEF Composing
      <4> QED BY <1>a, <2>2, <2>3, <3>1, <3>2, <4>1, ListSent DEF Known
    <3>3. CASE sending.type = "GAME"
      <4> SUFFICES ASSUME accepted <= IdSpace PROVE Unlisted' /\ Listed' /\ Heard'
        BY <2>3 DEF Known
      <4>1. /\ mutex \in Conns /\ mutex # c /\ sending.sender = id[mutex] /\ sending.from = mutex
        BY <2>2, <3>3 DEF Composing, GameMsg
      <4>2. pc[mutex] = "sending"
        BY <1>a, <2>2 DEF Locking
      <4>3. mutex \in clients
        BY <1>a, <3>3, <4>1, <4>2 DEF Served, Serving
      <4>4. PICK s \in clients : s = mutex
        BY <4>3
      <4>5. s # c /\ pc[s] # "none" /\ sending.sender = id[s] /\ sending.from = s
        BY <4>1, <4>2, <4>4
      <4> QED BY <1>a, <2>2, <2>3, <2>5, <3>1, <3>3, <4>5, GameSent DEF Known
    <3> QED BY <2>2, <3>2, <3>3 DEF Composing
  <2>6. CASE ~(peer[c] = "open" /\ part = "body")
    <3>1. SameBodies
      <4>1. CASE peer[c] = "open"
        <5>1. PICK n : WrittenTo(c, n, Chunk("hdr", sending))
          BY <1>a, <2>2, <2>4, <2>6, <4>1, Written
        <5>2. \A d \in Conns : \A type \in {"LIST", "GAME"} : BodiesAt(type, d)' = BodiesAt(type, d)
          BY <5>1, WrittenPlaces
        <5> QED BY <1>b, <2>3, <5>1, <5>2 DEF SameBodies, WrittenTo
      <4>2. CASE peer[c] # "open"
        <5>1. out' = out
          BY <1>a, <2>2, <2>4, <4>2, Written
        <5> QED BY <1>c, <2>3, <5>1
      <4> QED BY <4>1, <4>2
    <3> QED BY <1>a, <2>3, <3>1, KnownKept
  <2> QED BY <2>5, <2>6
<1>9. ASSUME NEW t \in Threads, Unlock(t) PROVE Known'
  <2>1. /\ mutex = t /\ mutex # None /\ todo = {} /\ UNCHANGED <<out, clients, accepted, seat, id, peer>>
    BY <1>9, <1>a DEF Unlock, Locking, peerVars, Threads
  <2>2. SameBodies
    BY <1>c, <2>1
  <2>3. CASE t # Acceptor
    <3>1. \A d \in Conns : pc'[d] # "none" <=> pc[d] # "none"
      BY <1>9, <1>a, <2>3 DEF Unlock, Goto, TypeOK, Threads
    <3> QED BY <1>a, <2>1, <2>2, <3>1, KnownKept
  <2>4. CASE t = Acceptor
    <3> SUFFICES ASSUME accepted <= IdSpace PROVE Unlisted' /\ Listed' /\ Heard'
      BY <2>1 DEF Known
    <3>0. Unlisted /\ Listed /\ Heard
      BY DEF Known
    <3>1. /\ accConn \in Conns /\ \A d \in Conns : d # accConn => pc'[d] = pc[d]
          /\ pc'[accConn] # "none"
      BY <1>9, <1>a, <2>4 DEF Unlock, TypeOK, Threads, Places, BusyPlaces
    <3>2. \A d \in Conns : /\ BodiesAt("LIST", d)' = BodiesAt("LIST", d)
                           /\ \A j \in BodiesAt("LIST", d) : out'[d][j] = out[d][j]
      BY <2>2 DEF SameBodies
    <3>3. Unlisted'
      BY <2>1, <3>0, <3>1, <3>2 DEF Unlisted
    <3>4. \A r \in clients : peer[r] = "open" => UpToDate(r)
      BY <2>1, <2>4 DEF Composing, Telling
    <3>5. Listed'
      <4> SUFFICES ASSUME NEW d \in clients, NEW r \in clients, peer[r] = "open",
                          NEW j \in BodiesAt("LIST", r), IsLast(j, BodiesAt("LIST", r))
                   PROVE  id[d] \in out[r][j].msg.ids
        BY <1>a, <2>1, <3>2 DEF Listed
      <4>1. PICK i \in BodiesAt("LIST", r) : IsLast(i, BodiesAt("LIST", r)) /\ out[r][i].msg.ids = ClientIds(clients)
        BY <3>4 DEF UpToDate, Told
      <4>2. BodiesAt("LIST", r) \subseteq Nat
        <5>1. r \in Conns
          BY <1>a
        <5>2. DOMAIN out[r] \subseteq Nat
          <6>1. out[r] \in Seq(Chunks)
            BY <1>a, <5>1 DEF TypeOK
          <6> QED BY <6>1
        <5> QED BY <1>b, <5>1, <5>2
      <4>3. i = j
        BY <4>1, <4>2, OneLast
      <4> QED BY <4>1, <4>3 DEF ClientIds
    <3> QED BY <2>2, <3>0, <3>3, <3>5, HeardKept
  <2> QED BY <2>3, <2>4
<1> QED BY <1>1, <1>2, <1>3, <1>4, <1>5, <1>6, <1>7, <1>8, <1>9, StepsAreThese DEF Locked

\* As long as ids did not wrap, nobody hears of a player that is not on its list.
THEOREM SendersAreListed == Spec => [](accepted <= IdSpace => SenderListed)
<1>1. Init => IdInv /\ Composing /\ Telling /\ Known
  <2>1. Init => Known
    <3> SUFFICES ASSUME Init PROVE Unlisted /\ Listed /\ Heard
      BY DEF Known
    <3>1. \A c \in Conns : \A type : BodiesAt(type, c) = {}
      BY DEF Init, BodiesAt
    <3> QED BY <3>1 DEF Init, Unlisted, Listed, Heard
  <2> QED BY <2>1, InitIds, InitFrames DEF Init, Telling
<1>2. IdInv /\ Composing /\ Telling /\ Settled /\ Known /\ [Next]_vars
        => (IdInv /\ Composing /\ Telling /\ Settled /\ Known)'
  BY NextIds, ComposingStep, TellingStep, KnownStep DEF IdInv
<1>3. Known => (accepted <= IdSpace => SenderListed)
  BY DEF Known, Heard, ListedWith, SenderListed
<1>4. Init => Settled
  BY DEF Init, Settled
<1> QED BY <1>1, <1>2, <1>3, <1>4, PTL DEF Spec

-------------------------------------------------------------------------------
(* The relay that the server implements.                                    *)

\* How many connections were accepted.
Counted == accepted = Cardinality({c \in Conns : seat[c] # 0})

\* Only accept() gives a seat, and counts it.
LEMMA CountedStep == IndInv /\ Counted /\ [Next]_vars => Counted'
<1> SUFFICES ASSUME IndInv, Counted, [Next]_vars PROVE Counted'
  OBVIOUS
<1> DEFINE S == {c \in Conns : seat[c] # 0}
<1>1. ASSUME NEW c \in Conns, Accept(c) PROVE Counted'
  <2>1. /\ c \notin S /\ S' = S \cup {c} /\ accepted' = accepted + 1
    BY <1>1 DEF IndInv, TypeOK, Waiting, Accept
  <2>2. IsFiniteSet(S)
    BY ServerAssumption, FS_Subset
  <2>3. Cardinality(S \cup {c}) = Cardinality(S) + 1
    BY <2>1, <2>2, FS_AddElement
  <2> QED BY <2>1, <2>3 DEF Counted
<1>2. CASE UNCHANGED <<accepted, seat>>
  BY <1>2 DEF Counted
<1>3. AsideStep => UNCHANGED <<accepted, seat>>
  BY AsideSteps DEF Aside
<1>4. Register \/ SendIdHdr \/ SendIdBody \/ (\E c \in Conns : BcastLock(c) \/ Erase(c))
        => UNCHANGED <<accepted, seat>>
  BY DEF Register, SendIdHdr, SendIdBody, BcastLock, Erase, acceptVars
<1>5. (\E t \in Threads : Locked(t)) => UNCHANGED <<accepted, seat>>
  BY DEF Locked, NotifyLock, SendHdr, SendBody, Unlock, acceptVars
<1> QED BY <1>1, <1>2, <1>3, <1>4, <1>5, StepsAreThese

\* There are not enough connections for an id to be given twice.
LEMMA NoWrap ==
  ASSUME Cardinality(Conns) <= IdSpace, NEW S \in SUBSET Conns
  PROVE  Cardinality(S) <= IdSpace
<1>1. IsFiniteSet(S) /\ Cardinality(S) <= Cardinality(Conns)
  BY ServerAssumption, FS_Subset
<1>2. Cardinality(S) \in Nat /\ Cardinality(Conns) \in Nat
  BY <1>1, ServerAssumption, FS_CardinalityType
<1> QED BY <1>1, <1>2, ServerAssumption

\* The messages of c that were relayed, which are all it sent but the one that waits.
Relayed(c) == {i \in 1 .. Len(order) : order[i].from = c}
Waits(c) == IF pc[c] = "bcast" THEN 1 ELSE 0
Numbered == \A c \in Conns : Cardinality(Relayed(c)) + Waits(c) = taken[c]

\* The message being relayed is the last of the order.
Ordered ==
  mutex # None /\ sending.type = "GAME" => Len(order) > 0 /\ order[Len(order)] = Payload(sending)

\* A set of places in a sequence is finite.
LEMMA RelayedFinite ==
  ASSUME NEW c, TypeOK PROVE IsFiniteSet(Relayed(c)) /\ Cardinality(Relayed(c)) \in Nat
<1>1. IsFiniteSet(1 .. Len(order))
  BY FS_Interval DEF TypeOK
<1>2. IsFiniteSet(Relayed(c))
  BY <1>1, FS_Subset DEF Relayed
<1> QED BY <1>2, FS_CardinalityType

\* What taking the mutex for a message does to the order.
LEMMA OrderExtended ==
  ASSUME TypeOK, NEW c \in Conns, BcastLock(c)
  PROVE  /\ Len(order') = Len(order) + 1 /\ Len(order) \in Nat
         /\ order'[Len(order) + 1] = [from |-> c, n |-> taken[c]]
         /\ \A i \in 1 .. Len(order) : order'[i] = order[i]
BY DEF BcastLock, TypeOK

\* Every step keeps the count and the order.
LEMMA OrderStep ==
  IndInv /\ IndInv' /\ Numbered /\ Ordered /\ [Next]_vars => Numbered' /\ Ordered'
<1> SUFFICES ASSUME IndInv, IndInv', Numbered, Ordered, [Next]_vars PROVE Numbered' /\ Ordered'
  OBVIOUS
<1> USE ServerAssumption
<1>a. TypeOK /\ Locking
  BY DEF IndInv
<1>b. UNCHANGED <<order, taken>> /\ (\A c \in Conns : pc'[c] = "bcast" <=> pc[c] = "bcast") => Numbered'
  BY DEF Numbered, Relayed, Waits
<1>c. UNCHANGED <<order, mutex, sending>> \/ mutex' = None => Ordered'
  BY DEF Ordered, Payload
<1>1. CASE AsideStep
  <2>1. Aside
    BY <1>1, AsideSteps
  <2>2. order' = order /\ \A c \in Conns : Waits(c)' - Waits(c) = taken'[c] - taken[c]
    BY <1>a, <2>1 DEF Aside, Waits, TypeOK
  <2>3. Numbered'
    <3> SUFFICES ASSUME NEW c \in Conns PROVE Cardinality(Relayed(c)') + Waits(c)' = taken'[c]
      BY DEF Numbered
    <3>1. Relayed(c)' = Relayed(c) /\ Cardinality(Relayed(c)) + Waits(c) = taken[c]
      BY <2>2 DEF Relayed, Numbered
    <3>2. /\ Cardinality(Relayed(c)) \in Nat /\ Waits(c) \in Nat /\ Waits(c)' \in Nat
          /\ taken[c] \in Nat /\ taken'[c] \in Nat
      BY <1>a, RelayedFinite DEF Waits, TypeOK, IndInv
    <3> QED BY <2>2, <3>1, <3>2
  <2> QED BY <1>c, <2>1, <2>3 DEF Aside
<1>2. ASSUME NEW c \in Conns, Accept(c) PROVE Numbered' /\ Ordered'
  <2>1. UNCHANGED <<order, taken, mutex, sending>> /\ \A d \in Conns : pc'[d] = pc[d]
    BY <1>2, <1>a DEF Accept, Goto, TypeOK, Threads, lockVars
  <2> QED BY <1>b, <1>c, <2>1
<1>3. CASE Register \/ SendIdHdr \/ SendIdBody
  <2>1. UNCHANGED <<order, taken, mutex, sending>> /\ \A d \in Conns : pc'[d] = pc[d]
    BY <1>3, <1>a DEF Register, SendIdHdr, SendIdBody, Goto, TypeOK, Threads, lockVars
  <2> QED BY <1>b, <1>c, <2>1
<1>4. ASSUME NEW c \in Conns, BcastLock(c) PROVE Numbered' /\ Ordered'
  <2>1. /\ Len(order') = Len(order) + 1 /\ Len(order) \in Nat
        /\ order'[Len(order) + 1] = [from |-> c, n |-> taken[c]]
        /\ \A i \in 1 .. Len(order) : order'[i] = order[i]
    BY <1>4, <1>a, OrderExtended
  <2>2. /\ sending' = GameMsg(id[c], c, taken[c]) /\ taken' = taken
        /\ pc[c] = "bcast" /\ pc'[c] = "sending" /\ \A d \in Conns : d # c => pc'[d] = pc[d]
    BY <1>4, <1>a DEF BcastLock, Goto, TypeOK, Threads
  <2>3. Ordered'
    BY <2>1, <2>2 DEF Ordered, Payload, GameMsg
  <2>4. ASSUME NEW d \in Conns, d # c PROVE Cardinality(Relayed(d)') + Waits(d)' = taken'[d]
    <3>1. Relayed(d)' = Relayed(d)
      BY <2>1, <2>4 DEF Relayed
    <3> QED BY <2>2, <2>4, <3>1 DEF Numbered, Waits
  <2>5. Cardinality(Relayed(c)') + Waits(c)' = taken'[c]
    <3>1. Relayed(c)' = Relayed(c) \cup {Len(order) + 1} /\ Len(order) + 1 \notin Relayed(c)
      BY <2>1 DEF Relayed
    <3>2. Cardinality(Relayed(c)') = Cardinality(Relayed(c)) + 1
      BY <1>a, <3>1, RelayedFinite, FS_AddElement
    <3>3. Cardinality(Relayed(c)) + 1 = taken[c] /\ taken[c] \in Nat /\ Waits(c)' = 0
      BY <1>a, <2>2 DEF Numbered, Waits, TypeOK
    <3> QED BY <2>2, <3>2, <3>3
  <2> QED BY <2>3, <2>4, <2>5 DEF Numbered
<1>5. ASSUME NEW c \in Conns, Erase(c) PROVE Numbered' /\ Ordered'
  <2>1. UNCHANGED <<order, taken, mutex, sending>> /\ \A d \in Conns : pc'[d] = "bcast" <=> pc[d] = "bcast"
    BY <1>5, <1>a DEF Erase, EraseThen, Goto, TypeOK, Threads, lockVars
  <2> QED BY <1>b, <1>c, <2>1
<1>6. ASSUME NEW t \in Threads, Locked(t) PROVE Numbered' /\ Ordered'
  <2>1. UNCHANGED <<order, taken>>
    BY <1>6 DEF Locked, NotifyLock, SendHdr, SendBody, Unlock
  <2>2. \A d \in Conns : pc'[d] = "bcast" <=> pc[d] = "bcast"
    <3>1. CASE NotifyLock(t)
      BY <3>1, <1>a DEF NotifyLock, Goto, TypeOK, Threads
    <3>2. CASE SendHdr(t) \/ SendBody(t)
      BY <3>2 DEF SendHdr, SendBody
    <3>3. CASE Unlock(t)
      <4>1. pc[accConn] = "none" \/ t # Acceptor
        BY <3>3 DEF IndInv, Places, BusyPlaces, Unlock
      <4> QED BY <3>3, <4>1, <1>a DEF Unlock, Goto, TypeOK, Threads
    <3> QED BY <1>6, <3>1, <3>2, <3>3 DEF Locked
  <2>3. \/ UNCHANGED <<mutex, sending>> \/ mutex' = None \/ sending'.type = "LIST"
    BY <1>6 DEF Locked, NotifyLock, ListMsg, SendHdr, SendBody, Unlock, Release
  <2> QED BY <1>b, <1>c, <2>1, <2>2, <2>3 DEF Ordered
<1> QED BY <1>1, <1>2, <1>3, <1>4, <1>5, <1>6, StepsAreThese

\* What the steps of the relay follow from.
RelayInv == IdInv /\ Composing /\ Numbered /\ Ordered /\ accepted <= IdSpace

\* The inboxes only depend on the bytes of the game messages that were sent.
LEMMA InboxKept ==
  ASSUME \A c \in Conns : /\ BodiesAt("GAME", c)' = BodiesAt("GAME", c)
                          /\ \A i \in BodiesAt("GAME", c) : out'[c][i] = out[c][i]
  PROVE  Inbox' = Inbox
<1>1. ASSUME NEW c \in Conns
      PROVE  {[at |-> i, msg |-> Payload(out'[c][i].msg)] : i \in BodiesAt("GAME", c)'}
               = {[at |-> i, msg |-> Payload(out[c][i].msg)] : i \in BodiesAt("GAME", c)}
  OBVIOUS
<1> QED BY <1>1 DEF Inbox, Payload

\* Nobody is behind while the mutex is free.
LEMMA NoneBehind ==
  ASSUME IndInv, IndInv'
  PROVE  /\ mutex = None => Got = [c \in Conns |-> IF c \in clients THEN Len(order) ELSE 0]
         /\ mutex' = None => Got' = [c \in Conns |-> IF c \in clients' THEN Len(order') ELSE 0]
<1>1. mutex = None => \A c \in Conns : ~Behind(c)
  BY DEF IndInv, Locking, Behind
<1>2. mutex' = None => \A c \in Conns : ~Behind(c)'
  BY DEF IndInv, Locking, Behind
<1> QED BY <1>1, <1>2 DEF Got

\* A step that the players cannot tell from none, but for connections that break.
LEMMA QuietStep ==
  ASSUME UNCHANGED <<order, clients, Got, Inbox>>, Gone \subseteq Gone'
  PROVE  [R!Next]_(R!relayVars)
<1>1. R!Break
  BY DEF R!Break, Gone
<1> QED BY <1>1 DEF R!Next

\* A registration.
LEMMA JoinStep == ASSUME RelayInv, RelayInv', Register PROVE [R!Next]_(R!relayVars)
<1>0. IndInv /\ IndInv' /\ TypeOK /\ TypeOK'
  BY DEF RelayInv, IdInv, IndInv
<1>1. PICK c \in Conns : c = accConn
  BY <1>0 DEF IndInv, Register, Places, BusyPlaces
<1>2. /\ clients' = clients \cup {c} /\ mutex = None /\ mutex' = None
      /\ UNCHANGED <<order, out, peer>>
  BY <1>1 DEF Register, LockFree, lockVars, peerVars
<1>3. Inbox' = Inbox
  BY <1>2, InboxKept DEF BodiesAt
<1>4. /\ Got = [d \in Conns |-> IF d \in clients THEN Len(order) ELSE 0]
      /\ Got' = [d \in Conns |-> IF d \in clients' THEN Len(order') ELSE 0]
  BY <1>0, <1>2, NoneBehind
<1>5. Gone' = Gone
  BY <1>2 DEF Gone
<1>6. CASE c \in clients
  <2>1. clients' = clients
    BY <1>2, <1>6
  <2> QED BY <1>2, <1>3, <1>4, <1>5, <2>1, QuietStep
<1>7. CASE c \notin clients
  <2>1. Got' = [Got EXCEPT ![c] = Len(order)]
    BY <1>2, <1>4
  <2>2. R!Join(c)
    BY <1>2, <1>3, <1>5, <1>7, <2>1 DEF R!Join
  <2> QED BY <2>2 DEF R!Next
<1> QED BY <1>6, <1>7

\* A departure.
LEMMA LeaveStep == ASSUME RelayInv, RelayInv', NEW c \in Conns, Erase(c) PROVE [R!Next]_(R!relayVars)
<1>0. IndInv /\ IndInv' /\ TypeOK /\ TypeOK'
  BY DEF RelayInv, IdInv, IndInv
<1>1. clients' = clients \ {c}
  <2>1. seat[c] # 0 /\ \A d \in clients : d \in Conns /\ seat[d] # 0
    BY <1>0, ServerAssumption DEF IndInv, Waiting, TypeOK, Erase
  <2> QED BY <2>1, DistinctIds DEF RelayInv, Erase
<1>2. mutex = None /\ mutex' = None /\ UNCHANGED <<order, out, peer>>
  BY DEF Erase, LockFree, lockVars, peerVars
<1>3. Inbox' = Inbox
  BY <1>2, InboxKept DEF BodiesAt
<1>4. /\ Got = [d \in Conns |-> IF d \in clients THEN Len(order) ELSE 0]
      /\ Got' = [d \in Conns |-> IF d \in clients' THEN Len(order') ELSE 0]
  BY <1>0, <1>2, NoneBehind
<1>5. Gone' = Gone
  BY <1>2 DEF Gone
<1>6. CASE c \notin clients
  <2>1. clients' = clients
    BY <1>1, <1>6
  <2> QED BY <1>2, <1>3, <1>4, <1>5, <2>1, QuietStep
<1>7. CASE c \in clients
  <2>1. Got' = [Got EXCEPT ![c] = 0]
    BY <1>1, <1>2, <1>4
  <2>2. R!Leave(c)
    BY <1>1, <1>2, <1>3, <1>5, <1>7, <2>1 DEF R!Leave
  <2> QED BY <2>2 DEF R!Next
<1> QED BY <1>6, <1>7

\* Taking the mutex for a message publishes it: the sender has seen all the
\* others, and all the other clients have yet to see it.
LEMMA PublishStep == ASSUME RelayInv, RelayInv', NEW c \in Conns, BcastLock(c) PROVE [R!Next]_(R!relayVars)
<1> USE ServerAssumption
<1>0. IndInv /\ IndInv' /\ TypeOK /\ TypeOK' /\ Waiting
  BY DEF RelayInv, IdInv, IndInv
<1>1. /\ mutex = None /\ UNCHANGED <<out, peer, clients>> /\ pc[c] = "bcast"
      /\ order' = Append(order, [from |-> c, n |-> taken[c]])
      /\ todo' = Recipients(c) /\ sending'.type = "GAME"
  BY DEF BcastLock, LockFree, GameMsg, peerVars
<1>2. c \in clients
  BY <1>1 DEF RelayInv, IdInv, Served, Serving
<1>3. Got = [d \in Conns |-> IF d \in clients THEN Len(order) ELSE 0]
  BY <1>0, <1>1, NoneBehind
<1>4. \A d \in clients : d \in Recipients(c) <=> d # c
  <2>1. \A d \in clients : d \in Conns /\ seat[d] # 0
    BY <1>0 DEF Waiting, TypeOK
  <2> QED BY <1>2, <2>1, DistinctIds DEF RelayInv, Recipients
<1>5. Len(order') = Len(order) + 1 /\ Len(order) \in Nat
  BY <1>0, OrderExtended
<1>6. Got' = [Got EXCEPT ![c] = Len(order) + 1]
  <2>1. \A d \in clients : Behind(d)' <=> d # c
    BY <1>1, <1>4 DEF Behind
  <2>2. Got' = [d \in Conns |-> IF d \notin clients THEN 0
                                ELSE IF d # c THEN Len(order) + 1 - 1 ELSE Len(order) + 1]
    BY <1>1, <1>5, <2>1 DEF Got
  <2>3. \A d \in Conns : IF d # c THEN Got'[d] = Got[d] ELSE Got'[d] = Len(order) + 1
    BY <1>2, <1>3, <1>5, <2>2
  <2> QED BY <1>3, <2>2, <2>3
<1>7. Inbox' = Inbox /\ Gone' = Gone
  BY <1>1, InboxKept DEF BodiesAt, Gone
<1>8. order' = Append(order, [from |-> c, n |-> Cardinality(R!Published(c)) + 1])
  <2>1. R!Published(c) = Relayed(c)
    BY DEF R!Published, Relayed
  <2>2. Cardinality(Relayed(c)) + 1 = taken[c]
    BY <1>1 DEF RelayInv, Numbered, Waits
  <2> QED BY <1>1, <2>1, <2>2
<1>9. R!Publish(c)
  <2>1. Got[c] = Len(order)
    BY <1>2, <1>3
  <2>2. UNCHANGED <<clients, Gone, Inbox>>
    BY <1>1, <1>7
  <2>3. R!Cardinality(R!Published(c)) = Cardinality(R!Published(c))
    BY DEF R!Cardinality, Cardinality
  <2> QED BY <1>2, <1>6, <1>8, <2>1, <2>2, <2>3 DEF R!Publish
<1> QED BY <1>9 DEF R!Next


\* The bytes of a message deliver it to the client they go to.
LEMMA DeliverStep ==
  ASSUME RelayInv, RelayInv', NEW t \in Threads, SendBody(t), sending.type = "GAME"
  PROVE  [R!Next]_(R!relayVars)
<1>0. IndInv /\ IndInv' /\ TypeOK /\ TypeOK' /\ Waiting
  BY DEF RelayInv, IdInv, IndInv
<1>1. PICK c \in Conns : c = First(todo)
  BY <1>0, SendingTo
<1>2. c \in todo /\ c \in clients /\ sending \in Messages /\ mutex # None
  BY <1>0, <1>1, SendingTo
<1>3. /\ Send(c, "body", sending) /\ todo' = todo \ {c}
      /\ UNCHANGED <<clients, order, sending, peer>>
  BY <1>1 DEF SendBody, peerVars
<1>4. /\ Len(order) \in Nat /\ Len(order) > 0 /\ order[Len(order)] = Payload(sending)
      /\ sending.from # c
  <2>1. mutex \notin todo /\ sending.from = mutex
    BY <1>2 DEF RelayInv, Composing, GameMsg
  <2>2. Len(order) \in Nat
    BY <1>0 DEF TypeOK
  <2> QED BY <1>2, <2>1, <2>2 DEF RelayInv, Ordered
<1>5. Got[c] = Len(order) - 1
  BY <1>2 DEF Got, Behind
<1>6. Got' = [Got EXCEPT ![c] = Len(order)]
  <2>1. \A d \in Conns : Behind(d)' <=> Behind(d) /\ d # c
    BY <1>3 DEF Behind
  <2>2. Got' = [d \in Conns |-> IF d \notin clients THEN 0
                                ELSE IF Behind(d) /\ d # c THEN Len(order) - 1 ELSE Len(order)]
    BY <1>3, <2>1 DEF Got
  <2> QED BY <1>2, <2>2 DEF Got
<1>7. Gone' = Gone
  BY <1>3 DEF Gone
<1>8. CASE peer[c] = "open"
  <2>1. PICK n : WrittenTo(c, n, Chunk("body", sending))
    BY <1>0, <1>2, <1>3, <1>8, Written
  <2>2. /\ \A d \in Conns : d # c => BodiesAt("GAME", d)' = BodiesAt("GAME", d) /\ out'[d] = out[d]
        /\ BodiesAt("GAME", c)' = BodiesAt("GAME", c) \cup {n}
    <3>1. \A type : BodiesAt(type, c)' = IF sending.type = type THEN BodiesAt(type, c) \cup {n}
                                                                ELSE BodiesAt(type, c)
      BY <2>1, BodyPlaces
    <3>2. BodiesAt("GAME", c)' = BodiesAt("GAME", c) \cup {n}
      BY <3>1
    <3> QED BY <2>1, <3>2, WrittenPlaces DEF WrittenTo
  <2>3. /\ n \in Nat /\ \A i \in BodiesAt("GAME", c) : i < n /\ out'[c][i] = out[c][i]
        /\ out'[c][n].msg = sending
    BY <2>1 DEF WrittenTo, BodiesAt, Chunk
  <2> DEFINE e == [at |-> n, msg |-> Payload(sending)]
  <2>4. Inbox' = [Inbox EXCEPT ![c] = Inbox[c] \cup {e}]
    <3>1. Inbox = [d \in Conns |-> {[at |-> i, msg |-> Payload(out[d][i].msg)] : i \in BodiesAt("GAME", d)}]
      BY DEF Inbox, Payload
    <3>2. Inbox' = [d \in Conns |-> {[at |-> i, msg |-> Payload(out'[d][i].msg)] : i \in BodiesAt("GAME", d)'}]
      BY DEF Inbox, Payload
    <3>3. \A d \in Conns : d # c => Inbox'[d] = Inbox[d]
      BY <2>2, <3>1, <3>2
    <3>4. Inbox'[c] = {[at |-> i, msg |-> Payload(out'[c][i].msg)] : i \in BodiesAt("GAME", c) \cup {n}}
      BY <2>2, <3>2
    <3>5. @ = {[at |-> i, msg |-> Payload(out'[c][i].msg)] : i \in BodiesAt("GAME", c)} \cup {e}
      BY <2>3
    <3>6. @ = {[at |-> i, msg |-> Payload(out[c][i].msg)] : i \in BodiesAt("GAME", c)} \cup {e}
      BY <2>3
    <3>7. @ = Inbox[c] \cup {e}
      BY <3>1
    <3> QED BY <3>1, <3>2, <3>3, <3>4, <3>5, <3>6, <3>7
  <2>5. \A d \in Inbox[c] : d.at < e.at
    BY <2>3 DEF Inbox
  <2>6. R!Receive(c, Payload(sending))
    <3>1. e \in Inbox'[c] /\ e.msg = Payload(sending)
      BY <2>4 DEF Inbox
    <3> QED BY <2>4, <2>5, <3>1 DEF R!Receive
  <2>7. c \notin Gone
    BY <1>8 DEF Gone
  <2>8. R!Deliver(c)
    <3>1. Got[c] < Len(order) /\ Got[c] + 1 = Len(order) /\ order[Got[c] + 1] = Payload(sending)
      BY <1>4, <1>5
    <3>2. order[Got[c] + 1].from # c
      BY <1>4, <3>1 DEF Payload
    <3>3. R!Receive(c, order[Got[c] + 1])
      BY <2>6, <3>1
    <3>4. Got' = [Got EXCEPT ![c] = Got[c] + 1]
      BY <1>6, <3>1
    <3> QED BY <1>2, <1>3, <1>7, <2>7, <3>1, <3>2, <3>3, <3>4 DEF R!Deliver
  <2> QED BY <2>8 DEF R!Next
<1>9. CASE peer[c] # "open"
  <2>1. out' = out
    BY <1>0, <1>2, <1>3, <1>9, Written
  <2>2. Inbox' = Inbox
    BY <2>1, InboxKept DEF BodiesAt
  <2>3. c \in Gone
    BY <1>0, <1>2, <1>9 DEF Gone, Waiting, TypeOK
  <2>4. R!Deliver(c)
    <3>1. Got[c] < Len(order) /\ Got[c] + 1 = Len(order) /\ order[Got[c] + 1] = Payload(sending)
      BY <1>4, <1>5
    <3>2. order[Got[c] + 1].from # c
      BY <1>4, <3>1 DEF Payload
    <3>3. Got' = [Got EXCEPT ![c] = Got[c] + 1]
      BY <1>6, <3>1
    <3> QED BY <1>2, <1>3, <1>7, <2>2, <2>3, <3>1, <3>2, <3>3 DEF R!Deliver
  <2> QED BY <2>4 DEF R!Next
<1> QED BY <1>8, <1>9

\* Every step of the server is a step of the relay, or is not seen by the players.
LEMMA RelayStep == RelayInv /\ RelayInv' /\ [Next]_vars => [R!Next]_(R!relayVars)
<1> SUFFICES ASSUME RelayInv, RelayInv', [Next]_vars PROVE [R!Next]_(R!relayVars)
  OBVIOUS
<1> USE ServerAssumption
<1>0. IndInv /\ IndInv' /\ TypeOK /\ TypeOK' /\ Waiting /\ Locking /\ Locking' /\ Places
  BY DEF RelayInv, IdInv, IndInv
<1>a. out' = out => Inbox' = Inbox
  BY InboxKept DEF BodiesAt
<1>b. UNCHANGED <<clients, order, todo, sending>> => Got' = Got
  BY DEF Got, Behind
<1>c. peer' = peer => Gone' = Gone
  BY DEF Gone
<1>1. CASE AsideStep
  <2>1. Aside
    BY <1>0, <1>1, AsideSteps
  <2>2. Gone \subseteq Gone'
    BY <2>1 DEF Aside, Gone
  <2> QED BY <1>a, <1>b, <2>1, <2>2, QuietStep DEF Aside
<1>2. ASSUME NEW c \in Conns, Accept(c) PROVE [R!Next]_(R!relayVars)
  <2>1. UNCHANGED <<out, clients, order, todo, sending, peer>>
    BY <1>2 DEF Accept, lockVars, peerVars
  <2> QED BY <1>a, <1>b, <1>c, <2>1, QuietStep
<1>3. CASE Register
  BY <1>3, JoinStep
<1>4. CASE SendIdHdr \/ SendIdBody
  <2>1. PICK c \in Conns : c = accConn /\ IdMsg(id[c]) \in Messages /\ IdMsg(id[c]).type = "ID"
    BY <1>4, <1>0, GreetingType DEF SendIdHdr, SendIdBody, Places, BusyPlaces, IdMsg
  <2>2. PICK part \in {"hdr", "body"} : Send(c, part, IdMsg(id[c]))
    BY <1>4, <2>1 DEF SendIdHdr, SendIdBody
  <2>3. UNCHANGED <<clients, order, todo, sending, peer>>
    BY <1>4 DEF SendIdHdr, SendIdBody, lockVars, peerVars
  <2>4. Inbox' = Inbox
    <3>1. CASE peer[c] = "open"
      <4>1. PICK n : WrittenTo(c, n, Chunk(part, IdMsg(id[c])))
        BY <1>0, <2>1, <2>2, <3>1, Written
      <4>2. \A d \in Conns : BodiesAt("GAME", d)' = BodiesAt("GAME", d)
        BY <2>1, <4>1, GreetingPlaces
      <4>3. \A d \in Conns : \A i \in BodiesAt("GAME", d) : out'[d][i] = out[d][i]
        BY <4>1 DEF WrittenTo, BodiesAt
      <4> QED BY <4>2, <4>3, InboxKept
    <3>2. CASE peer[c] # "open"
      BY <1>0, <1>a, <2>1, <2>2, <3>2, Written
    <3> QED BY <3>1, <3>2
  <2> QED BY <1>b, <1>c, <2>3, <2>4, QuietStep
<1>5. ASSUME NEW c \in Conns, BcastLock(c) PROVE [R!Next]_(R!relayVars)
  BY <1>5, PublishStep
<1>6. ASSUME NEW c \in Conns, Erase(c) PROVE [R!Next]_(R!relayVars)
  BY <1>6, LeaveStep
<1>7. ASSUME NEW t \in Threads, NotifyLock(t) PROVE [R!Next]_(R!relayVars)
  <2>1. UNCHANGED <<out, clients, order, peer>> /\ mutex = None /\ sending'.type = "LIST"
    BY <1>7 DEF NotifyLock, ListMsg, LockFree, peerVars
  <2>2. \A c \in Conns : ~Behind(c) /\ ~Behind(c)'
    BY <1>0, <2>1 DEF Behind, Locking
  <2>3. Got' = Got
    BY <2>1, <2>2 DEF Got
  <2> QED BY <1>a, <1>c, <2>1, <2>3, QuietStep
<1>8. ASSUME NEW t \in Threads, Unlock(t) PROVE [R!Next]_(R!relayVars)
  <2>1. UNCHANGED <<out, clients, order, peer>> /\ todo = {} /\ todo' = {}
    BY <1>8 DEF Unlock, peerVars
  <2>2. \A c \in Conns : ~Behind(c) /\ ~Behind(c)'
    BY <2>1 DEF Behind
  <2>3. Got' = Got
    BY <2>1, <2>2 DEF Got
  <2> QED BY <1>a, <1>c, <2>1, <2>3, QuietStep
<1>9. ASSUME NEW t \in Threads, SendBody(t), sending.type = "GAME" PROVE [R!Next]_(R!relayVars)
  BY <1>9, DeliverStep
<1>10. ASSUME NEW t \in Threads, SendHdr(t) \/ (SendBody(t) /\ sending.type = "LIST")
       PROVE  [R!Next]_(R!relayVars)
  <2>1. PICK c \in Conns : c = First(todo)
    BY <1>10, <1>0, SendingTo
  <2>2. c \in todo /\ c \in clients /\ sending \in Messages
    BY <1>10, <1>0, <2>1, SendingTo
  <2>3. PICK part \in {"hdr", "body"} : Send(c, part, sending) /\ (part = "body" => sending.type = "LIST")
    BY <1>10, <2>1 DEF SendHdr, SendBody
  <2>4. Inbox' = Inbox
    <3>1. CASE peer[c] = "open"
      <4>1. PICK n : WrittenTo(c, n, Chunk(part, sending))
        BY <1>0, <2>2, <2>3, <3>1, Written
      <4>2. ~(part = "body" /\ sending.type = "GAME")
        BY <2>3
      <4>3. \A d \in Conns : BodiesAt("GAME", d)' = BodiesAt("GAME", d)
        BY <4>1, <4>2, WrittenPlaces
      <4>4. \A d \in Conns : \A i \in BodiesAt("GAME", d) : out'[d][i] = out[d][i]
        BY <4>1 DEF WrittenTo, BodiesAt
      <4> QED BY <4>3, <4>4, InboxKept
    <3>2. CASE peer[c] # "open"
      BY <1>0, <1>a, <2>2, <2>3, <3>2, Written
    <3> QED BY <3>1, <3>2
  <2>5. UNCHANGED <<clients, order, sending, peer>> /\ (todo' = todo \/ sending.type = "LIST")
    BY <1>10 DEF SendHdr, SendBody, peerVars
  <2>6. Got' = Got
    BY <2>5 DEF Got, Behind
  <2> QED BY <1>c, <2>4, <2>5, <2>6, QuietStep
<1>11. ASSUME NEW t \in Threads, SendBody(t) PROVE sending.type = "GAME" \/ sending.type = "LIST"
  BY <1>0, <1>11, SendingTo DEF RelayInv, Composing
<1> QED BY <1>1, <1>2, <1>3, <1>4, <1>5, <1>6, <1>7, <1>8, <1>9, <1>10, <1>11, StepsAreThese DEF Locked

\* Nothing was read, relayed or accepted yet.
LEMMA InitRelay == Init => IdInv /\ Composing /\ Numbered /\ Ordered /\ Counted
<1> SUFFICES ASSUME Init PROVE IdInv /\ Composing /\ Numbered /\ Ordered /\ Counted
  OBVIOUS
<1>1. Numbered
  <2>1. \A c \in Conns : Relayed(c) = {} /\ Waits(c) = 0 /\ taken[c] = 0
    BY ServerAssumption DEF Init, Relayed, Waits, Threads
  <2> QED BY <2>1, FS_EmptySet DEF Numbered
<1>2. Counted
  <2>1. {c \in Conns : seat[c] # 0} = {}
    BY DEF Init
  <2> QED BY <2>1, FS_EmptySet DEF Init, Counted
<1> QED BY <1>1, <1>2, InitIds, InitFrames DEF Init, Ordered

\* With no more connections than ids, every player gets the messages of the
\* others, each once and in one order common to all, from its registration until
\* it leaves.
THEOREM ServerImplementsRelay ==
  ASSUME Cardinality(Conns) <= IdSpace PROVE Spec => ImplementsRelay
<1> DEFINE Inv == IdInv /\ Composing /\ Numbered /\ Ordered /\ Counted
<1>1. Init => Inv /\ R!Init
  <2> SUFFICES ASSUME Init PROVE R!Init
    BY InitRelay
  <2>1. \A c \in Conns : BodiesAt("GAME", c) = {}
    BY DEF Init, BodiesAt
  <2>2. Inbox = [c \in Conns |-> {}]
    BY <2>1 DEF Inbox
  <2> QED BY <2>2 DEF Init, Gone, Got, R!Init
<1>2. Inv /\ [Next]_vars => Inv'
  BY NextIds, ComposingStep, OrderStep, CountedStep DEF IdInv
<1>3. Inv => RelayInv
  <2>1. Counted => accepted <= IdSpace
    BY NoWrap DEF Counted
  <2> QED BY <2>1 DEF RelayInv
<1>4. Inv' => RelayInv'
  <2>1. Counted' => accepted' <= IdSpace
    BY NoWrap DEF Counted
  <2> QED BY <2>1 DEF RelayInv
<1>5. Inv /\ Inv' /\ [Next]_vars => [R!Next]_(R!relayVars)
  BY <1>3, <1>4, RelayStep
<1> HIDE DEF Inv
<1> QED BY <1>1, <1>2, <1>5, PTL DEF Spec, ImplementsRelay, R!Spec

-------------------------------------------------------------------------------
(* One order for all.  What the server implements gives the players what    *)
(* they need: what two of them received of the same messages they received  *)
(* in the same order, each once, and nothing in between is missing.  This   *)
(* follows from the steps of Relay, and from that nobody registers twice.   *)

Entries == 1 .. Len(order)

\* No two messages of the order are the same: those of a connection are numbered.
Counting == \A c \in Conns : \A i \in Relayed(c) : order[i].n \in Nat /\ order[i].n <= Cardinality(Relayed(c))
Distinct == \A i, j \in Entries : order[i] = order[j] => i = j

\* What was received is in the order, up to the place of who received it ...
Received ==
  \A c \in Conns : \A e \in Inbox[c] :
    \E i \in Entries : order[i] = e.msg /\ (c \in clients => i <= Got[c])

\* ... and was received in the order.
Sorted ==
  \A c \in Conns : \A e, f \in Inbox[c] : \A i, j \in Entries :
    order[i] = e.msg /\ order[j] = f.msg => /\ e.at < f.at => i < j
                                            /\ e.at = f.at => i = j

\* After the first message it received a client has all those of the others up to
\* its place, as long as its connection is there.
Complete ==
  \A c \in clients \ Gone : \A e \in Inbox[c] : \A i, j \in Entries :
    order[i] = e.msg /\ i < j /\ j <= Got[c] /\ order[j].from # c
      => \E g \in Inbox[c] : g.msg = order[j]

\* Of the messages of the others, a player misses none between two that it received.
NoGaps ==
  \A c \in Conns : \A e, f \in Inbox[c] : \A i, j, k \in Entries :
    order[i] = e.msg /\ order[k] = f.msg /\ i < j /\ j < k /\ order[j].from # c
      => \E g \in Inbox[c] : g.msg = order[j]

\* Two messages that two players received they received in the same order; taken
\* for one player twice, it received none of them twice.
SameOrder ==
  \A c, d \in Conns : \A e, f \in Inbox[c] : \A g, h \in Inbox[d] :
    e.msg = g.msg /\ f.msg = h.msg /\ e.at < f.at => g.at < h.at

\* Who is not registered yet was sent no message.
Unspoken == \A c \in Conns : pc[c] = "none" /\ c \notin clients => Inbox[c] = {}

HeardInOrder == Counting /\ Distinct /\ Received /\ Sorted /\ Complete /\ NoGaps

\* What is in an inbox is a message at its place.
LEMMA InboxPlaces ==
  ASSUME TypeOK, NEW c \in Conns, NEW e \in Inbox[c]
  PROVE  e.at \in Nat
<1>1. PICK i \in BodiesAt("GAME", c) : e = [at |-> i, msg |-> Payload(out[c][i].msg)]
  BY DEF Inbox
<1>2. out[c] \in Seq(Chunks)
  BY DEF TypeOK
<1> QED BY <1>1, <1>2 DEF BodiesAt

\* The order has a length, and clients are connections.
LEMMA OrderLength == ASSUME TypeOK PROVE Len(order) \in Nat /\ \A d \in clients : d \in Conns
BY DEF TypeOK

\* The same after a step.
LEMMA InboxPrimed ==
  ASSUME TypeOK', NEW c \in Conns, NEW e \in Inbox'[c]
  PROVE  e.at \in Nat
<1>1. PICK i \in BodiesAt("GAME", c)' : e.at = i
  BY DEF Inbox
<1>2. out'[c] \in Seq(Chunks)
  BY DEF TypeOK
<1> QED BY <1>1, <1>2 DEF BodiesAt

\* Received in the order by both, so in the same order.
LEMMA SortedAgree ==
  ASSUME TypeOK, Received, Sorted
  PROVE  SameOrder
<1> SUFFICES ASSUME NEW c \in Conns, NEW d \in Conns, NEW e \in Inbox[c], NEW f \in Inbox[c],
                    NEW g \in Inbox[d], NEW h \in Inbox[d],
                    e.msg = g.msg, f.msg = h.msg, e.at < f.at
             PROVE  g.at < h.at
  BY DEF SameOrder
<1>1. PICK i \in Entries : order[i] = e.msg
  BY DEF Received
<1>2. PICK j \in Entries : order[j] = f.msg
  BY DEF Received
<1>3. i < j
  BY <1>1, <1>2 DEF Sorted
<1>4. order[i] = g.msg /\ order[j] = h.msg
  BY <1>1, <1>2
<1>5. (h.at < g.at => j < i) /\ (g.at = h.at => i = j)
  BY <1>4 DEF Sorted
<1>6. g.at \in Nat /\ h.at \in Nat /\ i \in Nat /\ j \in Nat
  BY InboxPlaces DEF Entries
<1> QED BY <1>3, <1>5, <1>6

\* A step that adds nothing to the order leaves it numbered.
LEMMA CountingKept ==
  ASSUME Counting, Distinct, order' = order PROVE Counting' /\ Distinct'
<1>1. Entries' = Entries /\ \A c \in Conns : Relayed(c)' = Relayed(c)
  BY DEF Entries, Relayed
<1>2. Distinct'
  BY <1>1 DEF Distinct
<1>3. Counting'
  BY <1>1 DEF Counting
<1> QED BY <1>2, <1>3

\* Neither do steps that deliver nothing disturb what was received.
LEMMA ReceivedKept ==
  ASSUME Sorted, NoGaps, UNCHANGED <<order, Inbox>> PROVE Sorted' /\ NoGaps'
BY DEF Sorted, NoGaps, Entries

\* A step that the players do not see, but for connections that break.
LEMMA QuietOrder ==
  ASSUME HeardInOrder, UNCHANGED <<order, clients, Got, Inbox>>, Gone \subseteq Gone'
  PROVE  HeardInOrder'
<1>1. Counting' /\ Distinct' /\ Sorted' /\ NoGaps'
  BY CountingKept, ReceivedKept DEF HeardInOrder
<1>2. Received' /\ Complete'
  BY DEF HeardInOrder, Received, Complete, Entries
<1> QED BY <1>1, <1>2 DEF HeardInOrder

\* A registration: who registers has received nothing.
LEMMA JoinOrder ==
  ASSUME TypeOK, HeardInOrder, NEW c \in Conns, R!Join(c), Inbox[c] = {}
  PROVE  HeardInOrder'
<1>1. /\ clients' = clients \cup {c} /\ Got' = [Got EXCEPT ![c] = Len(order)]
      /\ UNCHANGED <<order, Gone, Inbox>>
  BY DEF R!Join
<1>2. \A d \in Conns : d # c => Got'[d] = Got[d]
  BY <1>1 DEF Got
<1>3. Counting' /\ Distinct' /\ Sorted' /\ NoGaps'
  BY <1>1, CountingKept, ReceivedKept DEF HeardInOrder
<1>4. Received'
  BY <1>1, <1>2 DEF HeardInOrder, Received, Entries
<1>5. Complete'
  <2> SUFFICES ASSUME NEW d \in clients' \ Gone', NEW e \in Inbox'[d], NEW i \in Entries', NEW j \in Entries',
                      order'[i] = e.msg, i < j, j <= Got'[d], order'[j].from # d
               PROVE  \E g \in Inbox'[d] : g.msg = order'[j]
    BY DEF Complete
  <2>1. d \in clients \ Gone /\ e \in Inbox[d] /\ Got'[d] = Got[d]
    BY <1>1, <1>2 DEF TypeOK
  <2> QED BY <1>1, <2>1 DEF HeardInOrder, Complete, Entries
<1> QED BY <1>3, <1>4, <1>5 DEF HeardInOrder

\* A departure.
LEMMA LeaveOrder ==
  ASSUME TypeOK, HeardInOrder, NEW c \in Conns, R!Leave(c)
  PROVE  HeardInOrder'
<1>1. /\ clients' = clients \ {c} /\ Got' = [Got EXCEPT ![c] = 0]
      /\ UNCHANGED <<order, Gone, Inbox>>
  BY DEF R!Leave
<1>2. \A d \in clients' : d \in clients /\ d \in Conns /\ Got'[d] = Got[d]
  BY <1>1 DEF Got, TypeOK
<1>3. Counting' /\ Distinct' /\ Sorted' /\ NoGaps'
  BY <1>1, CountingKept, ReceivedKept DEF HeardInOrder
<1>4. Received' /\ Complete'
  BY <1>1, <1>2 DEF HeardInOrder, Received, Complete, Entries
<1> QED BY <1>3, <1>4 DEF HeardInOrder

\* A message that is published is a new one, and nobody has it.
LEMMA PublishOrder ==
  ASSUME TypeOK, HeardInOrder, NEW c \in Conns, R!Publish(c)
  PROVE  HeardInOrder'
<1> DEFINE new == [from |-> c, n |-> Cardinality(Relayed(c)) + 1]
<1>1. /\ order' = Append(order, new) /\ Got[c] = Len(order)
      /\ Got' = [Got EXCEPT ![c] = Len(order) + 1]
      /\ UNCHANGED <<clients, Gone, Inbox>>
  <2>1. R!Published(c) = Relayed(c)
    BY DEF R!Published, Relayed
  <2>2. R!Cardinality(R!Published(c)) = Cardinality(R!Published(c))
    BY DEF R!Cardinality, Cardinality
  <2> QED BY <2>1, <2>2 DEF R!Publish
<1>0. clients' = clients /\ Gone' = Gone /\ Inbox' = Inbox
  BY <1>1
<1>2. /\ Len(order) \in Nat /\ Entries' = Entries \cup {Len(order) + 1}
      /\ order'[Len(order) + 1] = new /\ \A i \in Entries : order'[i] = order[i]
  BY <1>1 DEF TypeOK, Entries
<1> HIDE DEF new
<1>3. \A d \in Conns : Got'[d] = IF d = c THEN Len(order) + 1 ELSE Got[d]
  BY <1>1 DEF Got
<1>4. new.from = c /\ new.n = Cardinality(Relayed(c)) + 1 /\ Cardinality(Relayed(c)) \in Nat
  BY RelayedFinite DEF new
<1>5. \A d : Relayed(d)' = IF d = c THEN Relayed(d) \cup {Len(order) + 1} ELSE Relayed(d)
  BY <1>2, <1>4 DEF Relayed, Entries
<1>6. Cardinality(Relayed(c)') = Cardinality(Relayed(c)) + 1
  <2>1. Len(order) + 1 \notin Relayed(c)
    BY <1>2 DEF Relayed
  <2> QED BY <1>5, <2>1, RelayedFinite, FS_AddElement
<1>7. Counting'
  <2> SUFFICES ASSUME NEW d \in Conns, NEW i \in Relayed(d)'
               PROVE  order'[i].n \in Nat /\ order'[i].n <= Cardinality(Relayed(d)')
    BY DEF Counting
  <2>1. CASE i \in Relayed(d)
    <3>1. order[i].n \in Nat /\ order[i].n <= Cardinality(Relayed(d)) /\ order'[i] = order[i]
      BY <1>2, <2>1 DEF HeardInOrder, Counting, Relayed, Entries
    <3> QED BY <1>4, <1>5, <1>6, <3>1
  <2>2. CASE i \notin Relayed(d)
    <3>1. i = Len(order) + 1 /\ d = c
      BY <1>5, <2>2
    <3> QED BY <1>2, <1>4, <1>6, <3>1
  <2> QED BY <2>1, <2>2
<1>8. \A i \in Entries : order[i] # new
  <2> SUFFICES ASSUME NEW i \in Entries, order[i] = new PROVE FALSE
    OBVIOUS
  <2>1. i \in Relayed(c)
    BY <1>4 DEF Relayed, Entries
  <2>2. order[i].n \in Nat /\ order[i].n <= Cardinality(Relayed(c))
    BY <2>1 DEF HeardInOrder, Counting
  <2> QED BY <1>4, <2>2
<1>9. Distinct'
  BY <1>2, <1>8 DEF HeardInOrder, Distinct
<1>10. \A d \in Conns : \A e \in Inbox[d] : e.msg # new
  BY <1>8 DEF HeardInOrder, Received
<1>11. ASSUME NEW d \in Conns, NEW e \in Inbox[d], NEW i \in Entries', order'[i] = e.msg
       PROVE  i \in Entries /\ order[i] = e.msg
  BY <1>2, <1>10, <1>11
<1>12. Received'
  <2> SUFFICES ASSUME NEW d \in Conns, NEW e \in Inbox[d]
               PROVE  \E i \in Entries' : order'[i] = e.msg /\ (d \in clients => i <= Got'[d])
    BY <1>0 DEF Received
  <2>1. PICK i \in Entries : order[i] = e.msg /\ (d \in clients => i <= Got[d])
    BY DEF HeardInOrder, Received
  <2>2. d \in clients => i <= Got'[d]
    BY <1>2, <1>3, <2>1 DEF Entries
  <2> QED BY <1>2, <2>1, <2>2
<1>13. Sorted'
  <2> SUFFICES ASSUME NEW d \in Conns, NEW e \in Inbox[d], NEW f \in Inbox[d], NEW i \in Entries', NEW j \in Entries',
                      order'[i] = e.msg, order'[j] = f.msg
               PROVE  (e.at < f.at => i < j) /\ (e.at = f.at => i = j)
    BY <1>0 DEF Sorted
  <2>1. i \in Entries /\ order[i] = e.msg /\ j \in Entries /\ order[j] = f.msg
    BY <1>11
  <2> QED BY <2>1 DEF HeardInOrder, Sorted
<1>14. Complete'
  <2> SUFFICES ASSUME NEW d \in clients \ Gone, NEW e \in Inbox[d], NEW i \in Entries', NEW j \in Entries',
                      order'[i] = e.msg, i < j, j <= Got'[d], order'[j].from # d
               PROVE  \E g \in Inbox[d] : g.msg = order'[j]
    BY <1>0 DEF Complete
  <2>1. d \in Conns
    BY DEF TypeOK
  <2>2. i \in Entries /\ order[i] = e.msg
    BY <1>11, <2>1
  <2>3. j \in Entries
    <3>1. CASE d = c
      BY <1>2, <1>4, <3>1
    <3>2. CASE d # c
      <4>1. Got[d] <= Len(order) /\ Got[d] \in Int
        BY <1>2, <2>1 DEF Got
      <4> QED BY <1>2, <1>3, <2>1, <3>2, <4>1 DEF Entries
    <3> QED BY <3>1, <3>2
  <2>4. j <= Got[d] /\ order'[j] = order[j]
    BY <1>1, <1>2, <1>3, <2>1, <2>3 DEF Entries
  <2> QED BY <2>2, <2>3, <2>4 DEF HeardInOrder, Complete
<1>15. NoGaps'
  <2> SUFFICES ASSUME NEW d \in Conns, NEW e \in Inbox[d], NEW f \in Inbox[d],
                      NEW i \in Entries', NEW j \in Entries', NEW k \in Entries',
                      order'[i] = e.msg, order'[k] = f.msg, i < j, j < k, order'[j].from # d
               PROVE  \E g \in Inbox[d] : g.msg = order'[j]
    BY <1>0 DEF NoGaps
  <2>1. i \in Entries /\ order[i] = e.msg /\ k \in Entries /\ order[k] = f.msg
    BY <1>11
  <2>2. j \in Entries /\ order'[j] = order[j]
    BY <1>2, <2>1 DEF Entries
  <2> QED BY <2>1, <2>2 DEF HeardInOrder, NoGaps
<1> QED BY <1>7, <1>9, <1>12, <1>13, <1>14, <1>15 DEF HeardInOrder

\* A message is delivered at the place of the client, which is after all it received.
LEMMA DeliverOrder ==
  ASSUME TypeOK, TypeOK', HeardInOrder, NEW c \in Conns, R!Deliver(c), Got[c] \in Nat
  PROVE  HeardInOrder'
<1>1. /\ c \in clients /\ Got[c] < Len(order) /\ Got' = [Got EXCEPT ![c] = Got[c] + 1]
      /\ UNCHANGED <<order, clients, Gone>>
      /\ (c \notin Gone /\ R!Receive(c, order[Got[c] + 1])) \/ (c \in Gone /\ Inbox' = Inbox)
  BY DEF R!Deliver
<1>2. Len(order) \in Nat /\ Got[c] + 1 \in Entries /\ \A d \in clients : d \in Conns
  <2>1. Len(order) \in Nat /\ \A d \in clients : d \in Conns
    BY OrderLength
  <2>2. Got[c] < Len(order)
    BY <1>1
  <2> QED BY <2>1, <2>2 DEF Entries
<1>3. \A d \in Conns : Got'[d] = IF d = c THEN Got[c] + 1 ELSE Got[d]
  BY <1>1 DEF Got
<1>4. Counting' /\ Distinct' /\ Entries' = Entries
  BY <1>1, CountingKept DEF HeardInOrder, Entries
<1>5. CASE c \in Gone
  <2>1. Inbox' = Inbox
    BY <1>1, <1>5
  <2>2. Sorted' /\ NoGaps'
    BY <1>1, <2>1, ReceivedKept DEF HeardInOrder
  <2>3. Received'
    <3> SUFFICES ASSUME NEW d \in Conns, NEW e \in Inbox[d]
                 PROVE  \E i \in Entries : order[i] = e.msg /\ (d \in clients => i <= Got'[d])
      BY <1>1, <1>4, <2>1 DEF Received
    <3>1. PICK i \in Entries : order[i] = e.msg /\ (d \in clients => i <= Got[d])
      BY DEF HeardInOrder, Received
    <3>2. i \in Nat
      BY DEF Entries
    <3> QED BY <1>2, <1>3, <3>1, <3>2
  <2>4. Complete'
    BY <1>1, <1>2, <1>3, <1>4, <1>5, <2>1 DEF HeardInOrder, Complete
  <2> QED BY <1>4, <2>2, <2>3, <2>4 DEF HeardInOrder
<1>6. CASE c \notin Gone
  <2>1. PICK x \in Inbox'[c] : /\ x.msg = order[Got[c] + 1] /\ \A e \in Inbox[c] : e.at < x.at
                               /\ Inbox' = [Inbox EXCEPT ![c] = Inbox[c] \cup {x}]
    BY <1>1, <1>6 DEF R!Receive
  <2>2. /\ \A d \in Conns : Inbox'[d] = IF d = c THEN Inbox[c] \cup {x} ELSE Inbox[d]
    BY <2>1 DEF Inbox
  <2>3. x.at \in Nat /\ \A e \in Inbox[c] : e.at \in Nat /\ e.at < x.at
    <3>1. \A e \in Inbox'[c] : e.at \in Nat
      BY InboxPrimed
    <3> QED BY <2>1, <3>1, InboxPlaces
  <2>4. \A i \in Entries : order[i] = x.msg => i = Got[c] + 1
    BY <1>2, <2>1 DEF HeardInOrder, Distinct
  <2>5. \A e \in Inbox[c] : \A i \in Entries : order[i] = e.msg => i <= Got[c]
    BY <1>1 DEF HeardInOrder, Received, Distinct
  <2>6. \A i \in Entries : i \in Nat
    BY DEF Entries
  <2>7. Received'
    <3> SUFFICES ASSUME NEW d \in Conns, NEW e \in Inbox'[d]
                 PROVE  \E i \in Entries : order[i] = e.msg /\ (d \in clients => i <= Got'[d])
      BY <1>1, <1>4 DEF Received
    <3>1. CASE e \in Inbox[d]
      <4>1. PICK i \in Entries : order[i] = e.msg /\ (d \in clients => i <= Got[d])
        BY <3>1 DEF HeardInOrder, Received
      <4> QED BY <1>2, <1>3, <2>6, <4>1
    <3>2. CASE e \notin Inbox[d]
      <4>1. d = c /\ e = x
        BY <2>2, <3>2
      <4> QED BY <1>2, <1>3, <2>1, <4>1
    <3> QED BY <3>1, <3>2
  <2>8. Sorted'
    <3> SUFFICES ASSUME NEW d \in Conns, NEW e \in Inbox'[d], NEW f \in Inbox'[d], NEW i \in Entries, NEW j \in Entries,
                        order[i] = e.msg, order[j] = f.msg
                 PROVE  (e.at < f.at => i < j) /\ (e.at = f.at => i = j)
      BY <1>1, <1>4 DEF Sorted
    <3>1. CASE e \in Inbox[d] /\ f \in Inbox[d]
      BY <3>1 DEF HeardInOrder, Sorted
    <3>2. CASE e \in Inbox[d] /\ f \notin Inbox[d]
      <4>1. d = c /\ f = x
        BY <2>2, <3>2
      <4> QED BY <1>2, <2>3, <2>4, <2>5, <2>6, <3>2, <4>1
    <3>3. CASE e \notin Inbox[d] /\ f \in Inbox[d]
      <4>1. d = c /\ e = x
        BY <2>2, <3>3
      <4> QED BY <2>3, <3>3, <4>1
    <3>4. CASE e \notin Inbox[d] /\ f \notin Inbox[d]
      <4>1. d = c /\ e = x /\ f = x
        BY <2>2, <3>4
      <4> QED BY <2>3, <2>4, <4>1
    <3> QED BY <3>1, <3>2, <3>3, <3>4
  <2>9. Complete'
    <3> SUFFICES ASSUME NEW d \in clients \ Gone, NEW e \in Inbox'[d], NEW i \in Entries, NEW j \in Entries,
                        order[i] = e.msg, i < j, j <= Got'[d], order[j].from # d
                 PROVE  \E g \in Inbox'[d] : g.msg = order[j]
      BY <1>1, <1>4 DEF Complete
    <3>0. d \in Conns
      BY <1>2
    <3>1. CASE d # c
      BY <1>3, <2>2, <3>0, <3>1 DEF HeardInOrder, Complete
    <3>2. CASE d = c /\ j = Got[c] + 1
      BY <2>1, <2>2, <3>2
    <3>3. CASE d = c /\ j # Got[c] + 1
      <4>1. j <= Got[c]
        BY <1>2, <1>3, <2>6, <3>3
      <4>2. e \in Inbox[c]
        BY <1>2, <2>2, <2>4, <2>6, <3>3, <4>1
      <4>3. \E g \in Inbox[c] : g.msg = order[j]
        BY <3>3, <4>1, <4>2 DEF HeardInOrder, Complete
      <4> QED BY <2>2, <3>3, <4>3
    <3> QED BY <3>1, <3>2, <3>3
  <2>10. NoGaps'
    <3> SUFFICES ASSUME NEW d \in Conns, NEW e \in Inbox'[d], NEW f \in Inbox'[d],
                        NEW i \in Entries, NEW j \in Entries, NEW k \in Entries,
                        order[i] = e.msg, order[k] = f.msg, i < j, j < k, order[j].from # d
                 PROVE  \E g \in Inbox'[d] : g.msg = order[j]
      BY <1>1, <1>4 DEF NoGaps
    <3>1. CASE e \in Inbox[d] /\ f \in Inbox[d]
      <4>1. \E g \in Inbox[d] : g.msg = order[j]
        BY <3>1 DEF HeardInOrder, NoGaps
      <4> QED BY <2>2, <4>1
    <3>2. CASE e \notin Inbox[d]
      <4>1. d = c /\ i = Got[c] + 1
        BY <2>2, <2>4, <3>2
      <4>2. k <= Got[c] + 1
        BY <1>2, <2>2, <2>4, <2>5, <2>6, <4>1
      <4> QED BY <1>2, <2>6, <4>1, <4>2
    <3>3. CASE e \in Inbox[d] /\ f \notin Inbox[d]
      <4>1. d = c /\ k = Got[c] + 1
        BY <2>2, <2>4, <3>3
      <4>2. j <= Got[c]
        BY <1>2, <2>6, <4>1
      <4>3. \E g \in Inbox[c] : g.msg = order[j]
        BY <1>1, <1>6, <3>3, <4>1, <4>2 DEF HeardInOrder, Complete
      <4> QED BY <2>2, <4>1, <4>3
    <3> QED BY <3>1, <3>2, <3>3
  <2> QED BY <1>4, <2>7, <2>8, <2>9, <2>10 DEF HeardInOrder
<1> QED BY <1>5, <1>6

\* The place of a client is in the order, also while a message waits for it.
LEMMA GotPlaces == ASSUME RelayInv, NEW c \in Conns PROVE Got[c] \in Nat
<1>1. TypeOK /\ Locking /\ Ordered
  BY DEF RelayInv, IdInv, IndInv
<1>2. Behind(c) => mutex # None /\ Len(order) > 0
  BY <1>1 DEF Behind, Locking, Ordered
<1>3. Len(order) \in Nat
  BY <1>1 DEF TypeOK
<1> QED BY <1>2, <1>3 DEF Got

\* A handler does not go back to where it was before it was started, and only who
\* is registered is sent messages: the greeting is none.
LEMMA UnspokenStep ==
  ASSUME RelayInv, RelayInv', Unspoken, [Next]_vars
  PROVE  /\ Unspoken'
         /\ \A c \in Conns : c \notin clients /\ c \in clients' => pc[c] = "none"
<1>0. IndInv /\ IndInv' /\ TypeOK /\ TypeOK' /\ Places
  BY DEF RelayInv, IdInv, IndInv
<1> USE ServerAssumption DEF Threads
<1>1. \A c \in Conns : pc'[c] = "none" => pc[c] = "none"
  <2>1. CASE AsideStep
    BY <1>0, <2>1, AsideSteps DEF Aside
  <2>2. CASE Register \/ SendIdHdr \/ SendIdBody
    BY <1>0, <2>2 DEF Register, SendIdHdr, SendIdBody, Goto, TypeOK
  <2>3. ASSUME NEW c \in Conns, Accept(c) \/ BcastLock(c) \/ Erase(c)
        PROVE  \A d \in Conns : pc'[d] = "none" => pc[d] = "none"
    BY <1>0, <2>3 DEF Accept, BcastLock, Erase, EraseThen, Goto, TypeOK
  <2>4. ASSUME NEW t \in Threads, Locked(t)
        PROVE  \A d \in Conns : pc'[d] = "none" => pc[d] = "none"
    <3>1. CASE NotifyLock(t)
      BY <3>1, <1>0 DEF NotifyLock, Goto, TypeOK
    <3>2. CASE SendHdr(t) \/ SendBody(t)
      BY <3>2 DEF SendHdr, SendBody
    <3>3. CASE Unlock(t)
      <4>1. CASE t = Acceptor
        BY <3>3, <4>1, <1>0 DEF Unlock, ServeNext, TypeOK
      <4>2. CASE t # Acceptor
        BY <3>3, <4>2, <1>0 DEF Unlock, Goto, TypeOK
      <4> QED BY <4>1, <4>2
    <3> QED BY <2>4, <3>1, <3>2, <3>3 DEF Locked
  <2> QED BY <2>1, <2>2, <2>3, <2>4, StepsAreThese
<1>2. \A c \in Conns : c \notin clients /\ c \in clients' => pc[c] = "none"
  <2>1. CASE Register
    BY <1>0, <2>1 DEF Register, Places, BusyPlaces
  <2>2. CASE AsideStep
    BY <1>0, <2>2, AsideSteps DEF Aside
  <2>3. CASE ~(Register \/ AsideStep)
    <3>1. clients' \subseteq clients
      BY <2>3, StepsAreThese DEF SendIdHdr, SendIdBody, Accept, BcastLock, Erase, Locked, NotifyLock,
         SendHdr, SendBody, Unlock
    <3> QED BY <3>1
  <2> QED BY <2>1, <2>2, <2>3
<1>3. \A c \in Conns : c \notin clients' => Inbox'[c] = Inbox[c]
  <2>1. [R!Next]_(R!relayVars)
    BY RelayStep
  <2>2. CASE Inbox' = Inbox
    BY <2>2
  <2>3. ASSUME NEW d \in Conns, R!Deliver(d) PROVE \A c \in Conns : c \notin clients' => Inbox'[c] = Inbox[c]
    <3>1. d \in clients' /\ (Inbox' = Inbox \/ R!Receive(d, order[Got[d] + 1]))
      BY <2>3 DEF R!Deliver
    <3>2. \A c \in Conns : c # d => Inbox'[c] = Inbox[c]
      BY <3>1 DEF R!Receive, Inbox
    <3> QED BY <3>1, <3>2
  <2> QED BY <2>1, <2>2, <2>3 DEF R!Next, R!relayVars, R!Break, R!Join, R!Publish, R!Leave
<1>4. \A c \in Conns : c \in clients /\ c \notin clients' => pc'[c] # "none"
  <2>1. ASSUME NEW c \in Conns, Erase(c) PROVE \A d \in clients : d \notin clients' => pc'[d] # "none"
    <3>1. seat[c] # 0 /\ \A d \in clients : d \in Conns /\ seat[d] # 0
      BY <1>0, <2>1 DEF IndInv, Waiting, TypeOK, Erase
    <3>2. \A d \in clients : d \notin clients' => d = c
      BY <2>1, <3>1, DistinctIds DEF RelayInv, Erase
    <3>3. pc'[c] = "notify"
      BY <1>0, <2>1 DEF Erase, EraseThen, Goto, TypeOK
    <3> QED BY <3>2, <3>3
  <2>2. CASE ~(\E c \in Conns : Erase(c))
    <3>1. AsideStep => clients' = clients
      BY <1>0, AsideSteps DEF Aside
    <3>2. clients \subseteq clients'
      BY <2>2, <3>1, StepsAreThese DEF Register, SendIdHdr, SendIdBody, Accept, BcastLock, Locked, NotifyLock,
         SendHdr, SendBody, Unlock
    <3> QED BY <3>2
  <2> QED BY <2>1, <2>2
<1>5. ASSUME NEW c \in Conns, pc'[c] = "none", c \notin clients' PROVE Inbox'[c] = {}
  <2>1. pc[c] = "none" /\ c \notin clients /\ Inbox'[c] = Inbox[c]
    BY <1>1, <1>3, <1>4, <1>5
  <2> QED BY <2>1 DEF Unspoken
<1> QED BY <1>2, <1>5 DEF Unspoken

\* Every step of the relay keeps what was heard in order.
LEMMA HeardStep ==
  ASSUME RelayInv, RelayInv', Unspoken, HeardInOrder, [Next]_vars
  PROVE  HeardInOrder'
<1>0. TypeOK /\ TypeOK' /\ \A c \in Conns : Got[c] \in Nat
  BY GotPlaces DEF RelayInv, IdInv, IndInv
<1>1. [R!Next]_(R!relayVars)
  BY RelayStep
<1>2. CASE UNCHANGED <<order, clients, Gone, Got, Inbox>>
  BY <1>2, QuietOrder
<1>3. CASE R!Break
  BY <1>3, QuietOrder DEF R!Break
<1>4. ASSUME NEW c \in Conns, R!Join(c) PROVE HeardInOrder'
  <2>1. c \notin clients /\ c \in clients'
    BY <1>4 DEF R!Join
  <2>2. Inbox[c] = {}
    BY <2>1, UnspokenStep DEF Unspoken
  <2> QED BY <1>0, <1>4, <2>2, JoinOrder
<1>5. ASSUME NEW c \in Conns, R!Publish(c) \/ R!Deliver(c) \/ R!Leave(c) PROVE HeardInOrder'
  BY <1>0, <1>5, PublishOrder, DeliverOrder, LeaveOrder
<1> QED BY <1>1, <1>2, <1>3, <1>4, <1>5 DEF R!Next, R!relayVars

\* Players receive the messages that they both receive in the same order, none of
\* them twice, and none in between is missing, however the handlers race for the
\* mutex and whoever joins and leaves (if there are no more connections than ids).
THEOREM OneOrderForAll ==
  ASSUME Cardinality(Conns) <= IdSpace PROVE Spec => [](SameOrder /\ NoGaps)
<1> DEFINE Inv == IdInv /\ Composing /\ Numbered /\ Ordered /\ Counted
<1>1. Init => Inv
  BY InitRelay
<1>2. Init => Unspoken /\ HeardInOrder
  <2> SUFFICES ASSUME Init PROVE Unspoken /\ HeardInOrder
    OBVIOUS
  <2>1. \A c \in Conns : BodiesAt("GAME", c) = {}
    BY DEF Init, BodiesAt
  <2>2. Inbox = [c \in Conns |-> {}]
    BY <2>1 DEF Inbox
  <2>3. Entries = {} /\ \A c \in Conns : Relayed(c) = {}
    BY DEF Init, Entries, Relayed
  <2> QED BY <2>2, <2>3 DEF Unspoken, HeardInOrder, Counting, Distinct, Received, Sorted, Complete, NoGaps, Init
<1>3. Inv /\ [Next]_vars => Inv'
  BY NextIds, ComposingStep, OrderStep, CountedStep DEF IdInv
<1>4. Inv => RelayInv
  <2>1. Counted => accepted <= IdSpace
    BY NoWrap DEF Counted
  <2> QED BY <2>1 DEF RelayInv
<1>5. Inv' => RelayInv'
  <2>1. Counted' => accepted' <= IdSpace
    BY NoWrap DEF Counted
  <2> QED BY <2>1 DEF RelayInv
<1>6. Inv /\ Unspoken /\ HeardInOrder /\ [Next]_vars => Unspoken' /\ HeardInOrder'
  BY <1>3, <1>4, <1>5, UnspokenStep, HeardStep
<1>7. Inv /\ Unspoken /\ HeardInOrder => SameOrder /\ NoGaps
  BY SortedAgree DEF IdInv, IndInv, HeardInOrder
<1> HIDE DEF Inv
<1> QED BY <1>1, <1>2, <1>3, <1>6, <1>7, PTL DEF Spec

-------------------------------------------------------------------------------
(* The way to the end of a loop.                                            *)

\* The calls of send() that the holder of the mutex has still to make.
Left == 2 * Cardinality(todo) - (IF hdrSent THEN 1 ELSE 0)

\* One client less is one call less, or two.
LEMMA LeftSteps ==
  ASSUME IndInv
  PROVE  /\ Left \in Nat /\ Cardinality(todo) \in Nat
         /\ \A c \in todo : Cardinality(todo \ {c}) = Cardinality(todo) - 1
<1>1. IsFiniteSet(todo)
  BY ServerAssumption, FS_Subset DEF IndInv, TypeOK
<1>2. Cardinality(todo) \in Nat /\ (todo # {} => Cardinality(todo) # 0)
  BY <1>1, FS_CardinalityType, FS_EmptySet
<1>3. hdrSent => todo # {}
  BY DEF IndInv, Locking
<1>4. \A c \in todo : Cardinality(todo \ {c}) = Cardinality(todo) - 1
  BY <1>1, FS_RemoveElement
<1> QED BY <1>2, <1>3, <1>4 DEF Left

\* Whoever holds the mutex releases it after a known number of its own steps, which
\* no other thread and no peer can raise: one for each call of send() that is left,
\* and the unlock.  So that a client waits for it for ever, a send() has to block.
THEOREM HoldersGetOn ==
  Spec => [][mutex # None => /\ Left \in Nat
                             /\ \/ mutex' = None
                                \/ /\ mutex' = mutex /\ Left' <= Left
                                   /\ Locked(mutex) => Left' < Left]_vars
<1>1. ASSUME IndInv, IndInv', [Next]_vars, mutex # None
      PROVE  /\ Left \in Nat
             /\ \/ mutex' = None
                \/ /\ mutex' = mutex /\ Left' <= Left
                   /\ Locked(mutex) => Left' < Left
  <2>1. Left \in Nat
    BY <1>1, LeftSteps
  <2>2. ASSUME NEW t \in Threads, SendHdr(t) PROVE mutex' = mutex /\ Left' < Left /\ Left' <= Left
    BY <1>1, <2>2, LeftSteps DEF SendHdr, Left
  <2>3. ASSUME NEW t \in Threads, SendBody(t) PROVE mutex' = mutex /\ Left' < Left /\ Left' <= Left
    <3>1. First(todo) \in todo
      BY <1>1, <2>3, SendingTo
    <3>2. Cardinality(todo') = Cardinality(todo) - 1
      BY <1>1, <2>3, <3>1, LeftSteps DEF SendBody
    <3> QED BY <1>1, <2>3, <3>2, LeftSteps DEF SendBody, Left
  <2>4. ASSUME NEW t \in Threads, Unlock(t) PROVE mutex' = None
    BY <2>4 DEF Unlock, Release
  <2>5. ASSUME NEW t \in Threads, NotifyLock(t) PROVE FALSE
    BY <1>1, <2>5 DEF NotifyLock, LockFree
  <2>6. ASSUME NEW t \in Threads, Locked(t) PROVE mutex' = None \/ (mutex' = mutex /\ Left' < Left /\ Left' <= Left)
    BY <2>2, <2>3, <2>4, <2>5, <2>6 DEF Locked
  <2>7. mutex \in Threads
    BY <1>1 DEF IndInv, TypeOK
  <2>8. CASE \E t \in Threads : Locked(t)
    BY <2>1, <2>6, <2>8
  <2>9. CASE ~(\E t \in Threads : Locked(t))
    <3>1. UNCHANGED <<mutex, todo, hdrSent>>
      <4>1. CASE AsideStep
        BY <1>1, <4>1, AsideSteps DEF Aside
      <4>2. CASE Register \/ SendIdHdr \/ SendIdBody \/ \E c \in Conns : Accept(c) \/ BcastLock(c) \/ Erase(c)
        BY <1>1, <4>2 DEF Register, SendIdHdr, SendIdBody, Accept, BcastLock, Erase, LockFree, lockVars
      <4> QED BY <1>1, <2>9, <4>1, <4>2, StepsAreThese
    <3> QED BY <2>1, <2>7, <2>9, <3>1 DEF Left
  <2> QED BY <2>1, <2>8, <2>9
<1> QED BY <1>1, Invariance, PTL DEF Spec

===============================================================================
