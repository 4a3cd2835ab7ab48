-------------------------------- MODULE Stream --------------------------------
(***************************************************************************)
(* A connection between a player's client and the server, byte by byte, in  *)
(* one direction: the two calls of send() of a message, its size and its    *)
(* bytes, and the reader's loop, which asks recv() for a size once and for  *)
(* the bytes as often as it takes.  The reader is Server::handleClient or   *)
(* Client::receiveMessages, whose loops are alike.                          *)
(*                                                                          *)
(* TCP is external: recv() returns any number of the bytes that it was asked *)
(* for and that are there; a connection that breaks loses any number of the *)
(* last bytes.  A byte is its position in the stream.  What the reader takes *)
(* for a size or for a message depends on the position it reads from only.  *)
(* After a break send() fails, which nobody notices, and does nothing.      *)
(***************************************************************************)
EXTENDS Naturals, Sequences

CONSTANTS
  Lengths,      \* lengths of a message's content
  MaxMessages,  \* bound: messages sent
  MaxSize       \* bound: the sizes that bytes other than a size can amount to; the
                \* largest stands also for those that no buffer can have

ASSUME StreamAssumption ==
  Lengths \subseteq Nat /\ MaxMessages \in Nat /\ MaxSize \in Nat

VARIABLES
  tx, cur,          \* the sender: where it is in sendMessage, its message
  written,          \* bytes in the stream
  sent,             \* history: messages sent as a whole
  broken,           \* the connection is closed or lost
  rx, taken,        \* the reader: where it is, bytes it has received
  size, got,        \* msgSize and totalReceived
  delivered,        \* history: the messages it has made of the bytes
  reading,          \* isRunning of the server, isConnected of the client
  torn              \* history: a recv() returned a part of a size

txVars == <<tx, cur, written, sent>>
rxVars == <<rx, taken, size, got, delivered, torn>>
vars == <<txVars, rxVars, broken, reading>>

Kinds == {"event", "snapshot"}
Header == 4       \* sizeof(uint32_t)
Prefix == 2       \* messageType and senderID

Message == [id : Nat, kind : Kinds, size : Nat, at : Nat]

Least(a, b) == IF a < b THEN a ELSE b

\* The messages whose size is in the stream.
Begun == {sent[n] : n \in 1 .. Len(sent)} \cup (IF tx = "body" THEN {cur} ELSE {})

\* The sizes that bytes of the stream, or of the stack, may be taken for.
AnySize == 0 .. MaxSize

\* What four bytes from position p on amount to.
SizesAt(p) == LET here == {m \in Begun : m.at = p}
              IN  IF here = {} THEN AnySize ELSE {m.size : m \in here}

\* A message made of bytes that are not one; which one does not matter.
Garbled == [id |-> 0, kind |-> "event", size |-> Prefix, at |-> 0]

\* What the s bytes from position p on are taken for.
MessagesAt(p, s) == LET here == {m \in Begun : m.at + Header = p /\ m.size = s}
                    IN  IF here = {} THEN {Garbled} ELSE here

Init ==
  /\ tx = "idle" /\ cur = [id |-> 0, kind |-> "snapshot", size |-> 0, at |-> 0]
  /\ written = 0 /\ sent = <<>>
  /\ broken = FALSE /\ reading = TRUE
  /\ rx = "loop" /\ taken = 0 /\ size = 0 /\ got = 0 /\ delivered = <<>>
  /\ torn = FALSE

-------------------------------------------------------------------------------
(* HobbitClient::writeMessage and Client::sendMessage.                      *)

\* Mutant: a message is sent though there is nothing to tell.
Always(n) == n >= 0
HasContent(n) == n > 0

Compose(k, n) ==
  /\ tx = "idle" /\ ~broken /\ Len(sent) < MaxMessages
  /\ HasContent(n)
  /\ cur' = [id |-> Len(sent) + 1, kind |-> k, size |-> Prefix + n, at |-> written]
  /\ tx' = "size"
  /\ UNCHANGED <<written, sent, rxVars, broken, reading>>

SendSize ==
  /\ tx = "size" /\ ~broken
  /\ written' = written + Header
  /\ tx' = "body"
  /\ UNCHANGED <<cur, sent, rxVars, broken, reading>>

SendBody ==
  /\ tx = "body" /\ ~broken
  /\ written' = written + cur.size
  /\ sent' = Append(sent, cur)
  /\ tx' = "idle"
  /\ UNCHANGED <<cur, rxVars, broken, reading>>

-------------------------------------------------------------------------------
(* The reader.                                                              *)

\* while (isRunning), while (isConnected)
Loop ==
  /\ rx = "loop"
  /\ rx' = IF reading THEN "size" ELSE "ended"
  /\ UNCHANGED <<txVars, taken, size, got, delivered, torn, broken, reading>>

\* recv() of the size, once.  With fewer than four bytes the others are what the
\* stack held.
RecvSize ==
  /\ rx = "size"
  /\ \E k \in 1 .. Least(Header, written - taken) :
       /\ taken' = taken + k
       /\ size' \in IF k = Header THEN SizesAt(taken) ELSE AnySize
       /\ torn' = (torn \/ k # Header)
  /\ got' = 0
  /\ rx' = "body"
  /\ UNCHANGED <<txVars, delivered, broken, reading>>

\* Bytes other than a size may amount to more than std::vector can allocate, which
\* throws and ends the program, or than the int that recv() takes, which then fails.
SizeTooLarge ==
  /\ rx = "body" /\ got = 0 /\ torn /\ size = MaxSize
  /\ rx' \in {"ended", "crashed"}
  /\ UNCHANGED <<txVars, taken, size, got, delivered, torn, broken, reading>>

\* What the inner loop still asks for.  Mutant: one byte too many.
MissingOne == size - got + 1
Missing == size - got

RecvBody ==
  /\ rx = "body" /\ Missing > 0
  /\ \E k \in 1 .. Least(Missing, written - taken) : taken' = taken + k /\ got' = got + k
  /\ UNCHANGED <<txVars, rx, size, delivered, torn, broken, reading>>

\* deserializeMessage needs a type and a sender.
Deserialize ==
  /\ rx = "body" /\ Missing <= 0
  /\ IF size < Prefix
     THEN UNCHANGED delivered
     ELSE \E m \in MessagesAt(taken - got, size) : delivered' = Append(delivered, m)
  /\ rx' = "loop" /\ size' = 0 /\ got' = 0
  /\ UNCHANGED <<txVars, taken, torn, broken, reading>>

\* recv() has nothing more to return.
Over == broken /\ taken = written

RecvSizeFails ==
  /\ rx = "size" /\ Over
  /\ rx' = "ended"
  /\ UNCHANGED <<txVars, taken, size, got, delivered, torn, broken, reading>>

\* Both loops are left, and the bytes received thrown away.  Mutants: the message
\* is made of what there is; the inner loop goes on.
KeepPart == rx' = "loop" /\ delivered' = Append(delivered, Garbled)
TryAgain == UNCHANGED <<rx, delivered>>
GiveUp == rx' = "ended" /\ UNCHANGED delivered

RecvBodyFails ==
  /\ rx = "body" /\ Missing > 0 /\ Over
  /\ GiveUp
  /\ UNCHANGED <<txVars, taken, size, got, torn, broken, reading>>

-------------------------------------------------------------------------------
(* Server::stop, Client::disconnect.                                        *)
Stop ==
  /\ reading /\ reading' = FALSE
  /\ UNCHANGED <<txVars, rxVars, broken>>

\* The connection is closed or breaks.
Break ==
  /\ ~broken /\ broken' = TRUE
  /\ written' \in taken .. written
  /\ UNCHANGED <<tx, cur, sent, rxVars, reading>>

-------------------------------------------------------------------------------
Sender == SendSize \/ SendBody

Reader == Loop \/ RecvSize \/ RecvBody \/ Deserialize \/ RecvSizeFails \/ RecvBodyFails

Next == \/ \E k \in Kinds, n \in Lengths : Compose(k, n)
        \/ Sender \/ Reader \/ SizeTooLarge \/ Stop \/ Break

Spec == Init /\ [][Next]_vars

\* The threads run; nothing is assumed of breaks and of what there is to send.
FairSpec == Spec /\ WF_vars(Sender) /\ WF_vars(Reader)

-------------------------------------------------------------------------------
(* Properties.                                                              *)

\* Every variable has values of its type.
TypeOK ==
  /\ tx \in {"idle", "size", "body"} /\ cur \in Message /\ written \in Nat
  /\ sent \in Seq(Message) /\ delivered \in Seq(Message)
  /\ rx \in {"loop", "size", "body", "ended", "crashed"}
  /\ taken \in Nat /\ size \in Nat /\ got \in Nat
  /\ broken \in BOOLEAN /\ reading \in BOOLEAN /\ torn \in BOOLEAN

\* The reader gets what was sent, whole and in order, whatever pieces recv()
\* returns it in and wherever the connection breaks, unless a size was torn.
AsChannel == INSTANCE Channel
ImplementsChannel == AsChannel!Spec

\* No event without content is delivered, as long as no size was torn:
\* readMessage would never pop it.
NoEmptyEvent ==
  ~torn => \A n \in 1 .. Len(delivered) : delivered[n].kind = "event" => delivered[n].size > Prefix

\* What was sent is delivered, unless the connection breaks, the reader is
\* stopped or a size was torn.
EverythingArrives ==
  \A n \in 1 .. MaxMessages :
    Len(sent) >= n ~> (Len(delivered) >= n \/ broken \/ ~reading \/ torn)

\* When the connection is over the reader ends, also in the middle of a message
\* and also if it lost its place (unless that ended the whole program).
ReaderEnds == broken ~> rx \in {"ended", "crashed"}

===============================================================================
