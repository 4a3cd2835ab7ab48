----------------------------- MODULE StreamProofs -----------------------------
(***************************************************************************)
(* Proofs about Stream: its types, and that it implements Channel, for any  *)
(* lengths of messages, any number of them and any way recv() cuts them.    *)
(***************************************************************************)
EXTENDS Stream, TLAPS

-------------------------------------------------------------------------------
(* Types.                                                                   *)

\* A message is a record of these fields.
LEMMA MessageTypes ==
  ASSUME NEW k \in Kinds, NEW n \in Nat, NEW i \in Nat, NEW p \in Nat
  PROVE  [id |-> i, kind |-> k, size |-> n, at |-> p] \in Message
BY DEF Message

\* No message is a sequence of messages.
LEMMA EmptyLog == <<>> \in Seq(Message)
OBVIOUS

\* The messages sent and the one under way are messages.
LEMMA BegunAreMessages ==
  ASSUME TypeOK
  PROVE  Begun \subseteq Message
<1>1. \A n \in 1 .. Len(sent) : sent[n] \in Message
  BY DEF TypeOK
<1>2. cur \in Message
  BY DEF TypeOK
<1> QED BY <1>1, <1>2 DEF Begun

\* What is read as a size is a number.
LEMMA SizesAreSizes ==
  ASSUME TypeOK, NEW p \in Nat
  PROVE  SizesAt(p) \subseteq Nat
<1>1. AnySize \subseteq Nat
  BY StreamAssumption DEF AnySize
<1>2. \A m \in Begun : m.size \in Nat
  BY BegunAreMessages DEF Message
<1> QED BY <1>1, <1>2 DEF SizesAt

\* What is read as a message is one.
LEMMA MessagesAreMessages ==
  ASSUME TypeOK, NEW p, NEW s
  PROVE  MessagesAt(p, s) \subseteq Message
<1>1. Begun \subseteq Message
  BY BegunAreMessages
<1>2. Garbled \in Message
  BY MessageTypes DEF Garbled, Kinds, Prefix
<1> QED BY <1>1, <1>2 DEF MessagesAt

\* The types, at the start of a connection.
LEMMA TypeInit == Init => TypeOK
<1> SUFFICES ASSUME Init PROVE TypeOK
  OBVIOUS
<1>1. cur \in Message
  BY MessageTypes DEF Init, Kinds
<1>2. sent \in Seq(Message) /\ delivered \in Seq(Message)
  BY EmptyLog DEF Init
<1> QED BY <1>1, <1>2 DEF Init, TypeOK

\* Every step keeps the types.
LEMMA TypeStep == TypeOK /\ [Next]_vars => TypeOK'
<1> SUFFICES ASSUME TypeOK, [Next]_vars PROVE TypeOK'
  OBVIOUS
<1> USE StreamAssumption DEF TypeOK, Header, Prefix
<1>1. ASSUME NEW k \in Kinds, NEW n \in Lengths, Compose(k, n) PROVE TypeOK'
  <2>1. cur' \in Message
    BY <1>1, MessageTypes DEF Compose
  <2> QED BY <1>1, <2>1 DEF Compose, rxVars
<1>2. CASE SendSize
  BY <1>2 DEF SendSize, rxVars
<1>3. CASE SendBody
  BY <1>3 DEF SendBody, rxVars, Message
<1>4. CASE Loop
  BY <1>4 DEF Loop, txVars
<1>5. CASE RecvSize
  <2>1. PICK k \in 1 .. Least(Header, written - taken) :
          /\ taken' = taken + k
          /\ size' \in IF k = Header THEN SizesAt(taken) ELSE AnySize
          /\ torn' = (torn \/ k # Header)
    BY <1>5 DEF RecvSize
  <2>2. k \in Nat
    BY DEF Least
  <2>3. taken' \in Nat /\ torn' \in BOOLEAN
    BY <2>1, <2>2
  <2>4. size' \in Nat
    BY <2>1, SizesAreSizes DEF AnySize
  <2> QED BY <1>5, <2>3, <2>4 DEF RecvSize, txVars
<1>6. CASE RecvBody
  <2>1. PICK k \in 1 .. Least(Missing, written - taken) : taken' = taken + k /\ got' = got + k
    BY <1>6 DEF RecvBody
  <2>2. k \in Nat
    BY DEF Least, Missing
  <2>3. taken' \in Nat /\ got' \in Nat
    BY <2>1, <2>2
  <2> QED BY <1>6, <2>3 DEF RecvBody, txVars
<1>7. CASE Deserialize
  <2>1. delivered' \in Seq(Message)
    <3>1. CASE size < Prefix
      BY <3>1, <1>7 DEF Deserialize
    <3>2. CASE ~(size < Prefix)
      <4>1. PICK m \in MessagesAt(taken - got, size) : delivered' = Append(delivered, m)
        BY <3>2, <1>7 DEF Deserialize
      <4>2. m \in Message
        BY MessagesAreMessages
      <4> QED BY <4>1, <4>2
    <3> QED BY <3>1, <3>2
  <2> QED BY <1>7, <2>1 DEF Deserialize, txVars
<1>8. CASE RecvSizeFails
  BY <1>8 DEF RecvSizeFails, txVars
<1>9. CASE RecvBodyFails
  BY <1>9 DEF RecvBodyFails, GiveUp, txVars
<1>10. CASE Stop
  BY <1>10 DEF Stop, txVars, rxVars
<1>11. CASE Break
  BY <1>11 DEF Break, rxVars
<1>12. CASE UNCHANGED vars
  BY <1>12 DEF vars, txVars, rxVars
<1>13. CASE SizeTooLarge
  BY <1>13 DEF SizeTooLarge, txVars
<1> QED BY <1>1, <1>2, <1>3, <1>4, <1>5, <1>6, <1>7, <1>8, <1>9, <1>10, <1>11, <1>12, <1>13
        DEF Next, Sender, Reader

\* Every variable keeps its type.
THEOREM TypeCorrectness == Spec => []TypeOK
  BY TypeInit, TypeStep, PTL DEF Spec


-------------------------------------------------------------------------------
(* The invariant: where the messages are in the stream, and where in it the *)
(* reader is.                                                               *)

\* The position after the messages sent, and that of the n-th message.
End == IF sent = <<>> THEN 0 ELSE sent[Len(sent)].at + Header + sent[Len(sent)].size
At(n) == IF n <= Len(sent) THEN sent[n].at ELSE End

\* The messages follow one another, without gaps, and none is empty.
Laid ==
  /\ At(1) = 0
  /\ \A n \in 1 .. Len(sent) : /\ sent[n].size > Prefix
                               /\ At(n + 1) = At(n) + Header + sent[n].size
  /\ \A i, j \in 1 .. Len(sent) : i < j => sent[i].at < sent[j].at
  /\ \A n \in 1 .. Len(sent) : sent[n].at < End

\* The message under way comes after them.
Sending == tx # "idle" => cur.at = End /\ cur.size > Prefix

\* What is in the stream: less than was sent once the connection is broken.
Writing ==
  LET all == IF tx = "body" THEN End + Header ELSE End
  IN  /\ IF broken THEN written <= all ELSE written = all
      /\ taken <= written

\* The messages delivered are the first ones that were sent.
InOrder ==
  ~torn => /\ Len(delivered) <= Len(sent)
           /\ \A n \in 1 .. Len(delivered) : delivered[n] = sent[n]

\* The reader is at the next one, or in it.
Following ==
  LET next == Len(delivered) + 1
  IN  ~torn => /\ rx \in {"loop", "size"} => taken = At(next)
               /\ rx = "body" =>
                    /\ taken = At(next) + Header + got /\ got <= size
                    /\ \/ next <= Len(sent) /\ size = sent[next].size
                       \/ next = Len(sent) + 1 /\ tx = "body" /\ size = cur.size /\ got = 0

IndInv == TypeOK /\ Laid /\ Sending /\ Writing /\ InOrder /\ Following

\* The invariant, at the start of a connection.
LEMMA InitInv == Init => IndInv
<1> SUFFICES ASSUME Init PROVE IndInv
  OBVIOUS
<1>1. TypeOK
  BY TypeInit
<1>2. Len(sent) = 0 /\ Len(delivered) = 0
  BY DEF Init
<1> QED BY <1>1, <1>2 DEF Init, IndInv, Laid, Sending, Writing, InOrder, Following, At, End

\* Positions are numbers, and no two messages have the same.
LEMMA Positions ==
  ASSUME TypeOK, Laid
  PROVE  /\ Len(sent) \in Nat /\ End \in Nat
         /\ cur.at \in Nat /\ cur.size \in Nat
         /\ \A n \in 1 .. Len(sent) :
              sent[n].at \in Nat /\ sent[n].size \in Nat /\ sent[n].at < End
         /\ \A i, j \in 1 .. Len(sent) : sent[i].at = sent[j].at => i = j
<1>1. \A n \in 1 .. Len(sent) : sent[n] \in Message
  BY DEF TypeOK
<1>2. \A m \in Message : m.at \in Nat /\ m.size \in Nat
  BY DEF Message
<1>3. Len(sent) \in Nat /\ cur.at \in Nat /\ cur.size \in Nat
  BY <1>2 DEF TypeOK
<1>4. \A n \in 1 .. Len(sent) : sent[n].at \in Nat /\ sent[n].size \in Nat
  BY <1>1, <1>2
<1>5. End \in Nat
  <2>1. CASE sent = <<>>
    BY <2>1 DEF End
  <2>2. CASE sent # <<>>
    <3>1. Len(sent) \in 1 .. Len(sent)
      BY <2>2, <1>3 DEF TypeOK
    <3> QED BY <3>1, <2>2, <1>4 DEF End, Header
  <2> QED BY <2>1, <2>2
<1>6. \A n \in 1 .. Len(sent) : sent[n].at < End
  BY DEF Laid
<1>7. ASSUME NEW i \in 1 .. Len(sent), NEW j \in 1 .. Len(sent), sent[i].at = sent[j].at
      PROVE  i = j
  <2>1. ~(sent[i].at < sent[j].at) /\ ~(sent[j].at < sent[i].at)
    BY <1>7, <1>4
  <2> QED BY <2>1, <1>3 DEF Laid
<1> QED BY <1>3, <1>4, <1>5, <1>6, <1>7

\* A message that is sent lies behind the others.
LEMMA SentBehind ==
  ASSUME IndInv, SendBody, TypeOK'
  PROVE  /\ Len(sent') = Len(sent) + 1
         /\ \A n \in 1 .. Len(sent) : sent'[n] = sent[n]
         /\ sent'[Len(sent) + 1] = cur
         /\ End' = End + Header + cur.size
         /\ Laid'
<1> USE DEF IndInv, TypeOK, SendBody
<1>1. cur.at = End /\ cur.size > Prefix /\ cur.size \in Nat
  BY Positions DEF Sending
<1>2. /\ Len(sent') = Len(sent) + 1
      /\ \A n \in 1 .. Len(sent) : sent'[n] = sent[n]
      /\ sent'[Len(sent) + 1] = cur
  OBVIOUS
<1>4. Len(sent) \in Nat /\ End \in Nat
  BY Positions
<1>3. End' = End + Header + cur.size
  <2>1. sent' # <<>>
    BY <1>2, <1>4
  <2> QED BY <2>1, <1>1, <1>2 DEF End
<1>5. \A n \in 1 .. Len(sent) + 1 : At(n)' = At(n)
  BY <1>1, <1>2, <1>4 DEF At
<1>6. At(Len(sent) + 1) = End /\ End < End' /\ End' \in Nat
  <2>1. At(Len(sent) + 1) = End
    BY <1>4 DEF At
  <2> HIDE DEF IndInv, TypeOK, SendBody
  <2>2. \A e, z \in Nat : e < e + 4 + z /\ e + 4 + z \in Nat
    OBVIOUS
  <2>3. Header = 4
    BY DEF Header
  <2> QED BY <1>1, <1>3, <1>4, <2>1, <2>2, <2>3
<1>7. ASSUME NEW n \in 1 .. Len(sent')
      PROVE  sent'[n].size > Prefix /\ At(n + 1)' = At(n)' + Header + sent'[n].size
  <2>1. CASE n \in 1 .. Len(sent)
    BY <2>1, <1>2, <1>4, <1>5 DEF Laid
  <2>2. CASE n = Len(sent) + 1
    <3>1. ~(n + 1 <= Len(sent'))
      BY <2>2, <1>2, <1>4
    <3>2. At(n + 1)' = End + Header + cur.size
      BY <3>1, <1>3 DEF At
    <3>3. At(n)' = End /\ sent'[n] = cur
      BY <2>2, <1>2, <1>4, <1>5, <1>6
    <3> QED BY <3>2, <3>3, <1>1
  <2> QED BY <2>1, <2>2, <1>2, <1>4
<1>8. ASSUME NEW i \in 1 .. Len(sent'), NEW j \in 1 .. Len(sent'), i < j
      PROVE  sent'[i].at < sent'[j].at
  <2>1. i \in 1 .. Len(sent)
    BY <1>8, <1>2, <1>4
  <2>2. CASE j \in 1 .. Len(sent)
    BY <2>1, <2>2, <1>8, <1>2 DEF Laid
  <2>3. CASE j = Len(sent) + 1
    BY <2>1, <2>3, <1>1, <1>2 DEF Laid
  <2> QED BY <2>2, <2>3, <1>2, <1>4
<1>9. ASSUME NEW n \in 1 .. Len(sent') PROVE sent'[n].at < End'
  <2>1. CASE n \in 1 .. Len(sent)
    <3>1. sent[n].at < End /\ sent[n].at \in Nat
      BY <2>1, Positions
    <3>2. sent'[n] = sent[n]
      BY <2>1, <1>2
    <3>3. \A a, b, c \in Nat : a < b /\ b < c => a < c
      OBVIOUS
    <3> HIDE DEF IndInv, TypeOK, SendBody
    <3> QED BY <3>1, <3>2, <3>3, <1>4, <1>6
  <2>2. CASE n = Len(sent) + 1
    <3>1. sent'[n] = cur
      BY <2>2, <1>2
    <3> HIDE DEF IndInv, TypeOK, SendBody
    <3> QED BY <3>1, <1>1, <1>6
  <2> QED BY <2>1, <2>2, <1>2, <1>4
<1>10. At(1)' = 0
  BY <1>5, <1>4 DEF Laid
<1> QED BY <1>2, <1>3, <1>7, <1>8, <1>9, <1>10 DEF Laid

\* At the position of the next message, four bytes are its size.
LEMMA SizeOfNext ==
  ASSUME IndInv, ~torn, rx = "size", Header <= written - taken
  PROVE  \/ /\ Len(delivered) + 1 <= Len(sent)
            /\ SizesAt(taken) = {sent[Len(delivered) + 1].size}
         \/ /\ Len(delivered) = Len(sent) /\ tx = "body"
            /\ SizesAt(taken) = {cur.size}
<1> USE DEF IndInv, TypeOK
<1> DEFINE next == Len(delivered) + 1
<1>1. taken = At(next) /\ Len(delivered) <= Len(sent) /\ Len(delivered) \in Nat /\ Len(sent) \in Nat
  BY DEF Following, InOrder
<1>2. \A n \in 1 .. Len(sent) : sent[n].at < End /\ sent[n].at \in Nat
  BY Positions
<1>3. End \in Nat
  BY Positions
<1>4. tx = "body" => cur.at = End
  BY DEF Sending
<1>5. CASE next <= Len(sent)
  <2>1. next \in 1 .. Len(sent) /\ taken = sent[next].at
    BY <1>5, <1>1 DEF At
  <2>2. \A n \in 1 .. Len(sent) : sent[n].at = taken => n = next
    BY <2>1, Positions
  <2>3. sent[next] \in Begun
    BY <2>1 DEF Begun
  <2>4. \A m \in Begun : m.at = taken => m = sent[next]
    <3> SUFFICES ASSUME NEW m \in Begun, m.at = taken PROVE m = sent[next]
      OBVIOUS
    <3>1. CASE \E n \in 1 .. Len(sent) : m = sent[n]
      BY <3>1, <2>2
    <3>2. CASE tx = "body" /\ m = cur
      BY <3>2, <2>1, <1>2, <1>3, <1>4
    <3> QED BY <3>1, <3>2 DEF Begun
  <2>5. SizesAt(taken) = {sent[next].size}
    BY <2>1, <2>3, <2>4 DEF SizesAt
  <2> QED BY <2>5, <1>5
<1>6. CASE next > Len(sent)
  <2>1. taken = End /\ Len(delivered) = Len(sent)
    BY <1>6, <1>1 DEF At
  <2>2. tx = "body"
    BY <2>1, <1>3 DEF Writing, Header
  <2>3. cur \in Begun /\ cur.at = taken
    BY <2>1, <2>2, <1>4 DEF Begun
  <2>4. \A m \in Begun : m.at = taken => m = cur
    BY <2>1, <1>2, <1>3 DEF Begun
  <2>5. SizesAt(taken) = {cur.size}
    BY <2>3, <2>4 DEF SizesAt
  <2> QED BY <2>1, <2>2, <2>5
<1> QED BY <1>1, <1>5, <1>6

\* When all its bytes are there, they are the next message.
LEMMA NextIsRead ==
  ASSUME IndInv, ~torn, rx = "body", ~(Missing > 0)
  PROVE  /\ got = size /\ Len(delivered) + 1 <= Len(sent) /\ size > Prefix
         /\ taken = At(Len(delivered) + 2)
         /\ MessagesAt(taken - got, size) = {sent[Len(delivered) + 1]}
<1> USE DEF IndInv, TypeOK
<1> DEFINE next == Len(delivered) + 1
<1>1. Len(delivered) \in Nat /\ Len(sent) \in Nat /\ Len(delivered) <= Len(sent)
  BY DEF InOrder
<1>2. got = size /\ taken = At(next) + Header + got
  BY DEF Following, Missing
<1>3. tx = "body" => cur.size > 0 /\ cur.at = End
  BY DEF Sending, Prefix, Message
<1>4. next <= Len(sent) /\ size = sent[next].size
  BY <1>2, <1>3 DEF Following
<1>5. next \in 1 .. Len(sent)
  BY <1>1, <1>4
<1>6. \A n \in 1 .. Len(sent) : sent[n].at < End /\ sent[n].at \in Nat
  BY Positions
<1>7. At(next) = sent[next].at /\ taken - got = sent[next].at + Header
  <2>1. At(next) = sent[next].at
    BY <1>4 DEF At
  <2>2. sent[next].at \in Nat /\ got \in Nat
    BY <1>5, <1>6
  <2> HIDE DEF IndInv, TypeOK
  <2>3. \A a, h, g \in Nat : (a + h + g) - g = a + h
    OBVIOUS
  <2>4. Header \in Nat
    BY DEF Header
  <2> QED BY <1>2, <2>1, <2>2, <2>3, <2>4
<1>8. \A n \in 1 .. Len(sent) : sent[n].at = sent[next].at => n = next
  BY <1>5, Positions
<1>9. sent[next] \in Begun
  BY <1>5 DEF Begun
<1>10. End \in Nat
  BY Positions
<1>11. \A m \in Begun : m.at + Header = taken - got => m = sent[next]
  <2> SUFFICES ASSUME NEW m \in Begun, m.at + Header = taken - got PROVE m = sent[next]
    OBVIOUS
  <2>1. m.at \in Nat
    BY BegunAreMessages DEF Message
  <2>2. m.at = sent[next].at
    BY <2>1, <1>5, <1>6, <1>7 DEF Header
  <2>3. CASE \E n \in 1 .. Len(sent) : m = sent[n]
    BY <2>2, <2>3, <1>8
  <2>4. CASE tx = "body" /\ m = cur
    BY <2>2, <2>4, <1>3, <1>5, <1>6, <1>10
  <2> QED BY <2>3, <2>4 DEF Begun
<1>12. MessagesAt(taken - got, size) = {sent[next]}
  BY <1>4, <1>7, <1>9, <1>11 DEF MessagesAt
<1>13. At(next + 1) = At(next) + Header + sent[next].size /\ sent[next].size > Prefix
  BY <1>5 DEF Laid
<1> QED BY <1>1, <1>2, <1>4, <1>12, <1>13

-------------------------------------------------------------------------------
(* The steps.  What the reader and the sender leave alone.                  *)

\* Whatever the sender writes goes after what it wrote before.
LEMMA SenderSteps ==
  ASSUME IndInv, TypeOK',
         \/ \E k \in Kinds, n \in Lengths : Compose(k, n)
         \/ SendSize \/ SendBody
  PROVE  IndInv'
<1> USE DEF IndInv
<1>1. UNCHANGED rxVars /\ ~broken /\ UNCHANGED broken
  BY DEF Compose, SendSize, SendBody
<1>2. TypeOK /\ taken \in Nat /\ written \in Nat /\ Len(delivered) \in Nat
  BY DEF TypeOK
<1>3. CASE \E k \in Kinds, n \in Lengths : Compose(k, n)
  <2>1. PICK k \in Kinds, n \in Lengths : Compose(k, n)
    BY <1>3
  <2>2. UNCHANGED <<sent, written>> /\ tx = "idle" /\ tx' = "size"
    BY <2>1 DEF Compose
  <2>3. cur'.at = written /\ cur'.size = Prefix + n /\ n > 0 /\ n \in Nat
    BY <2>1, StreamAssumption DEF Compose, HasContent
  <2>4. End' = End /\ written = End
    BY <2>2, <1>1 DEF End, Writing
  <2>5. Laid'
    BY <2>2, <2>4 DEF Laid, At, End
  <2>6. Sending'
    BY <2>3, <2>4 DEF Sending, Prefix
  <2>7. Writing'
    BY <2>2, <2>4, <1>1 DEF Writing, rxVars
  <2>8. InOrder' /\ Following'
    BY <2>2, <1>1 DEF InOrder, Following, At, End, rxVars
  <2> QED BY <2>5, <2>6, <2>7, <2>8
<1>4. CASE SendSize
  <2>1. UNCHANGED <<sent, cur>> /\ tx = "size" /\ tx' = "body" /\ written' = written + Header
    BY <1>4 DEF SendSize
  <2>2. Laid' /\ Sending'
    BY <2>1 DEF Laid, Sending, At, End
  <2>3. Writing'
    BY <2>1, <1>1, <1>2 DEF Writing, End, Header, rxVars
  <2>4. InOrder' /\ Following'
    BY <2>1, <1>1 DEF InOrder, Following, At, End, rxVars
  <2> QED BY <2>2, <2>3, <2>4
<1>5. CASE SendBody
  <2>1. tx = "body" /\ tx' = "idle" /\ written' = written + cur.size
    BY <1>5 DEF SendBody
  <2>2. /\ Len(sent') = Len(sent) + 1
        /\ \A n \in 1 .. Len(sent) : sent'[n] = sent[n]
        /\ sent'[Len(sent) + 1] = cur
        /\ End' = End + Header + cur.size
        /\ Laid'
    BY <1>5, SentBehind
  <2>3. Sending'
    BY <2>1 DEF Sending
  <2>4. Len(sent) \in Nat /\ End \in Nat /\ cur.size \in Nat /\ cur.at = End
    BY <2>1, Positions DEF Sending
  <2>5. Writing'
    BY <2>1, <2>2, <2>4, <1>1, <1>2 DEF Writing, Header, rxVars
  <2>6. InOrder'
    BY <2>2, <2>4, <1>1, <1>2 DEF InOrder, rxVars
  <2>7. Following'
    <3> DEFINE next == Len(delivered) + 1
    <3> SUFFICES ASSUME ~torn PROVE Following'
      BY <1>1 DEF Following, rxVars
    <3>1. next \in Nat /\ next >= 1 /\ next <= Len(sent) + 1
      BY <1>2, <2>4 DEF InOrder
    <3>2. At(next)' = At(next)
      BY <3>1, <2>2, <2>4, <1>1 DEF At, rxVars
    <3>3. next <= Len(sent) => next <= Len(sent') /\ sent'[next] = sent[next]
      BY <3>1, <2>2, <2>4
    <3>4. next = Len(sent) + 1 => next <= Len(sent') /\ sent'[next] = cur
      BY <2>2, <2>4
    <3>5. rx = "body" => got \in Nat /\ got <= size
      BY DEF Following, TypeOK
    <3> QED BY <3>2, <3>3, <3>4, <3>5, <1>1 DEF Following, rxVars
  <2> QED BY <2>2, <2>3, <2>5, <2>6, <2>7
<1> QED BY <1>3, <1>4, <1>5

\* What the sender did stays as it is.
LEMMA SenderUntouched ==
  ASSUME IndInv, UNCHANGED txVars
  PROVE  Laid' /\ Sending' /\ End' = End /\ \A n : At(n)' = At(n)
BY DEF IndInv, Laid, Sending, At, End, txVars

\* The size that is read is that of the next message.
LEMMA RecvSizeStep ==
  ASSUME IndInv, RecvSize, TypeOK'
  PROVE  IndInv'
<1> USE DEF IndInv
<1>1. PICK k \in 1 .. Least(Header, written - taken) :
        /\ taken' = taken + k
        /\ size' \in IF k = Header THEN SizesAt(taken) ELSE AnySize
        /\ torn' = (torn \/ k # Header)
  BY DEF RecvSize
<1>2. /\ rx = "size" /\ rx' = "body" /\ got' = 0
      /\ UNCHANGED txVars /\ UNCHANGED delivered /\ UNCHANGED broken
  BY DEF RecvSize
<1>3. taken \in Nat /\ written \in Nat /\ Len(delivered) \in Nat /\ torn \in BOOLEAN
  BY DEF TypeOK
<1>4. Laid' /\ Sending' /\ End' = End /\ \A n : At(n)' = At(n)
  BY <1>2, SenderUntouched
<1>5. k \in Nat /\ k <= written - taken
  BY <1>3 DEF Least, Header
<1>6. Writing'
  BY <1>1, <1>2, <1>3, <1>4, <1>5 DEF Writing, txVars
<1>7. InOrder'
  BY <1>1, <1>2, <1>3 DEF InOrder, txVars
<1>8. Following'
  <2> SUFFICES ASSUME ~torn' PROVE Following'
    BY DEF Following
  <2>1. ~torn /\ k = Header /\ Header <= written - taken
    BY <1>1, <1>3, <1>5
  <2>2. taken = At(Len(delivered) + 1)
    BY <2>1, <1>2 DEF Following
  <2>3. size' \in SizesAt(taken) /\ taken' = taken + Header
    BY <2>1, <1>1
  <2>4. taken' = At(Len(delivered) + 1) + Header + got' /\ got' <= size'
    BY <2>2, <2>3, <1>2, <1>3 DEF TypeOK, Header
  <2>5. CASE /\ Len(delivered) + 1 <= Len(sent)
             /\ SizesAt(taken) = {sent[Len(delivered) + 1].size}
    BY <2>5, <2>3, <2>4, <1>2, <1>4 DEF Following, txVars, At, End
  <2>6. CASE /\ Len(delivered) = Len(sent) /\ tx = "body"
             /\ SizesAt(taken) = {cur.size}
    BY <2>6, <2>3, <2>4, <1>2, <1>4 DEF Following, txVars, At, End
  <2> QED BY <2>1, <2>5, <2>6, <1>2, SizeOfNext
<1> QED BY <1>4, <1>6, <1>7, <1>8

\* The bytes that are read are of the message whose size was read.
LEMMA RecvBodyStep ==
  ASSUME IndInv, RecvBody, TypeOK'
  PROVE  IndInv'
<1> USE DEF IndInv
<1>1. PICK k \in 1 .. Least(Missing, written - taken) : taken' = taken + k /\ got' = got + k
  BY DEF RecvBody
<1>2. /\ rx = "body" /\ UNCHANGED rx /\ UNCHANGED size /\ UNCHANGED txVars
      /\ UNCHANGED delivered /\ UNCHANGED torn /\ UNCHANGED broken
  BY DEF RecvBody
<1>3. taken \in Nat /\ written \in Nat /\ got \in Nat /\ size \in Nat
  BY DEF TypeOK
<1>4. Laid' /\ Sending' /\ End' = End /\ \A n : At(n)' = At(n)
  BY <1>2, SenderUntouched
<1>5. k \in Nat /\ k >= 1 /\ k <= written - taken /\ k <= size - got
  BY <1>3 DEF Least, Missing
<1>6. Writing'
  BY <1>1, <1>2, <1>3, <1>4, <1>5 DEF Writing, txVars
<1>7. InOrder'
  BY <1>2 DEF InOrder, txVars
<1>8. Following'
  <2> SUFFICES ASSUME ~torn PROVE Following'
    BY <1>2 DEF Following
  <2> DEFINE next == Len(delivered) + 1
  <2>1. next <= Len(sent) /\ size = sent[next].size
    <3> SUFFICES ASSUME next = Len(sent) + 1, tx = "body", got = 0 PROVE FALSE
      BY <1>2 DEF Following
    <3>1. Len(sent) \in Nat /\ End \in Nat
      BY Positions
    <3>2. At(next) = End
      BY <3>1 DEF At
    <3>3. taken = End + Header + got
      BY <3>2, <1>2 DEF Following
    <3>4. written <= End + Header
      BY <3>1 DEF Writing, Header
    <3> QED BY <3>1, <3>3, <3>4, <1>3, <1>5 DEF Header
  <2>2. next \in 1 .. Len(sent)
    BY <2>1 DEF TypeOK
  <2>3. At(next) \in Nat
    BY <2>1, <2>2, Positions DEF At
  <2>4. taken' = At(next) + Header + got' /\ got' <= size
    BY <2>3, <1>1, <1>2, <1>3, <1>5 DEF Following, Header
  <2> QED BY <2>1, <2>4, <1>2 DEF Following, txVars, At, End
<1> QED BY <1>4, <1>6, <1>7, <1>8

\* The message that is delivered is the next one of those that were sent.
LEMMA DeserializeStep ==
  ASSUME IndInv, Deserialize, TypeOK'
  PROVE  /\ IndInv'
         /\ ~torn => /\ Len(delivered) < Len(sent)
                     /\ delivered' = Append(delivered, sent[Len(delivered) + 1])
<1> USE DEF IndInv
<1>1. /\ rx = "body" /\ ~(Missing > 0) /\ rx' = "loop"
      /\ UNCHANGED txVars /\ UNCHANGED taken /\ UNCHANGED torn /\ UNCHANGED broken
  BY DEF Deserialize, Missing, TypeOK
<1>2. Laid' /\ Sending' /\ End' = End /\ \A n : At(n)' = At(n)
  BY <1>1, SenderUntouched
<1>3. Writing'
  BY <1>1, <1>2 DEF Writing, txVars
<1>4. CASE torn
  BY <1>1, <1>2, <1>3, <1>4 DEF InOrder, Following
<1>5. CASE ~torn
  <2> DEFINE next == Len(delivered) + 1
  <2>1. /\ got = size /\ next <= Len(sent) /\ size > Prefix
        /\ taken = At(Len(delivered) + 2)
        /\ MessagesAt(taken - got, size) = {sent[next]}
    BY <1>1, <1>5, NextIsRead
  <2>2. delivered' = Append(delivered, sent[next])
    BY <2>1 DEF Deserialize, Prefix, TypeOK
  <2>3. Len(delivered) \in Nat /\ Len(sent) \in Nat
    BY DEF TypeOK
  <2>4. sent[next] \in Message /\ delivered \in Seq(Message)
    <3>1. next \in 1 .. Len(sent)
      BY <2>1, <2>3
    <3> QED BY <3>1 DEF TypeOK
  <2>5. /\ Len(delivered') = next
        /\ \A n \in 1 .. Len(delivered) : delivered'[n] = delivered[n]
        /\ delivered'[next] = sent[next]
    BY <2>2, <2>4
  <2>6. InOrder'
    BY <2>1, <2>3, <2>5, <1>1, <1>5 DEF InOrder, txVars
  <2>7. Following'
    <3>1. Len(delivered') + 1 = Len(delivered) + 2
      BY <2>3, <2>5
    <3> QED BY <3>1, <2>1, <1>1, <1>2 DEF Following, At, End, txVars
  <2> QED BY <2>1, <2>2, <2>3, <2>6, <2>7, <1>2, <1>3
<1> QED BY <1>4, <1>5

\* The other steps leave what was sent and delivered as it was.
LEMMA OtherSteps ==
  ASSUME IndInv, TypeOK',
         Loop \/ RecvSizeFails \/ RecvBodyFails \/ SizeTooLarge \/ Stop \/ Break \/ UNCHANGED vars
  PROVE  IndInv' /\ UNCHANGED <<sent, delivered, torn>>
<1> USE DEF IndInv
<1>1. /\ UNCHANGED <<tx, cur, sent, taken, delivered, torn>>
      /\ rx' = rx => UNCHANGED <<size, got>>
      /\ \/ rx' = rx
         \/ rx = "loop" /\ rx' = "size"
         \/ rx' \in {"ended", "crashed"}
  BY DEF Loop, RecvSizeFails, RecvBodyFails, GiveUp, SizeTooLarge, Stop, Break, vars, txVars, rxVars
<1>2. Laid' /\ Sending' /\ End' = End
  BY <1>1 DEF Laid, Sending, At, End
<1>3. Writing'
  <2>1. CASE Break
    <3>1. broken' /\ ~broken /\ written' <= written /\ taken <= written'
      BY <2>1 DEF Break, TypeOK
    <3>2. written' \in Nat /\ written \in Nat
      BY DEF TypeOK
    <3> QED BY <3>1, <3>2, <1>1, <1>2 DEF Writing
  <2>2. CASE ~Break
    <3>1. UNCHANGED <<written, broken>>
      BY <2>2 DEF Loop, RecvSizeFails, RecvBodyFails, SizeTooLarge, Stop, vars, txVars
    <3> QED BY <3>1, <1>1, <1>2 DEF Writing
  <2> QED BY <2>1, <2>2
<1>4. InOrder' /\ Following'
  BY <1>1 DEF InOrder, Following, At, End
<1> QED BY <1>1, <1>2, <1>3, <1>4

\* The invariant holds at all times.
THEOREM Invariance == Spec => []IndInv
<1>1. IndInv /\ [Next]_vars => IndInv'
  <2> SUFFICES ASSUME IndInv, [Next]_vars PROVE IndInv'
    OBVIOUS
  <2>1. TypeOK'
    BY TypeStep DEF IndInv
  <2> QED BY <2>1, SenderSteps, RecvSizeStep, RecvBodyStep, DeserializeStep, OtherSteps
          DEF Next, Sender, Reader
<1> QED BY <1>1, InitInv, PTL DEF Spec

\* The reader gets what was sent, whole and in order, however recv() cuts it and
\* wherever the connection breaks, until a size is torn.
THEOREM StreamImplementsChannel == Spec => ImplementsChannel
<1>1. Init => AsChannel!Init
  BY DEF Init, AsChannel!Init
<1>2. IndInv /\ IndInv' /\ [Next]_vars => [AsChannel!Next]_(AsChannel!vars)
  <2> SUFFICES ASSUME IndInv, IndInv', [Next]_vars
               PROVE  AsChannel!Next \/ UNCHANGED AsChannel!vars
    OBVIOUS
  <2> USE DEF AsChannel!Next, AsChannel!vars
  <2>1. TypeOK /\ TypeOK'
    BY DEF IndInv
  <2>2. CASE (\E k \in Kinds, n \in Lengths : Compose(k, n)) \/ SendSize
    BY <2>2 DEF Compose, SendSize, rxVars
  <2>3. CASE SendBody
    <3>1. /\ Len(sent') = Len(sent) + 1
          /\ \A n \in 1 .. Len(sent) : sent'[n] = sent[n]
      BY <2>1, <2>3, SentBehind
    <3> QED BY <3>1, <2>3 DEF SendBody, AsChannel!Send, rxVars
  <2>4. CASE RecvSize
    <3>1. UNCHANGED <<sent, delivered>> /\ (torn' = torn \/ torn' = TRUE)
      BY <2>1, <2>4 DEF RecvSize, txVars, TypeOK
    <3> QED BY <3>1 DEF AsChannel!Tear
  <2>5. CASE RecvBody
    BY <2>5 DEF RecvBody, txVars
  <2>6. CASE Deserialize
    <3>1. UNCHANGED <<sent, torn>>
      BY <2>6 DEF Deserialize, txVars
    <3>2. CASE torn
      BY <3>1, <3>2 DEF AsChannel!DeliverAnything
    <3>3. CASE ~torn
      BY <3>1, <3>3, <2>1, <2>6, DeserializeStep DEF AsChannel!Deliver
    <3> QED BY <3>2, <3>3
  <2>7. CASE Loop \/ RecvSizeFails \/ RecvBodyFails \/ SizeTooLarge \/ Stop \/ Break \/ UNCHANGED vars
    BY <2>1, <2>7, OtherSteps
  <2> QED BY <2>2, <2>3, <2>4, <2>5, <2>6, <2>7 DEF Next, Sender, Reader
<1> QED BY <1>1, <1>2, Invariance, PTL DEF Spec, ImplementsChannel, AsChannel!Spec

\* As long as no size is torn, an event that is delivered has a content.
THEOREM EventsHaveContent == Spec => []NoEmptyEvent
<1>1. IndInv => NoEmptyEvent
  <2> SUFFICES ASSUME IndInv, ~torn, NEW n \in 1 .. Len(delivered)
               PROVE  delivered[n].size > Prefix
    BY DEF NoEmptyEvent
  <2>1. n \in 1 .. Len(sent) /\ delivered[n] = sent[n]
    BY DEF IndInv, InOrder, TypeOK
  <2> QED BY <2>1 DEF IndInv, Laid
<1> QED BY <1>1, Invariance, PTL

\* What the reader still has to do once the sender is through with a message, the
\* connection is there and no size was torn: it has all messages if it has all bytes,
\* and the rest of a message it is in is in the stream, so that recv() returns it.
NothingStuck ==
  tx = "idle" /\ ~broken /\ ~torn =>
    /\ rx \in {"loop", "size"} /\ taken = written => delivered = sent
    /\ rx = "body" => Missing <= written - taken

\* A reader that has taken all bytes has delivered all messages, and a reader that is
\* in a message does not wait for bytes that nobody sends.
THEOREM ReaderKeepsUp == Spec => []NothingStuck
<1>1. IndInv => NothingStuck
  <2> SUFFICES ASSUME IndInv, tx = "idle", ~broken, ~torn
               PROVE  /\ rx \in {"loop", "size"} /\ taken = written => delivered = sent
                      /\ rx = "body" => Missing <= written - taken
    BY DEF NothingStuck
  <2> DEFINE next == Len(delivered) + 1
  <2>1. /\ written = End /\ next \in Nat /\ Len(sent) \in Nat /\ next <= Len(sent) + 1
        /\ taken \in Nat /\ written \in Nat /\ size \in Nat /\ got \in Nat
    BY DEF IndInv, TypeOK, Writing, InOrder
  <2>2. ASSUME rx \in {"loop", "size"}, taken = written PROVE delivered = sent
    <3>1. At(next) = End
      BY <2>1, <2>2 DEF IndInv, Following
    <3>2. ~(next <= Len(sent))
      <4> SUFFICES ASSUME next <= Len(sent) PROVE FALSE
        OBVIOUS
      <4>1. next \in 1 .. Len(sent) /\ At(next) = sent[next].at
        BY <2>1 DEF At
      <4>2. sent[next].at < End /\ End \in Nat
        BY <2>1, <4>1 DEF IndInv, Laid
      <4> QED BY <3>1, <4>1, <4>2
    <3>3. Len(delivered) = Len(sent)
      BY <2>1, <3>2
    <3> QED BY <3>3 DEF IndInv, InOrder, TypeOK
  <2>3. ASSUME rx = "body" PROVE Missing <= written - taken
    <3>1. /\ taken = At(next) + Header + got /\ got <= size
          /\ next <= Len(sent) /\ size = sent[next].size
      BY <2>1, <2>3 DEF IndInv, Following
    <3>2. At(next + 1) = At(next) + Header + size /\ At(next) \in Nat
      <4>1. next \in 1 .. Len(sent)
        BY <2>1, <3>1
      <4>2. sent[next] \in Message
        BY <4>1 DEF IndInv, TypeOK
      <4>3. At(next) = sent[next].at /\ At(next) \in Nat
        BY <3>1, <4>2 DEF At, Message
      <4>4. At(next + 1) = At(next) + Header + sent[next].size
        BY <4>1 DEF IndInv, Laid
      <4> QED BY <3>1, <4>3, <4>4
    <3>3. At(next + 1) <= End
      <4>1. CASE next + 1 <= Len(sent)
        <5>1. next + 1 \in 1 .. Len(sent) /\ At(next + 1) = sent[next + 1].at
          BY <2>1, <4>1 DEF At
        <5>2. sent[next + 1] \in Message
          BY <5>1 DEF IndInv, TypeOK
        <5>3. sent[next + 1].at \in Nat
          BY <5>2 DEF Message
        <5>4. sent[next + 1].at < End
          BY <5>1 DEF IndInv, Laid
        <5> QED BY <2>1, <5>1, <5>3, <5>4
      <4>2. CASE ~(next + 1 <= Len(sent))
        BY <2>1, <4>2 DEF At
      <4> QED BY <4>1, <4>2
    <3>4. At(next) + Header + size <= written
      BY <2>1, <3>2, <3>3
    <3>5. PICK p \in Nat : taken = p + Header + got /\ p + Header + size <= written
      BY <3>1, <3>2, <3>4
    <3> QED BY <2>1, <3>5 DEF Missing, Header
  <2> QED BY <2>2, <2>3
<1> QED BY <1>1, Invariance, PTL

===============================================================================
