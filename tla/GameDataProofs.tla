---------------------------- MODULE GameDataProofs ----------------------------
(***************************************************************************)
(* Theorems about GameData, for any numbers of enemies and items.           *)
(*                                                                          *)
(* The inductive invariant relates the record being written to its size     *)
(* (Writing), the message being read to what its reader takes (Message),    *)
(* and the reader's position to what it does next (Reading).  Each is about *)
(* records whose size fits in a byte, among others that do not.             *)
(***************************************************************************)
EXTENDS GameData, TLAPS

Writing ==
  /\ kind = "none" => body = 0 /\ size = 0 /\ n = 0
  /\ kind = "ENEMIES" => body = 4 + 12 * n
  /\ kind = "INVENTORY" => body = 4 + 5 * n
  /\ body < ByteSpace => size = body

Message ==
  pc # "idle" /\ Fits => sizeByte = BodyRead /\ bytes = 2 + sizeByte

Reading ==
  Fits =>
    /\ pc \notin {"lost", "thrown"}
    /\ pc = "label" => pos \in {0, bytes}
    /\ pc = "size" => pos = 1
    /\ pc \in {"skip", "body"} => pos = 2

IndInv == TypeOK /\ Writing /\ Message /\ Reading

-------------------------------------------------------------------------------
\* A size that fits in a byte is not changed by being one.
LEMMA SmallMod == ASSUME NEW x \in Nat, x < ByteSpace PROVE x % ByteSpace = x
BY DataAssumption

\* A remainder is a byte.
LEMMA ModByte == ASSUME NEW x \in Nat PROVE x % ByteSpace \in 0 .. ByteSpace - 1
BY DataAssumption

\* The reader and the writer of a snapshot agree about its length.
LEMMA SnapLength == SnapBody = 30 /\ SnapRead = 30
BY DEF SnapBody, SnapRead

-------------------------------------------------------------------------------
(* The invariant holds initially and is kept by every step.                 *)

\* Nothing is being written or read, and every label is processed.
LEMMA InitInv == Init => IndInv
BY DataAssumption DEF Init, IndInv, TypeOK, Writing, Message, Reading, Fits, Labels

\* The writer of snapshots, and the start of the other two, keep the invariant.
LEMMA StartInv ==
  ASSUME IndInv, WriteSnap \/ Begin("ENEMIES") \/ Begin("INVENTORY")
  PROVE  IndInv'
<1>1. CASE WriteSnap
  <2>1. 30 % ByteSpace \in 0 .. ByteSpace - 1 /\ (30 < ByteSpace => 30 % ByteSpace = 30)
    BY SmallMod, ModByte
  <2>2. /\ label' = "SNAP" /\ bytes' = 32 /\ sizeByte' = 30 % ByteSpace /\ count' = 0
        /\ pc' = "label" /\ pos' = 0 /\ UNCHANGED <<kind, body, size, n, enabled>>
    BY <1>1, SnapLength DEF WriteSnap, Deliver, writeVars
  <2>3. TypeOK'
    BY <2>1, <2>2, DataAssumption DEF IndInv, TypeOK, Labels
  <2>4. Writing' /\ Reading'
    BY <2>2 DEF IndInv, Writing, Reading
  <2>5. Message'
    BY <2>1, <2>2, SnapLength, DataAssumption DEF Message, Fits, BodyRead, SnapRead
  <2> QED
    BY <2>3, <2>4, <2>5 DEF IndInv
<1>2. ASSUME NEW k \in {"ENEMIES", "INVENTORY"}, Begin(k) PROVE IndInv'
  <2>1. 4 % ByteSpace \in 0 .. ByteSpace - 1 /\ (4 < ByteSpace => 4 % ByteSpace = 4)
    BY SmallMod, ModByte
  <2>2. TypeOK'
    BY <1>2, <2>1, DataAssumption DEF IndInv, TypeOK, Begin, messageVars
  <2>3. Writing' /\ Message' /\ Reading'
    BY <1>2, <2>1 DEF IndInv, Writing, Message, Reading, Fits, BodyRead, SnapRead, HealthRead, ItemsRead,
       Begin, messageVars
  <2> QED
    BY <2>2, <2>3 DEF IndInv
<1> QED
  BY <1>1, <1>2

\* One entry more: the size still is the length of the body, if it fits.
LEMMA AddInv == ASSUME IndInv, Add PROVE IndInv'
<1>1. /\ kind \in {"ENEMIES", "INVENTORY"} /\ n \in Nat /\ n < Limit(kind)
      /\ kind' = kind /\ body' = body + Entry(kind) /\ n' = n + 1
      /\ size' = (size + Entry(kind)) % ByteSpace
      /\ (body < ByteSpace => size = body) /\ body \in Nat /\ size \in Nat
  BY DataAssumption DEF IndInv, TypeOK, Writing, Add, SizeAfter
<1>2. Entry(kind) \in Nat /\ size + Entry(kind) \in Nat /\ size' \in 0 .. ByteSpace - 1
  BY <1>1, ModByte DEF Entry
<1>3. body' < ByteSpace => size' = body'
  <2>1. ASSUME body' < ByteSpace PROVE size + Entry(kind) = body' /\ size + Entry(kind) < ByteSpace
    BY <1>1, <1>2, <2>1, DataAssumption
  <2> QED
    BY <1>1, <1>2, <2>1, SmallMod
<1>4. TypeOK'
  BY <1>1, <1>2, <1>3, DataAssumption DEF IndInv, TypeOK, Add, Limit, messageVars
<1>5. Writing'
  BY <1>1, <1>3 DEF IndInv, Writing, Entry
<1>6. Message' /\ Reading'
  BY DEF IndInv, Message, Reading, Fits, BodyRead, SnapRead, HealthRead, ItemsRead, Add, messageVars
<1> QED
  BY <1>4, <1>5, <1>6 DEF IndInv

\* The message that is sent is as long as its size and its entries say, if it fits.
LEMMA FinishInv == ASSUME IndInv, Finish PROVE IndInv'
<1>1. /\ kind \in {"ENEMIES", "INVENTORY"} /\ n \in 0 .. Limit(kind)
      /\ n \in Nat /\ body \in Nat /\ size \in 0 .. ByteSpace - 1
      /\ (body < ByteSpace => size = body)
      /\ (kind = "ENEMIES" => body = 4 + 12 * n) /\ (kind = "INVENTORY" => body = 4 + 5 * n)
  BY DataAssumption DEF IndInv, TypeOK, Writing, Finish, Limit
<1>2. n % ByteSpace \in 0 .. ByteSpace - 1 /\ (body < ByteSpace => n % ByteSpace = n)
  <2>1. body < ByteSpace => n < ByteSpace
    BY <1>1, DataAssumption
  <2> QED
    BY <1>1, <2>1, SmallMod, ModByte
<1>3. CASE n > 0
  <2>1. /\ label' = kind /\ bytes' = 2 + body /\ sizeByte' = size /\ count' = n % ByteSpace
        /\ pc' = "label" /\ pos' = 0
    BY <1>1, <1>3 DEF Finish, Deliver
  <2>2. TypeOK'
    BY <1>1, <1>2, <2>1, DataAssumption DEF IndInv, TypeOK, Finish, Labels
  <2>3. Writing'
    BY DataAssumption DEF Writing, Finish
  <2>4. Message'
    BY <1>1, <1>2, <2>1, DataAssumption DEF Message, Fits, BodyRead, HealthRead, ItemsRead
  <2>5. Reading'
    BY <2>1 DEF Reading
  <2> QED
    BY <2>2, <2>3, <2>4, <2>5 DEF IndInv
<1>4. CASE ~(n > 0)
  <2>1. /\ kind' = "none" /\ body' = 0 /\ size' = 0 /\ n' = 0
        /\ UNCHANGED <<label, bytes, sizeByte, count, pc, pos, enabled>>
    BY <1>1, <1>4 DEF Finish, messageVars
  <2>2. TypeOK' /\ Reading'
    BY <2>1, DataAssumption DEF IndInv, TypeOK, Reading, Fits
  <2>3. Writing' /\ Message'
    BY <2>1 DEF IndInv, Writing, Message, Fits, BodyRead, HealthRead, ItemsRead, SnapRead
  <2> QED
    BY <2>2, <2>3 DEF IndInv
<1> QED
  BY <1>3, <1>4

\* Every step of the reader ends where the next one begins.
LEMMA ReadInv == ASSUME IndInv, Read PROVE IndInv'
<1>1. /\ label \in Labels /\ count \in Nat /\ pos \in Nat /\ bytes \in Nat /\ sizeByte \in Nat
      /\ Message /\ Reading /\ BodyRead \in Nat
  BY DataAssumption DEF IndInv, TypeOK, Labels, BodyRead, SnapRead, HealthRead, ItemsRead
<1>2. UNCHANGED <<kind, body, size, n, label, bytes, sizeByte, count, enabled>> /\ BodyRead' = BodyRead
  BY DEF Read, ReadLabel, ReadSize, Skip, ReadBody, ReadGarbage, writeVars, messageVars,
     BodyRead, SnapRead, HealthRead, ItemsRead
<1>3. Writing'
  BY <1>2 DEF IndInv, Writing
<1>4. /\ pc' \in {"idle", "label", "size", "skip", "body", "lost", "thrown"} /\ pos' \in Nat
      /\ Message' /\ Reading'
  <2>1. CASE ReadLabel
    BY <1>1, <1>2, <2>1 DEF ReadLabel, Message, Reading, Fits
  <2>2. CASE ReadSize
    BY <1>1, <1>2, <2>2 DEF ReadSize, Message, Reading, Fits
  <2>3. CASE Skip
    BY <1>1, <1>2, <2>3 DEF Skip, Message, Reading, Fits
  <2>4. CASE ReadBody
    BY <1>1, <1>2, <2>4 DEF ReadBody, Message, Reading, Fits
  <2>5. CASE ReadGarbage
    BY <1>1, <1>2, <2>5 DEF ReadGarbage, Message, Reading, Fits
  <2> QED
    BY <2>1, <2>2, <2>3, <2>4, <2>5 DEF Read
<1>5. TypeOK'
  BY <1>2, <1>4 DEF IndInv, TypeOK
<1> QED
  BY <1>3, <1>4, <1>5 DEF IndInv

\* A check box changes what is skipped, not where records begin.
LEMMA ToggleInv == ASSUME IndInv, NEW l \in Labels, Toggle(l) PROVE IndInv'
<1>1. UNCHANGED <<kind, body, size, n, label, bytes, sizeByte, count, pc, pos>> /\ enabled' \subseteq Labels
  BY DEF IndInv, TypeOK, Toggle, writeVars, messageVars
<1>2. TypeOK' /\ Writing' /\ Reading'
  BY <1>1 DEF IndInv, TypeOK, Writing, Reading, Fits
<1>3. Message'
  BY <1>1 DEF IndInv, Message, Fits, BodyRead, SnapRead, HealthRead, ItemsRead
<1> QED
  BY <1>2, <1>3 DEF IndInv

-------------------------------------------------------------------------------
(* Theorems.                                                                *)

\* The inductive invariant: what writeSnap, writeEnemiesEvent and
\* writeInventoryEvent write is what readGameMessage takes or skips, if it fits.
THEOREM Invariance == Spec => []IndInv
<1>1. IndInv /\ [Next]_vars => IndInv'
  <2> SUFFICES ASSUME IndInv, [Next]_vars PROVE IndInv'
    OBVIOUS
  <2>1. CASE Write
    BY <2>1, StartInv, AddInv, FinishInv DEF Write
  <2>2. CASE Read
    BY <2>2, ReadInv
  <2>3. CASE \E l \in Labels : Toggle(l)
    BY <2>3, ToggleInv
  <2>4. CASE UNCHANGED vars
    BY <2>4 DEF IndInv, TypeOK, Writing, Message, Reading, Fits, BodyRead, SnapRead, HealthRead, ItemsRead,
       vars, writeVars, messageVars
  <2> QED
    BY <2>1, <2>2, <2>3, <2>4 DEF Next
<1> QED
  BY InitInv, <1>1, PTL DEF Spec

\* Processed or skipped, a record is left where the next one begins
\* (HobbitClient.cpp:196-204), whatever is switched off in between, if its size fits.
THEOREM RecordsAligned == Spec => []AtRecord
<1>1. IndInv => AtRecord
  BY DEF IndInv, Reading, AtRecord
<1> QED
  BY Invariance, <1>1, PTL

\* Every variable keeps its type: the size and the number of entries stay bytes.
THEOREM TypeCorrectness == Spec => []TypeOK
<1>1. IndInv => TypeOK
  BY DEF IndInv
<1> QED
  BY Invariance, <1>1, PTL

\* convertQueueToType never throws (Utility.h:24) for a record whose size fits.
THEOREM ReaderHasItsBytes == Spec => []NeverRunsOut
<1>1. IndInv => NeverRunsOut
  BY DEF IndInv, Reading, NeverRunsOut
<1> QED
  BY Invariance, <1>1, PTL

-------------------------------------------------------------------------------
(* How large a level may be.  The sizes that do not fit are those of long   *)
(* records only: where all the entries of a level fit, so do all records.   *)

AllFit == /\ 4 + 12 * MaxEnemies < ByteSpace /\ 4 + 5 * MaxItems < ByteSpace
          /\ SnapBody < ByteSpace

\* With so few enemies and items every record fits.
LEMMA FitsStep ==
  ASSUME AllFit, IndInv, Fits, [Next]_vars PROVE Fits'
<1>1. CASE WriteSnap
  BY <1>1, SnapLength, DataAssumption DEF WriteSnap, Deliver, AllFit, Fits
<1>2. CASE Finish
  <2>1. CASE n > 0
    <3>1. bytes' = 2 + body /\ kind \in {"ENEMIES", "INVENTORY"}
      BY <1>2, <2>1 DEF Finish, Deliver, IndInv, TypeOK
    <3>2. body < ByteSpace
      BY <3>1, DataAssumption DEF AllFit, IndInv, TypeOK, Writing
    <3> QED BY <3>1, <3>2, DataAssumption DEF Fits, IndInv, TypeOK
  <2>2. CASE ~(n > 0)
    BY <1>2, <2>2 DEF Finish, messageVars, Fits
  <2> QED BY <2>1, <2>2
<1>3. CASE ~WriteSnap /\ ~Finish
  <2>1. bytes' = bytes
    BY <1>3 DEF Next, Write, Begin, Add, Read, ReadLabel, ReadSize, Skip, ReadBody, ReadGarbage, Toggle,
       vars, messageVars
  <2> QED BY <2>1 DEF Fits
<1> QED BY <1>1, <1>2, <1>3

\* "Skip the data bytes" (HobbitClient.cpp:197) is true of every record, switched off
\* or not, and the client is never ended by one, if the entries of the level, all
\* changed at once, fit in the size byte: for the 256 values of a uint8_t, with up
\* to 20 enemies; many_enemies has one more.
THEOREM SmallLevelsAreSkipped ==
  ASSUME AllFit PROVE Spec => [](SkipsTheData /\ pc # "thrown")
<1>1. Init => Fits
  BY DataAssumption DEF Init, Fits
<1>2. IndInv /\ Fits /\ [Next]_vars => Fits'
  BY FitsStep
<1>3. IndInv /\ Fits => SkipsTheData /\ pc # "thrown"
  BY DEF IndInv, Reading, SkipsTheData
<1> QED BY Invariance, <1>1, <1>2, <1>3, PTL DEF Spec

===============================================================================
