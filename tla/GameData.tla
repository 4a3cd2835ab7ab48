------------------------------- MODULE GameData -------------------------------
(***************************************************************************)
(* The records inside a game message: "Hobbit Multiplayer"/MainPlayer.h     *)
(* writes a label, a size byte and a body, and readGameMessage of           *)
(* HobbitClient.cpp reads them, or skips those whose label the user has     *)
(* switched off.  A message holds one record.                               *)
(*                                                                          *)
(* Bytes are counted, not represented: pos is how many of the message the   *)
(* reader has popped.  A reader that is neither at the start nor at the end *)
(* of a message when it looks for a label takes data for a label: what it   *)
(* does then depends on the data, and it may run out of bytes, for which    *)
(* convertQueueToType throws and nobody catches.                            *)
(***************************************************************************)
EXTENDS Naturals

CONSTANTS
  ByteSpace,    \* number of values of a uint8_t: 256 in the code
  MaxEnemies,   \* enemies of a level whose health may change in one cycle
  MaxItems      \* items of the inventory that are sent: 33 of 56

ASSUME DataAssumption ==
  /\ ByteSpace \in Nat \ {0}
  /\ MaxEnemies \in Nat /\ MaxItems \in Nat

Labels == {"SNAP", "ENEMIES", "INVENTORY"}

VARIABLES
  kind, body, size, n,  \* the record being written: label, bytes after the size byte,
                        \* dataVec[1], entries ("none": no record)
  label, bytes, sizeByte, count,  \* the message being read: its label, its length, its
                                  \* size byte and its number of entries
  pc, pos,              \* the reader
  enabled               \* messageLabelStates: the labels that are processed

writeVars == <<kind, body, size, n>>
messageVars == <<label, bytes, sizeByte, count>>
vars == <<writeVars, messageVars, pc, pos, enabled>>

\* level, animation, two frames, position, rotation, weapon
SnapBody == 1 + 4 + 4 + 4 + 3 * 4 + 4 + 1

\* The bytes of one entry: a guid and a float, or an index and a float.
Entry(k) == IF k = "ENEMIES" THEN 8 + 4 ELSE 1 + 4

\* The enemies of the level; the items the loop does not skip, of 56.
Limit(k) == IF k = "ENEMIES" THEN MaxEnemies ELSE MaxItems

Init ==
  /\ kind = "none" /\ body = 0 /\ size = 0 /\ n = 0
  /\ label = "SNAP" /\ bytes = 0 /\ sizeByte = 0 /\ count = 0
  /\ pc = "idle" /\ pos = 0
  /\ enabled = Labels

-------------------------------------------------------------------------------
(* writeSnap, writeEnemiesEvent, writeInventoryEvent                        *)

\* The message is queued at the reader.
Deliver(l, b, s, c) ==
  /\ label' = l /\ bytes' = 2 + b /\ sizeByte' = s /\ count' = c
  /\ pc' = "label" /\ pos' = 0

WriteSnap ==
  /\ kind = "none" /\ pc = "idle"
  /\ Deliver("SNAP", SnapBody, SnapBody % ByteSpace, 0)
  /\ UNCHANGED <<writeVars, enabled>>

\* The label, the size byte and four bytes for the number of entries.
Begin(k) ==
  /\ kind = "none" /\ pc = "idle"
  /\ kind' = k /\ body' = 4 /\ size' = 4 % ByteSpace /\ n' = 0
  /\ UNCHANGED <<messageVars, pc, pos, enabled>>

\* dataVec[1] += sizeof(...), a uint8_t.  Mutant: the float is not counted.
SizeWithoutFloat(s, k) == (s + Entry(k) - 4) % ByteSpace
SizeAfter(s, k) == (s + Entry(k)) % ByteSpace

\* One enemy or one item has changed.
Add ==
  /\ kind # "none"
  /\ n < Limit(kind)
  /\ body' = body + Entry(kind)
  /\ size' = SizeAfter(size, kind)
  /\ n' = n + 1
  /\ UNCHANGED <<kind, messageVars, pc, pos, enabled>>

\* dataVec[2] = n, and the message is sent if it has an entry.
Finish ==
  /\ kind # "none"
  /\ kind' = "none" /\ body' = 0 /\ size' = 0 /\ n' = 0
  /\ IF n > 0 THEN Deliver(kind, body, size, n % ByteSpace)
              ELSE UNCHANGED <<messageVars, pc, pos>>
  /\ UNCHANGED enabled

-------------------------------------------------------------------------------
(* readGameMessage                                                          *)

\* while (!gameData.empty()), and the label.
ReadLabel ==
  /\ pc = "label"
  /\ IF pos = bytes THEN pc' = "idle" /\ UNCHANGED pos
     ELSE IF pos = 0 THEN pc' = "size" /\ pos' = 1
     ELSE pc' = "lost" /\ UNCHANGED pos
  /\ UNCHANGED <<writeVars, messageVars, enabled>>

\* The size, and the switch of the label.
ReadSize ==
  /\ pc = "size"
  /\ pos' = pos + 1
  /\ pc' = IF label \in enabled THEN "body" ELSE "skip"
  /\ UNCHANGED <<writeVars, messageVars, enabled>>

\* As many bytes as the size says, or as there are.
Skip ==
  /\ pc = "skip"
  /\ pos' = IF pos + sizeByte < bytes THEN pos + sizeByte ELSE bytes
  /\ pc' = "label"
  /\ UNCHANGED <<writeVars, messageVars, enabled>>

\* What the three readers take: readConectedPlayerSnap, readProcessEnemiesHealth and
\* readProcessInventory.  Mutant: the guid and the float are read as a padded pair.
SnapRead == 1 + 4 + 4 + 4 + 4 + 4 + 4 + 4 + 1
HealthRead == 4 + (8 + 4) * count
ItemsRead == 4 + (1 + 4) * count
PaddedRead == 4 + 16 * count
BodyRead == CASE label = "SNAP" -> SnapRead
              [] label = "ENEMIES" -> HealthRead
              [] label = "INVENTORY" -> ItemsRead

ReadBody ==
  /\ pc = "body"
  /\ IF pos + BodyRead <= bytes THEN pos' = pos + BodyRead /\ pc' = "label"
                                ELSE pc' = "thrown" /\ UNCHANGED pos
  /\ UNCHANGED <<writeVars, messageVars, enabled>>

\* Data is taken for labels and sizes, until the bytes are used up.
ReadGarbage ==
  /\ pc = "lost"
  /\ pc' \in {"idle", "thrown"}
  /\ UNCHANGED <<writeVars, messageVars, pos, enabled>>

-------------------------------------------------------------------------------
\* setMessageLabelProcessing, by a check box at any time.
Toggle(l) ==
  /\ pc # "thrown"
  /\ enabled' = IF l \in enabled THEN enabled \ {l} ELSE enabled \cup {l}
  /\ UNCHANGED <<writeVars, messageVars, pc, pos>>

Write == WriteSnap \/ Begin("ENEMIES") \/ Begin("INVENTORY") \/ Add \/ Finish
Read == ReadLabel \/ ReadSize \/ Skip \/ ReadBody \/ ReadGarbage

Next == Write \/ Read \/ \E l \in Labels : Toggle(l)

Spec == Init /\ [][Next]_vars

-------------------------------------------------------------------------------
(* Properties.                                                              *)

\* Every variable has values of its type; the size is a byte.
TypeOK ==
  /\ kind \in {"none", "ENEMIES", "INVENTORY"}
  /\ body \in Nat /\ size \in 0 .. ByteSpace - 1
  /\ n \in 0 .. IF kind = "ENEMIES" THEN MaxEnemies ELSE MaxItems
  /\ label \in Labels /\ bytes \in Nat /\ sizeByte \in 0 .. ByteSpace - 1
  /\ count \in 0 .. ByteSpace - 1
  /\ pc \in {"idle", "label", "size", "skip", "body", "lost", "thrown"} /\ pos \in Nat
  /\ enabled \subseteq Labels

\* The size of the message being read is a byte.
Fits == bytes < 2 + ByteSpace

\* Whether a record is processed or skipped, and whatever is switched off in between,
\* the reader looks for the next label where a record begins or the message ends, if
\* the record's size fits in a byte.
AtRecord == pc = "label" /\ Fits => pos \in {0, bytes}

\* The reader of such a message never runs out of bytes, which would end the client
\* (convertQueueToType throws and nobody catches).
NeverRunsOut == pc = "thrown" => ~Fits

\* "Skip the data bytes" (HobbitClient.cpp:197): the same of every record.
SkipsTheData == pc = "label" => pos \in {0, bytes}

===============================================================================
