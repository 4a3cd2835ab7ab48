------------------------------ MODULE GameManager ------------------------------
(***************************************************************************)
(* The watcher of HobbitGameManager/HobbitGameManager.h, a thread that      *)
(* polls flags of the game's memory and turns their edges into events, with *)
(* the listeners HobbitClient registers (onEnterNewLevel, onExitLevel,      *)
(* onOpenGame, onCloseGame), the part of HobbitClient::start that runs next *)
(* to it in the application's thread, and the cycles of the update thread,  *)
(* which use the addresses that the listeners look up.                      *)
(*                                                                          *)
(* Both objects outlive a session: start() of the next one finds the flags, *)
(* the addresses and the listeners that the last one left.                  *)
(*                                                                          *)
(* The game is external.  It is in a phase, of which the watcher sees three *)
(* flags; every load of a level is a new epoch, and the addresses readPtrs  *)
(* and setNCP collect are good for the epoch they were collected in.  The   *)
(* npcs of the players are in a level or not.  One npc stands for all.  The *)
(* load of a level clears the ended flag before it clears the loading flag. *)
(*                                                                          *)
(* Time: the game changes its phase when it likes.  A change is Timely if a *)
(* poll (every 10 ms) has begun in the phase it ends, and no listener is in *)
(* its five seconds' sleep or looks up; the history trust says since when   *)
(* all changes were timely, and the properties say what then holds.         *)
(***************************************************************************)
EXTENDS Naturals, Sequences

CONSTANTS
  MaxEpoch,     \* bound: loads of a level and starts of the game
  WithNpcs,     \* the epochs whose level has the npcs of the players
  MaxSessions,  \* bound: sessions the client is started for
  MaxUntimely   \* bound: untimely changes of the game during sessions

ASSUME ManagerAssumption ==
  MaxEpoch \in Nat /\ MaxSessions \in Nat /\ MaxUntimely \in Nat

VARIABLES
  phase, epoch,         \* the game: its phase, the loads and starts so far
  attached,             \* hobbitProcess is a handle of the running process
  polled,               \* history: a poll has begun in this phase
  untimely,             \* history: untimely changes so far
  pc,                   \* the watcher
  opener,               \* the application's thread, in HobbitClient::start and stop
  stopThread, running,  \* the watcher is to stop; the update thread is not
  isEnded, isLoading, isLoaded, wasEnded, wasLoaded,
  wasOpen,              \* wasHobbitOpen
  processMessages,      \* HobbitClient's flag
  ptrsOf, npcOf,        \* the load its pointers and those of the npc are of: this, an old, none
  up,                   \* the update thread
  asked,                \* history: it has tested processMessages, in this phase
  longCycle,            \* history: it was past that test when a level was entered, and is still
  listeners, left,      \* the listeners of a new level; those not yet called
  early,                \* history: onOpenGame found this level on
  trust                 \* history: nothing was untimely since the level began to load
                        \* ("level"), or since the client was in step with the game ("full")

gameVars == <<phase, epoch, untimely>>
seenVars == <<isEnded, isLoading, isLoaded, wasEnded, wasLoaded, wasOpen>>
ptrVars == <<processMessages, ptrsOf, npcOf>>
upVars == <<up, asked, longCycle>>
sessionVars == <<opener, stopThread, running, listeners, early>>
vars == <<gameVars, seenVars, ptrVars, upVars, sessionVars, attached, polled, pc, left, trust>>

-------------------------------------------------------------------------------
(* The flags of the game, as the watcher reads them: zeros without a handle. *)

Assigned == attached /\ phase \in {"ending", "loading", "starting", "play"}  \* 0x007A59C8
NotEnded == attached /\ phase \in {"starting", "play"}                       \* 0x00760354
Loading  == attached /\ phase \in {"loading", "starting"}                    \* 0x0076035C
GameRunning == phase # "closed"
NpcHere == epoch \in WithNpcs

\* isOnLevel(): one flag is read now, the others are the watcher's.
IsOnLevel == Assigned /\ isLoaded /\ ~isEnded

Phases == {"closed", "menu", "loading", "starting", "play", "ending"}
Follows(p) == CASE p = "closed"   -> {"menu"}
                [] p = "menu"     -> {"loading", "closed"}
                [] p = "loading"  -> {"starting"}
                [] p = "starting" -> {"play"}
                [] p = "play"     -> {"ending", "closed"}
                [] p = "ending"   -> {"loading", "menu"}

\* A listener sleeps or looks up, or onOpenGame is about to decide whether to.
Settling == pc \in {"asleep", "look"} \/ opener \in {"open", "asleep", "look"}
Timely == polled /\ ~Settling
Untimely == ~Timely /\ opener # "stopped"

Aged(of) == IF of = "this" THEN "old" ELSE of

GameMoves ==
  LET loads == phase' = "loading"
      fresh == loads \/ phase = "closed"
  IN /\ phase' \in Follows(phase)
     /\ opener = "stopped" => listeners \in 1 .. MaxSessions - 1
     /\ Untimely => untimely < MaxUntimely
     /\ fresh => epoch < MaxEpoch
     /\ epoch' = IF fresh THEN epoch + 1 ELSE epoch
     /\ ptrsOf' = IF fresh THEN Aged(ptrsOf) ELSE ptrsOf
     /\ npcOf' = IF fresh THEN Aged(npcOf) ELSE npcOf
     /\ early' = (early /\ ~fresh)
     /\ attached' = (attached /\ phase' # "closed")
     /\ polled' = FALSE /\ asked' = FALSE
     /\ untimely' = IF Untimely THEN untimely + 1 ELSE untimely
     /\ trust' = IF Timely /\ trust = "full" THEN "full"
                 ELSE IF loads THEN "level"
                 ELSE IF Timely THEN trust ELSE "none"
     /\ UNCHANGED <<seenVars, processMessages, up, longCycle, opener, stopThread, running,
                    listeners, pc, left>>

-------------------------------------------------------------------------------
(* The client before its first session, and the game in any phase.          *)
Init ==
  /\ phase \in Phases \ {"closed"} /\ epoch = 1
  /\ attached = FALSE /\ polled = FALSE /\ untimely = 0
  /\ pc = "off" /\ opener = "stopped" /\ stopThread = FALSE /\ running = FALSE
  /\ isEnded = FALSE /\ isLoading = FALSE /\ isLoaded = FALSE
  /\ wasEnded = FALSE /\ wasLoaded = FALSE /\ wasOpen = FALSE
  /\ processMessages = FALSE /\ ptrsOf = "none" /\ npcOf = "none"
  /\ up = "off" /\ asked = FALSE /\ longCycle = FALSE
  /\ listeners = 0 /\ left = 0 /\ early = FALSE /\ trust = "none"

-------------------------------------------------------------------------------
(* onEnterNewLevel after its sleep.                                         *)

\* setNCP: the npc is found in the level, or else keeps the addresses it has.
\* Mutant: it is looked up only once.
NpcFoundOnce == IF npcOf = "none" /\ attached /\ NpcHere THEN "this" ELSE npcOf
NpcFound == IF attached /\ NpcHere THEN "this" ELSE npcOf

LookupNpcs ==
  /\ npcOf' = NpcFound
  /\ UNCHANGED <<processMessages, ptrsOf>>

\* readPtrs: the addresses of Bilbo and the enemies.
ReadPointers ==
  /\ ptrsOf' = IF attached THEN "this" ELSE "none"
  /\ processMessages' = TRUE
  /\ UNCHANGED npcOf

-------------------------------------------------------------------------------
(* HobbitClient::start: hobbitGameManager.start(), then onOpenGame().       *)

\* start() adds its listeners to those of the sessions before, updatePtrToProcess
\* looks the process up, and the watcher is started; the flags and the addresses
\* stay as the last session left them.  Before the first they say no level.
StartManager ==
  /\ opener = "stopped" /\ GameRunning
  /\ listeners < MaxSessions
  /\ listeners' = listeners + 1
  /\ running' = TRUE /\ stopThread' = FALSE
  /\ attached' = TRUE
  /\ pc' = "check" /\ up' = "off"
  /\ opener' = "open"
  /\ trust' = IF listeners = 0 THEN "full" ELSE IF phase = "loading" THEN "level" ELSE "none"
  /\ polled' = FALSE
  /\ UNCHANGED <<gameVars, seenVars, ptrVars, asked, longCycle, early, left>>

\* onOpenGame: no messages are processed, until the pointers are read if a
\* level is on.
OpenGame ==
  /\ opener = "open"
  /\ processMessages' = FALSE
  /\ opener' = IF IsOnLevel THEN "asleep" ELSE "launch"
  /\ early' = IsOnLevel
  /\ UNCHANGED <<gameVars, seenVars, ptrsOf, npcOf, upVars, listeners, stopThread, running,
                 attached, polled, pc, left, trust>>

OpenGameWakes ==
  /\ opener = "asleep"
  /\ LookupNpcs
  /\ opener' = "look"
  /\ UNCHANGED <<gameVars, seenVars, upVars, stopThread, running, listeners, early, attached,
                 polled, pc, left, trust>>

OpenGameReads ==
  /\ opener = "look"
  /\ ReadPointers
  /\ opener' = "launch"
  /\ UNCHANGED <<gameVars, seenVars, upVars, stopThread, running, listeners, early, attached,
                 polled, pc, left, trust>>

StartUpdating ==
  /\ opener = "launch"
  /\ opener' = "done"
  /\ up' = "check"
  /\ UNCHANGED <<gameVars, seenVars, ptrVars, asked, longCycle, stopThread, running, listeners,
                 early, attached, polled, pc, left, trust>>

\* The connection is lost: onClientListUpdate with no ids, in the receive thread.
ServerGone ==
  /\ running
  /\ running' = FALSE
  /\ UNCHANGED <<gameVars, seenVars, ptrVars, upVars, opener, stopThread, listeners, early,
                 attached, polled, pc, left, trust>>

\* stopThread = true.  Mutant: the watcher is not told.
LeaveWatching == UNCHANGED stopThread
StopWatching == stopThread' = TRUE

\* HobbitClient::stop clears running, for the update thread, and calls stop(),
\* which joins the watcher; then it joins the update thread.  (No list of clients
\* arrives in between: what one does to running is in HobbitClient.)
StopManager ==
  /\ opener = "done"
  /\ running' = FALSE
  /\ StopWatching
  /\ opener' = "joining"
  /\ UNCHANGED <<gameVars, seenVars, ptrVars, upVars, listeners, early, attached, polled, pc, left,
                 trust>>

Joined ==
  /\ opener = "joining"
  /\ pc = "done" /\ up = "done"
  /\ opener' = "stopped"
  /\ UNCHANGED <<gameVars, seenVars, ptrVars, upVars, stopThread, running, listeners, early,
                 attached, polled, pc, left, trust>>

-------------------------------------------------------------------------------
(* The update thread: between two cycles it asks processMessages, and then  *)
(* isOnLevel(), but not within one.                                         *)

UpCheck ==
  /\ up = "check"
  /\ ~running \/ processMessages
  /\ up' = IF running THEN "level" ELSE "done"
  /\ asked' = running
  /\ UNCHANGED <<gameVars, seenVars, ptrVars, longCycle, sessionVars, attached, polled, pc, left,
                 trust>>

UpLevel ==
  /\ up = "level"
  /\ up' = IF IsOnLevel THEN "cycle" ELSE "check"
  /\ asked' = FALSE
  /\ longCycle' = (longCycle /\ IsOnLevel)
  /\ UNCHANGED <<gameVars, seenVars, ptrVars, sessionVars, attached, polled, pc, left, trust>>

UpCycleEnds ==
  /\ up = "cycle"
  /\ up' = "check"
  /\ longCycle' = FALSE
  /\ UNCHANGED <<gameVars, seenVars, ptrVars, asked, sessionVars, attached, polled, pc, left,
                 trust>>

-------------------------------------------------------------------------------
(* update(): the watcher's loop.                                            *)

\* while (!stopThread), and if (!isGameRunning()) continue
Check ==
  /\ pc = "check"
  /\ pc' = IF stopThread THEN "done" ELSE IF GameRunning THEN "game" ELSE "check"
  /\ polled' = (polled \/ ~(stopThread \/ GameRunning))
  /\ UNCHANGED <<gameVars, seenVars, ptrVars, upVars, sessionVars, attached, left, trust>>

\* updateGameState: the close event, or the open event.  Both look up the
\* process again; the close event stops the client, from this very thread.
UpdateGameState ==
  LET open  == GameRunning
      event == wasOpen
  IN /\ pc = "game"
     /\ wasOpen' = (open /\ wasOpen)
     /\ attached' = IF event THEN open ELSE attached
     /\ isLoaded' = (isLoaded /\ ~event)
     /\ processMessages' = (processMessages /\ ~event)
     /\ pc' = "ended"
     /\ UNCHANGED <<gameVars, isEnded, isLoading, wasEnded, wasLoaded, ptrsOf, npcOf, upVars,
                    sessionVars, polled, left, trust>>

\* updateLevelState reads the flags one after the other.
ReadEnded ==
  /\ pc = "ended"
  /\ isEnded' = ~NotEnded
  /\ polled' = TRUE
  /\ pc' = "flags"
  /\ UNCHANGED <<gameVars, isLoading, isLoaded, wasEnded, wasLoaded, wasOpen, ptrVars, upVars,
                 sessionVars, attached, left, trust>>

ReadLoading ==
  /\ pc = "flags"
  /\ isLoading' = Loading
  /\ pc' = "assigned"
  /\ UNCHANGED <<gameVars, isEnded, isLoaded, wasEnded, wasLoaded, wasOpen, ptrVars, upVars,
                 sessionVars, attached, polled, left, trust>>

ReadAssigned ==
  /\ pc = "assigned"
  /\ isLoaded' = (Assigned /\ ~isLoading)
  /\ pc' = "exit"
  /\ UNCHANGED <<gameVars, isEnded, isLoading, wasEnded, wasLoaded, wasOpen, ptrVars, upVars,
                 sessionVars, attached, polled, left, trust>>

\* The end of a level: eventExitLevel and onExitLevel.  Mutant: the listener is
\* not called.
KeepProcessing == UNCHANGED processMessages
StopProcessing == processMessages' = FALSE

ExitLevel ==
  /\ pc = "exit"
  /\ IF wasEnded # isEnded /\ isEnded
     THEN isLoaded' = FALSE /\ StopProcessing
     ELSE UNCHANGED <<isLoaded, processMessages>>
  /\ pc' = "enter"
  /\ UNCHANGED <<gameVars, isEnded, isLoading, wasEnded, wasLoaded, wasOpen, ptrsOf, npcOf, upVars,
                 sessionVars, attached, polled, left, trust>>

\* A level was loaded.  Mutant: a negation is missing.
LoadedWhenEnded == wasLoaded # isLoaded /\ isLoaded /\ isEnded
LevelEntered == wasLoaded # isLoaded /\ isLoaded /\ ~isEnded

\* eventEnterNewLevel: every listener sleeps five seconds in this thread.
EnterLevel ==
  /\ pc = "enter"
  /\ IF LevelEntered
     THEN isLoaded' = TRUE /\ pc' = "asleep" /\ left' = listeners
          /\ longCycle' = (up \in {"level", "cycle"})
     ELSE UNCHANGED <<isLoaded, left, longCycle>> /\ pc' = "remember"
  /\ UNCHANGED <<gameVars, isEnded, isLoading, wasEnded, wasLoaded, wasOpen, ptrVars, up, asked,
                 sessionVars, attached, polled, trust>>

EnterLevelWakes ==
  /\ pc = "asleep"
  /\ LookupNpcs
  /\ pc' = "look"
  /\ UNCHANGED <<gameVars, seenVars, upVars, sessionVars, attached, polled, left, trust>>

\* A level that is still played has been looked up, undisturbed since its load.
EnterLevelReads ==
  /\ pc = "look"
  /\ ReadPointers
  /\ left' = left - 1
  /\ pc' = IF left > 1 THEN "asleep" ELSE "remember"
  /\ trust' = IF trust = "level" /\ phase = "play" THEN "full" ELSE trust
  /\ UNCHANGED <<gameVars, seenVars, upVars, sessionVars, attached, polled>>

\* The flags seen become the previous ones.
Remember ==
  /\ pc = "remember"
  /\ wasEnded' = isEnded
  /\ wasLoaded' = isLoaded
  /\ pc' = "check"
  /\ UNCHANGED <<gameVars, isEnded, isLoading, isLoaded, wasOpen, ptrVars, upVars, sessionVars,
                 attached, polled, left, trust>>

-------------------------------------------------------------------------------
Watch == \/ Check \/ UpdateGameState \/ ReadEnded \/ ReadLoading \/ ReadAssigned
         \/ ExitLevel \/ EnterLevel \/ EnterLevelWakes \/ EnterLevelReads \/ Remember

\* What the application does once it has begun to start or to stop the client.
Opening == OpenGame \/ OpenGameWakes \/ OpenGameReads \/ StartUpdating \/ Joined

Updating == UpCheck \/ UpLevel \/ UpCycleEnds

Next == Watch \/ Opening \/ StartManager \/ StopManager \/ ServerGone \/ Updating \/ GameMoves

Spec == Init /\ [][Next]_vars

\* The threads run; the game need not move, nor the client be started or stopped.
FairSpec == Spec /\ WF_vars(Watch) /\ WF_vars(Opening) /\ WF_vars(Updating)

-------------------------------------------------------------------------------
(* Properties.                                                              *)

\* The types of the flags, of the places in the code, of the numbers.
FlagsOK ==
  /\ attached \in BOOLEAN /\ polled \in BOOLEAN
  /\ stopThread \in BOOLEAN /\ running \in BOOLEAN /\ early \in BOOLEAN
  /\ asked \in BOOLEAN /\ longCycle \in BOOLEAN
  /\ isEnded \in BOOLEAN /\ isLoading \in BOOLEAN /\ isLoaded \in BOOLEAN
  /\ wasEnded \in BOOLEAN /\ wasLoaded \in BOOLEAN /\ wasOpen \in BOOLEAN
  /\ processMessages \in BOOLEAN

PlacesOK ==
  /\ phase \in Phases
  /\ pc \in {"off", "check", "game", "ended", "flags", "assigned", "exit", "enter", "asleep",
            "look", "remember", "done"}
  /\ opener \in {"open", "asleep", "look", "launch", "done", "joining", "stopped"}
  /\ up \in {"off", "check", "level", "cycle", "done"}
  /\ ptrsOf \in {"none", "old", "this"} /\ npcOf \in {"none", "old", "this"}
  /\ trust \in {"none", "level", "full"}

NumbersOK ==
  /\ epoch \in Nat /\ untimely \in Nat
  /\ listeners \in 0 .. MaxSessions /\ left \in 0 .. listeners
  /\ pc \in {"asleep", "look"} => left > 0
  /\ opener # "stopped" => listeners > 0

\* Every variable has values of its type, a listener that is called is one of those
\* that are left, and a client that is started has listeners.
TypeOK == FlagsOK /\ PlacesOK /\ NumbersOK

\* The addresses are of this load, and those of the npc, if there is one.
Current == ptrsOf = "this" /\ (NpcHere => npcOf = "this")

\* In the first session, and in every session once the watcher has looked up a level
\* undisturbed, until a change of the game is untimely: the update thread starts a
\* cycle (processMessages, then isOnLevel()) in a level that is played only with
\* pointers of that level, and with those of an npc, if the level has it.  (If not,
\* the npc's are of an earlier level, and are written through nevertheless.)
FreshPointers ==
  /\ trust = "full" /\ phase = "play" /\ IsOnLevel
  /\ processMessages \/ (up = "level" /\ asked)
  => Current

WatcherLooks == pc = "look"
OpenerLooks == opener = "look"

\* Under the same condition, but for the level that onOpenGame and the watcher found
\* at the same time: no two threads look up pointers at a time, and none of the
\* cycles within the lookup of the first listener, which would find the list of
\* enemies cleared under it, has begun since the watcher saw the level.
LookupsAlone ==
  trust = "full" /\ ~early =>
    /\ ~(WatcherLooks /\ OpenerLooks)
    /\ WatcherLooks /\ left = listeners /\ up = "cycle" => longCycle

\* A level that is played on comes to be processed, with its own pointers, or the
\* client is stopped: in the first session and in later ones, whatever was untimely
\* before, if the changes of the game were timely since the level began to load and
\* the process is the one the session started with.
LevelIsServed ==
  (phase = "play" /\ attached /\ trust # "none") ~>
    (phase # "play" \/ stopThread \/ (processMessages /\ IsOnLevel /\ ptrsOf = "this"))

\* stop() returns: the watcher and the update thread leave their loops, whatever
\* the game does, also when they were in a listener or a cycle, the game is closed or
\* the connection lost.
WatcherStops == opener = "joining" ~> opener = "stopped"

===============================================================================
