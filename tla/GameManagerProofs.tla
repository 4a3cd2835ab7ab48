--------------------------- MODULE GameManagerProofs ---------------------------
(***************************************************************************)
(* Proofs about GameManager, for any number of loads, of sessions and of    *)
(* untimely changes of the game: its types, and what the client may rely on *)
(* as long as nothing was untimely since it was in step with the game: that *)
(* cycles begin with the pointers of the level being played, and that       *)
(* lookups are alone.                                                       *)
(***************************************************************************)
EXTENDS GameManager, TLAPS

-------------------------------------------------------------------------------
(* The inductive invariant.                                                 *)

\* What start() finds the first time.
FreshInv ==
  listeners = 0 =>
    /\ opener = "stopped" /\ pc = "off" /\ up = "off" /\ ~attached /\ ~early
    /\ ~processMessages /\ ~isEnded /\ ~wasEnded /\ ~isLoaded /\ trust # "full"

\* The threads run in a session only, and listeners are called in a level; the open
\* and close events never fire.
ThreadsInv ==
  /\ opener = "stopped" => pc \in {"off", "done"} /\ up \in {"off", "done"}
  /\ up \notin {"off", "done"} => opener \in {"done", "joining"}
  /\ pc \in {"asleep", "look"} => isLoaded /\ ~isEnded
  /\ ~wasOpen

\* Until onOpenGame has looked up, the game stays in one phase, and the watcher
\* has seen nothing but the flags of that phase, the first of them first.  A session
\* that starts out of step is past its onOpenGame when it comes to be in step.
OpeningInv ==
  /\ trust = "full" /\ opener = "open" =>
       /\ attached /\ GameRunning
       /\ isEnded \/ wasEnded => ~NotEnded
       /\ isLoaded \/ pc \in {"flags", "assigned"} => isEnded = ~NotEnded
       /\ isLoaded => ~Loading
       /\ pc = "assigned" => isLoading = Loading
  /\ trust = "full" /\ opener \in {"asleep", "look"} =>
       attached /\ phase = "play" /\ ~isEnded /\ ~wasEnded /\ early
  /\ trust = "level" /\ phase # "loading" => opener \notin {"open", "asleep", "look"}

\* In the rest of a poll that has seen the game not ended, it is at most in the
\* phase after; and in a level, if it was seen to be loaded, too.
PollingInv ==
  trust = "full" /\ attached /\ ~isEnded
  /\ pc \in {"flags", "assigned", "exit", "enter", "asleep", "look", "remember"} =>
       /\ phase \in {"starting", "play", "ending"}
       /\ phase = "ending" => ~polled
       /\ pc = "assigned" /\ ~isLoading => phase # "starting"
       /\ pc \notin {"flags", "assigned"} /\ isLoaded => phase # "starting"

\* A thread that has looked for the npc has found it, if there is one; but for a
\* lookup that an untimely load overtook.
LookedInv ==
  trust # "none" /\ attached /\ phase # "loading" /\ (pc = "look" \/ opener = "look") =>
    (NpcHere => npcOf = "this")

\* The watcher has seen the end of the level, and has yet to tell the listener.
EndSeen == pc \in {"flags", "assigned", "exit"} /\ isEnded /\ ~wasEnded

\* It has not, and will see it as an edge.
EndAhead ==
  ~isEnded /\ (pc \in {"check", "game", "ended", "flags", "assigned", "exit"} => ~wasEnded)

\* While messages are processed, the level whose addresses are used is on, or its
\* end is about to be told.
ProcessingInv ==
  trust = "full" /\ processMessages /\ attached =>
    \/ phase = "play" /\ Current /\ EndAhead
    \/ phase = "ending" /\ ~polled /\ Current /\ EndAhead
    \/ phase = "ending" /\ polled /\ Current /\ EndSeen
    \/ phase \in {"loading", "menu"} /\ ~polled /\ EndSeen

\* So it was when the update thread tested processMessages in this phase.
AskedInv == trust = "full" /\ attached /\ phase = "play" /\ up = "level" /\ asked => Current

\* The first listener has looked up this level, and the watcher knows, or will
\* remember, that it was loaded.
OnceInv ==
  trust = "full" /\ ~early /\ processMessages /\ attached /\ ~isEnded =>
    /\ pc \in {"asleep", "look"} => left < listeners
    /\ IF pc \in {"asleep", "look", "remember"} THEN isLoaded ELSE wasLoaded
    /\ pc = "assigned" => ~isLoading
    /\ pc \in {"exit", "enter"} => isLoaded

\* A cycle that is under way while the first listener sleeps began before.
CycleInv ==
  trust = "full" /\ ~early /\ pc \in {"asleep", "look"} /\ left = listeners
  /\ (up = "cycle" \/ (up = "level" /\ attached)) => longCycle

IndInv ==
  /\ TypeOK /\ FreshInv /\ ThreadsInv /\ OpeningInv /\ PollingInv /\ LookedInv
  /\ ProcessingInv /\ AskedInv /\ OnceInv /\ CycleInv

-------------------------------------------------------------------------------
(* Types.                                                                   *)

\* The types, before the first session.
LEMMA TypeInit == Init => TypeOK
<1>1. Init => FlagsOK
  BY DEF Init, FlagsOK
<1>2. Init => PlacesOK
  BY DEF Init, PlacesOK, Phases
<1>3. Init => NumbersOK
  BY ManagerAssumption DEF Init, NumbersOK
<1> QED BY <1>1, <1>2, <1>3 DEF TypeOK

\* The flags stay Boolean.
LEMMA FlagsStep == ASSUME TypeOK, [Next]_vars PROVE FlagsOK'
<1> USE DEF gameVars, seenVars, ptrVars, upVars, sessionVars
<1>0. FlagsOK
  BY DEF TypeOK
<1>1. CASE GameMoves
  BY <1>0, <1>1 DEF GameMoves, Untimely, Timely, Settling, Follows, Aged, FlagsOK
<1>2. CASE StartManager
  BY <1>0, <1>2 DEF StartManager, GameRunning, FlagsOK
<1>3. CASE OpenGame
  BY <1>0, <1>3, ZenonT(60) DEF OpenGame, IsOnLevel, Assigned, FlagsOK
<1>4. CASE OpenGameWakes
  BY <1>0, <1>4 DEF OpenGameWakes, LookupNpcs, NpcFound, FlagsOK
<1>5. CASE OpenGameReads
  BY <1>0, <1>5 DEF OpenGameReads, ReadPointers, FlagsOK
<1>6. CASE StartUpdating
  BY <1>0, <1>6 DEF StartUpdating, FlagsOK
<1>7. CASE ServerGone
  BY <1>0, <1>7, ZenonT(60) DEF ServerGone, FlagsOK
<1>8. CASE StopManager
  BY <1>0, <1>8, ZenonT(60) DEF StopManager, StopWatching, FlagsOK
<1>9. CASE Joined
  BY <1>0, <1>9 DEF Joined, FlagsOK
<1>10. CASE UpCheck
  BY <1>0, <1>10 DEF UpCheck, FlagsOK
<1>11. CASE UpLevel
  BY <1>0, <1>11, ZenonT(60) DEF UpLevel, IsOnLevel, Assigned, FlagsOK
<1>12. CASE UpCycleEnds
  BY <1>0, <1>12, ZenonT(60) DEF UpCycleEnds, FlagsOK
<1>13. CASE Check
  BY <1>0, <1>13 DEF Check, GameRunning, FlagsOK
<1>14. CASE UpdateGameState
  BY <1>0, <1>14 DEF UpdateGameState, GameRunning, FlagsOK
<1>15. CASE ReadEnded
  BY <1>0, <1>15 DEF ReadEnded, NotEnded, FlagsOK
<1>16. CASE ReadLoading
  BY <1>0, <1>16 DEF ReadLoading, Loading, FlagsOK
<1>17. CASE ReadAssigned
  BY <1>0, <1>17 DEF ReadAssigned, Assigned, FlagsOK
<1>18. CASE ExitLevel
  <2>1. CASE wasEnded # isEnded /\ isEnded
    BY <1>0, <1>18, <2>1, ZenonT(60) DEF ExitLevel, StopProcessing, FlagsOK
  <2>2. CASE ~(wasEnded # isEnded /\ isEnded)
    <3>1. UNCHANGED <<isLoaded, processMessages>>
      BY <1>18, <2>2 DEF ExitLevel
    <3> QED BY <1>0, <1>18, <3>1, ZenonT(60) DEF ExitLevel, FlagsOK
  <2> QED BY <2>1, <2>2
<1>19. CASE EnterLevel
  <2>1. isLoaded' \in BOOLEAN
    BY <1>0, <1>19 DEF EnterLevel, LevelEntered, FlagsOK
  <2>2. longCycle' \in BOOLEAN
    <3>1. CASE LevelEntered
      BY <1>19, <3>1 DEF EnterLevel
    <3>2. CASE ~LevelEntered
      BY <1>0, <1>19, <3>2 DEF EnterLevel, FlagsOK
    <3> QED BY <3>1, <3>2
  <2> QED BY <1>0, <1>19, <2>1, <2>2 DEF EnterLevel, FlagsOK
<1>20. CASE EnterLevelWakes
  BY <1>0, <1>20 DEF EnterLevelWakes, LookupNpcs, NpcFound, FlagsOK
<1>21. CASE EnterLevelReads
  BY <1>0, <1>21 DEF EnterLevelReads, ReadPointers, FlagsOK
<1>22. CASE Remember
  BY <1>0, <1>22 DEF Remember, FlagsOK
<1>23. CASE UNCHANGED vars
  BY <1>0, <1>23 DEF vars, FlagsOK
<1> QED
  BY <1>1, <1>2, <1>3, <1>4, <1>5, <1>6, <1>7, <1>8, <1>9, <1>10, <1>11, <1>12, <1>13, <1>14,
     <1>15, <1>16, <1>17, <1>18, <1>19, <1>20, <1>21, <1>22, <1>23
     DEF Next, Watch, Opening, Updating

\* The threads stay at their places, and the game in one of its phases.
LEMMA PlacesStep == ASSUME TypeOK, [Next]_vars PROVE PlacesOK'
<1> USE DEF gameVars, seenVars, ptrVars, upVars, sessionVars
<1>0. PlacesOK
  BY DEF TypeOK
<1>1. CASE GameMoves
  BY <1>0, <1>1 DEF GameMoves, Untimely, Timely, Settling, Follows, Aged, PlacesOK, Phases
<1>2. CASE StartManager
  BY <1>0, <1>2 DEF StartManager, GameRunning, PlacesOK, Phases
<1>3. CASE OpenGame
  BY <1>0, <1>3 DEF OpenGame, IsOnLevel, Assigned, PlacesOK, Phases
<1>4. CASE OpenGameWakes
  BY <1>0, <1>4 DEF OpenGameWakes, LookupNpcs, NpcFound, PlacesOK, Phases
<1>5. CASE OpenGameReads
  BY <1>0, <1>5 DEF OpenGameReads, ReadPointers, PlacesOK, Phases
<1>6. CASE StartUpdating
  BY <1>0, <1>6 DEF StartUpdating, PlacesOK, Phases
<1>7. CASE StopManager
  BY <1>0, <1>7 DEF StopManager, StopWatching, PlacesOK, Phases
<1>8. CASE Joined
  BY <1>0, <1>8 DEF Joined, PlacesOK, Phases
<1>9. CASE UpCheck
  BY <1>0, <1>9 DEF UpCheck, PlacesOK, Phases
<1>10. CASE UpLevel
  BY <1>0, <1>10 DEF UpLevel, IsOnLevel, Assigned, PlacesOK, Phases
<1>11. CASE UpCycleEnds
  BY <1>0, <1>11 DEF UpCycleEnds, PlacesOK, Phases
<1>12. CASE Check
  BY <1>0, <1>12 DEF Check, GameRunning, PlacesOK, Phases
<1>13. CASE UpdateGameState
  BY <1>0, <1>13 DEF UpdateGameState, GameRunning, PlacesOK, Phases
<1>14. CASE ReadEnded
  BY <1>0, <1>14 DEF ReadEnded, NotEnded, PlacesOK, Phases
<1>15. CASE ReadLoading
  BY <1>0, <1>15 DEF ReadLoading, Loading, PlacesOK, Phases
<1>16. CASE ReadAssigned
  BY <1>0, <1>16 DEF ReadAssigned, Assigned, PlacesOK, Phases
<1>17. CASE ExitLevel
  BY <1>0, <1>17 DEF ExitLevel, StopProcessing, PlacesOK, Phases
<1>18. CASE EnterLevel
  BY <1>0, <1>18 DEF EnterLevel, LevelEntered, PlacesOK, Phases
<1>19. CASE EnterLevelWakes
  BY <1>0, <1>19 DEF EnterLevelWakes, LookupNpcs, NpcFound, PlacesOK, Phases
<1>20. CASE EnterLevelReads
  BY <1>0, <1>20 DEF EnterLevelReads, ReadPointers, PlacesOK, Phases
<1>21. CASE Remember
  BY <1>0, <1>21 DEF Remember, PlacesOK, Phases
<1>22. CASE ServerGone \/ UNCHANGED vars
  BY <1>0, <1>22 DEF ServerGone, vars, PlacesOK, Phases
<1> QED
  BY <1>1, <1>2, <1>3, <1>4, <1>5, <1>6, <1>7, <1>8, <1>9, <1>10, <1>11, <1>12, <1>13, <1>14,
     <1>15, <1>16, <1>17, <1>18, <1>19, <1>20, <1>21, <1>22
     DEF Next, Watch, Opening, Updating

\* The counters stay within their bounds.
LEMMA NumbersStep == ASSUME TypeOK, ThreadsInv, [Next]_vars PROVE NumbersOK'
<1> USE DEF gameVars, seenVars, ptrVars, upVars, sessionVars
<1>0. NumbersOK
  BY DEF TypeOK
<1>1. CASE GameMoves
  <2>1. /\ epoch' \in {epoch, epoch + 1} /\ untimely' \in {untimely, untimely + 1}
        /\ UNCHANGED <<listeners, left, pc, opener>>
    BY <1>1 DEF GameMoves, Untimely, Timely, Settling
  <2> QED BY <1>0, <2>1 DEF NumbersOK
<1>2. CASE StartManager
  <2>1. /\ listeners < MaxSessions /\ listeners' = listeners + 1 /\ pc' = "check"
        /\ UNCHANGED <<epoch, untimely, left>>
    BY <1>2 DEF StartManager
  <2> QED BY <1>0, <2>1, ManagerAssumption DEF NumbersOK
<1>3. CASE OpenGame
  BY <1>0, <1>3 DEF OpenGame, IsOnLevel, Assigned, NumbersOK
<1>4. CASE OpenGameWakes
  BY <1>0, <1>4 DEF OpenGameWakes, LookupNpcs, NpcFound, NumbersOK
<1>5. CASE OpenGameReads
  BY <1>0, <1>5 DEF OpenGameReads, ReadPointers, NumbersOK
<1>6. CASE StartUpdating
  BY <1>0, <1>6 DEF StartUpdating, NumbersOK
<1>7. CASE StopManager
  BY <1>0, <1>7 DEF StopManager, StopWatching, NumbersOK
<1>8. CASE Joined
  BY <1>0, <1>8 DEF Joined, NumbersOK
<1>9. CASE Check
  BY <1>0, <1>9 DEF Check, GameRunning, NumbersOK
<1>10. CASE UpdateGameState
  BY <1>0, <1>10 DEF UpdateGameState, GameRunning, NumbersOK
<1>11. CASE ReadEnded
  BY <1>0, <1>11 DEF ReadEnded, NotEnded, NumbersOK
<1>12. CASE ReadLoading
  BY <1>0, <1>12 DEF ReadLoading, Loading, NumbersOK
<1>13. CASE ReadAssigned
  BY <1>0, <1>13 DEF ReadAssigned, Assigned, NumbersOK
<1>14. CASE ExitLevel
  BY <1>0, <1>14 DEF ExitLevel, StopProcessing, NumbersOK
<1>15. CASE EnterLevel
  <2>1. \/ pc' = "asleep" /\ left' = listeners
        \/ pc' = "remember" /\ left' = left
    BY <1>15 DEF EnterLevel, LevelEntered
  <2>2. pc = "enter" /\ UNCHANGED <<epoch, untimely, listeners, opener>>
    BY <1>15 DEF EnterLevel
  <2>3. opener # "stopped"
    BY <2>2 DEF ThreadsInv
  <2> QED BY <1>0, <2>1, <2>2, <2>3 DEF NumbersOK
<1>16. CASE EnterLevelWakes
  BY <1>0, <1>16 DEF EnterLevelWakes, LookupNpcs, NpcFound, NumbersOK
<1>17. CASE EnterLevelReads
  <2>1. /\ left' = left - 1 /\ pc = "look"
        /\ pc' = "remember" \/ (left > 1 /\ pc' = "asleep")
        /\ UNCHANGED <<epoch, untimely, listeners, opener>>
    BY <1>17 DEF EnterLevelReads, ReadPointers
  <2> QED BY <1>0, <2>1 DEF NumbersOK
<1>18. CASE Remember
  BY <1>0, <1>18 DEF Remember, NumbersOK
<1>19. CASE ServerGone \/ UpCheck \/ UpLevel \/ UpCycleEnds \/ UNCHANGED vars
  BY <1>0, <1>19 DEF ServerGone, UpCheck, UpLevel, UpCycleEnds, vars, NumbersOK
<1> QED
  BY <1>1, <1>2, <1>3, <1>4, <1>5, <1>6, <1>7, <1>8, <1>9, <1>10, <1>11, <1>12, <1>13, <1>14,
     <1>15, <1>16, <1>17, <1>18, <1>19
     DEF Next, Watch, Opening, Updating

\* The threads run in a session only.
LEMMA ThreadsStep == ASSUME TypeOK, ThreadsInv, [Next]_vars PROVE ThreadsInv'
<1> USE DEF gameVars, seenVars, ptrVars, upVars, sessionVars
<1>0. PlacesOK /\ ThreadsInv
  BY DEF TypeOK
<1>1. CASE StartManager
  BY <1>0, <1>1 DEF StartManager, GameRunning, PlacesOK, ThreadsInv
<1>2. CASE OpenGame
  BY <1>0, <1>2 DEF OpenGame, IsOnLevel, Assigned, PlacesOK, ThreadsInv
<1>3. CASE OpenGameWakes
  BY <1>0, <1>3 DEF OpenGameWakes, LookupNpcs, NpcFound, PlacesOK, ThreadsInv
<1>4. CASE OpenGameReads
  BY <1>0, <1>4 DEF OpenGameReads, ReadPointers, PlacesOK, ThreadsInv
<1>5. CASE StartUpdating
  BY <1>0, <1>5 DEF StartUpdating, PlacesOK, ThreadsInv
<1>6. CASE StopManager
  BY <1>0, <1>6 DEF StopManager, StopWatching, PlacesOK, ThreadsInv
<1>7. CASE Joined
  BY <1>0, <1>7 DEF Joined, PlacesOK, ThreadsInv
<1>8. CASE UpCheck
  BY <1>0, <1>8 DEF UpCheck, PlacesOK, ThreadsInv
<1>9. CASE UpLevel
  BY <1>0, <1>9 DEF UpLevel, IsOnLevel, Assigned, PlacesOK, ThreadsInv
<1>10. CASE UpCycleEnds
  BY <1>0, <1>10 DEF UpCycleEnds, PlacesOK, ThreadsInv
<1>11. CASE Check
  BY <1>0, <1>11 DEF Check, GameRunning, PlacesOK, ThreadsInv
<1>12. CASE UpdateGameState
  BY <1>0, <1>12 DEF UpdateGameState, GameRunning, PlacesOK, ThreadsInv
<1>13. CASE ReadEnded
  BY <1>0, <1>13 DEF ReadEnded, NotEnded, PlacesOK, ThreadsInv
<1>14. CASE ReadLoading
  BY <1>0, <1>14 DEF ReadLoading, Loading, PlacesOK, ThreadsInv
<1>15. CASE ReadAssigned
  BY <1>0, <1>15 DEF ReadAssigned, Assigned, PlacesOK, ThreadsInv
<1>16. CASE ExitLevel
  BY <1>0, <1>16 DEF ExitLevel, StopProcessing, PlacesOK, ThreadsInv
<1>17. CASE EnterLevel
  BY <1>0, <1>17 DEF EnterLevel, LevelEntered, PlacesOK, ThreadsInv
<1>18. CASE EnterLevelWakes
  BY <1>0, <1>18 DEF EnterLevelWakes, LookupNpcs, NpcFound, PlacesOK, ThreadsInv
<1>19. CASE EnterLevelReads
  BY <1>0, <1>19 DEF EnterLevelReads, ReadPointers, PlacesOK, ThreadsInv
<1>20. CASE Remember
  BY <1>0, <1>20 DEF Remember, PlacesOK, ThreadsInv
<1>21. CASE GameMoves \/ ServerGone \/ UNCHANGED vars
  BY <1>0, <1>21 DEF GameMoves, ServerGone, vars, PlacesOK, ThreadsInv
<1> QED
  BY <1>1, <1>2, <1>3, <1>4, <1>5, <1>6, <1>7, <1>8, <1>9, <1>10, <1>11, <1>12, <1>13, <1>14,
     <1>15, <1>16, <1>17, <1>18, <1>19, <1>20, <1>21
     DEF Next, Watch, Opening, Updating

\* Every step keeps the types and the threads at their places.
LEMMA TypeStep == TypeOK /\ ThreadsInv /\ [Next]_vars => TypeOK' /\ ThreadsInv'
BY FlagsStep, PlacesStep, NumbersStep, ThreadsStep DEF TypeOK

\* Every variable keeps its type, and a listener is called only if it is left to call.
THEOREM TypeCorrectness == Spec => []TypeOK
<1>1. Init => ThreadsInv
  BY DEF Init, ThreadsInv
<1> QED BY <1>1, TypeInit, TypeStep, PTL DEF Spec

-------------------------------------------------------------------------------
(* The other parts of the invariant.                                        *)

\* The invariant, before the first session.
LEMMA InitInvariant == Init => IndInv
<1>1. Init => TypeOK
  BY TypeInit
<1>2. Init => FreshInv /\ ThreadsInv /\ OpeningInv /\ PollingInv
  BY DEF Init, FreshInv, ThreadsInv, OpeningInv, PollingInv
<1>3. Init => LookedInv /\ ProcessingInv /\ AskedInv /\ OnceInv /\ CycleInv
  BY DEF Init, LookedInv, ProcessingInv, AskedInv, OnceInv, CycleInv
<1> QED BY <1>1, <1>2, <1>3 DEF IndInv

\* Nothing happens before the first session but the game's own changes.
LEMMA FreshStep == ASSUME IndInv, [Next]_vars PROVE FreshInv'
<1> USE DEF gameVars, seenVars, ptrVars, upVars, sessionVars
<1>0. NumbersOK /\ PlacesOK /\ ThreadsInv /\ FreshInv
  BY DEF IndInv, TypeOK
<1>1. CASE GameMoves
  BY <1>0, <1>1
     DEF GameMoves, Untimely, Timely, Settling, Follows, Aged, NumbersOK, PlacesOK,
         ThreadsInv, FreshInv
<1>2. CASE StartManager
  BY <1>0, <1>2 DEF StartManager, GameRunning, NumbersOK, PlacesOK, ThreadsInv, FreshInv
<1>3. CASE OpenGame
  BY <1>0, <1>3 DEF OpenGame, IsOnLevel, Assigned, NumbersOK, PlacesOK, ThreadsInv, FreshInv
<1>4. CASE OpenGameWakes
  BY <1>0, <1>4 DEF OpenGameWakes, LookupNpcs, NpcFound, NumbersOK, PlacesOK, ThreadsInv, FreshInv
<1>5. CASE OpenGameReads
  BY <1>0, <1>5 DEF OpenGameReads, ReadPointers, NumbersOK, PlacesOK, ThreadsInv, FreshInv
<1>6. CASE StartUpdating
  BY <1>0, <1>6 DEF StartUpdating, NumbersOK, PlacesOK, ThreadsInv, FreshInv
<1>7. CASE StopManager
  BY <1>0, <1>7 DEF StopManager, StopWatching, NumbersOK, PlacesOK, ThreadsInv, FreshInv
<1>8. CASE Joined
  BY <1>0, <1>8 DEF Joined, NumbersOK, PlacesOK, ThreadsInv, FreshInv
<1>9. CASE UpCheck
  BY <1>0, <1>9 DEF UpCheck, NumbersOK, PlacesOK, ThreadsInv, FreshInv
<1>10. CASE UpLevel
  BY <1>0, <1>10 DEF UpLevel, IsOnLevel, Assigned, NumbersOK, PlacesOK, ThreadsInv, FreshInv
<1>11. CASE UpCycleEnds
  BY <1>0, <1>11 DEF UpCycleEnds, NumbersOK, PlacesOK, ThreadsInv, FreshInv
<1>12. CASE Check
  BY <1>0, <1>12 DEF Check, GameRunning, NumbersOK, PlacesOK, ThreadsInv, FreshInv
<1>13. CASE UpdateGameState
  BY <1>0, <1>13 DEF UpdateGameState, GameRunning, NumbersOK, PlacesOK, ThreadsInv, FreshInv
<1>14. CASE ReadEnded
  BY <1>0, <1>14 DEF ReadEnded, NotEnded, NumbersOK, PlacesOK, ThreadsInv, FreshInv
<1>15. CASE ReadLoading
  BY <1>0, <1>15 DEF ReadLoading, Loading, NumbersOK, PlacesOK, ThreadsInv, FreshInv
<1>16. CASE ReadAssigned
  BY <1>0, <1>16 DEF ReadAssigned, Assigned, NumbersOK, PlacesOK, ThreadsInv, FreshInv
<1>17. CASE ExitLevel
  BY <1>0, <1>17 DEF ExitLevel, StopProcessing, NumbersOK, PlacesOK, ThreadsInv, FreshInv
<1>18. CASE EnterLevel
  BY <1>0, <1>18 DEF EnterLevel, LevelEntered, NumbersOK, PlacesOK, ThreadsInv, FreshInv
<1>19. CASE EnterLevelWakes
  BY <1>0, <1>19
     DEF EnterLevelWakes, LookupNpcs, NpcFound, NumbersOK, PlacesOK, ThreadsInv, FreshInv
<1>20. CASE EnterLevelReads
  BY <1>0, <1>20 DEF EnterLevelReads, ReadPointers, NumbersOK, PlacesOK, ThreadsInv, FreshInv
<1>21. CASE Remember
  BY <1>0, <1>21 DEF Remember, NumbersOK, PlacesOK, ThreadsInv, FreshInv
<1>22. CASE ServerGone \/ UNCHANGED vars
  BY <1>0, <1>22 DEF ServerGone, vars, NumbersOK, PlacesOK, ThreadsInv, FreshInv
<1> QED
  BY <1>1, <1>2, <1>3, <1>4, <1>5, <1>6, <1>7, <1>8, <1>9, <1>10, <1>11, <1>12, <1>13, <1>14,
     <1>15, <1>16, <1>17, <1>18, <1>19, <1>20, <1>21, <1>22
     DEF Next, Watch, Opening, Updating

\* While onOpenGame waits the game does not run ahead of what the watcher saw.
LEMMA OpeningStep == ASSUME IndInv, [Next]_vars PROVE OpeningInv'
<1> USE DEF gameVars, seenVars, ptrVars, upVars, sessionVars
<1>0. FlagsOK /\ NumbersOK /\ PlacesOK /\ FreshInv /\ ThreadsInv /\ OpeningInv
  BY DEF IndInv, TypeOK
<1>1. CASE GameMoves
  BY <1>0, <1>1
     DEF GameMoves, Untimely, Timely, Settling, Follows, Aged, FlagsOK, NumbersOK, PlacesOK,
         Phases, FreshInv, ThreadsInv, OpeningInv, GameRunning, NotEnded, Loading, Assigned
<1>2. CASE StartManager
  BY <1>0, <1>2
     DEF StartManager, GameRunning, FlagsOK, NumbersOK, PlacesOK, Phases, FreshInv,
         ThreadsInv, OpeningInv, NotEnded, Loading, Assigned
<1>3. CASE OpenGame
  BY <1>0, <1>3
     DEF OpenGame, IsOnLevel, Assigned, FlagsOK, NumbersOK, PlacesOK, Phases, FreshInv,
         ThreadsInv, OpeningInv, GameRunning, NotEnded, Loading
<1>4. CASE OpenGameWakes
  BY <1>0, <1>4
     DEF OpenGameWakes, LookupNpcs, NpcFound, FlagsOK, NumbersOK, PlacesOK, Phases, FreshInv,
         ThreadsInv, OpeningInv, GameRunning, NotEnded, Loading, Assigned
<1>5. CASE OpenGameReads
  BY <1>0, <1>5
     DEF OpenGameReads, ReadPointers, FlagsOK, NumbersOK, PlacesOK, Phases, FreshInv,
         ThreadsInv, OpeningInv, GameRunning, NotEnded, Loading, Assigned
<1>6. CASE StartUpdating
  BY <1>0, <1>6
     DEF StartUpdating, FlagsOK, NumbersOK, PlacesOK, Phases, FreshInv, ThreadsInv,
         OpeningInv, GameRunning, NotEnded, Loading, Assigned
<1>7. CASE StopManager
  BY <1>0, <1>7
     DEF StopManager, StopWatching, FlagsOK, NumbersOK, PlacesOK, Phases, FreshInv,
         ThreadsInv, OpeningInv, GameRunning, NotEnded, Loading, Assigned
<1>8. CASE Joined
  BY <1>0, <1>8
     DEF Joined, FlagsOK, NumbersOK, PlacesOK, Phases, FreshInv, ThreadsInv, OpeningInv,
         GameRunning, NotEnded, Loading, Assigned
<1>9. CASE Check
  BY <1>0, <1>9
     DEF Check, GameRunning, FlagsOK, NumbersOK, PlacesOK, Phases, FreshInv, ThreadsInv,
         OpeningInv, NotEnded, Loading, Assigned
<1>10. CASE UpdateGameState
  BY <1>0, <1>10
     DEF UpdateGameState, GameRunning, FlagsOK, NumbersOK, PlacesOK, Phases, FreshInv,
         ThreadsInv, OpeningInv, NotEnded, Loading, Assigned
<1>11. CASE ReadEnded
  BY <1>0, <1>11
     DEF ReadEnded, NotEnded, FlagsOK, NumbersOK, PlacesOK, Phases, FreshInv, ThreadsInv,
         OpeningInv, GameRunning, Loading, Assigned
<1>12. CASE ReadLoading
  BY <1>0, <1>12
     DEF ReadLoading, Loading, FlagsOK, NumbersOK, PlacesOK, Phases, FreshInv, ThreadsInv,
         OpeningInv, GameRunning, NotEnded, Assigned
<1>13. CASE ReadAssigned
  BY <1>0, <1>13
     DEF ReadAssigned, Assigned, FlagsOK, NumbersOK, PlacesOK, Phases, FreshInv, ThreadsInv,
         OpeningInv, GameRunning, NotEnded, Loading
<1>14. CASE ExitLevel
  BY <1>0, <1>14
     DEF ExitLevel, StopProcessing, FlagsOK, NumbersOK, PlacesOK, Phases, FreshInv,
         ThreadsInv, OpeningInv, GameRunning, NotEnded, Loading, Assigned
<1>15. CASE EnterLevel
  BY <1>0, <1>15
     DEF EnterLevel, LevelEntered, FlagsOK, NumbersOK, PlacesOK, Phases, FreshInv, ThreadsInv,
         OpeningInv, GameRunning, NotEnded, Loading, Assigned
<1>16. CASE EnterLevelWakes
  BY <1>0, <1>16
     DEF EnterLevelWakes, LookupNpcs, NpcFound, FlagsOK, NumbersOK, PlacesOK, Phases,
         FreshInv, ThreadsInv, OpeningInv, GameRunning, NotEnded, Loading, Assigned
<1>17. CASE EnterLevelReads
  BY <1>0, <1>17
     DEF EnterLevelReads, ReadPointers, FlagsOK, NumbersOK, PlacesOK, Phases, FreshInv,
         ThreadsInv, OpeningInv, GameRunning, NotEnded, Loading, Assigned
<1>18. CASE Remember
  BY <1>0, <1>18
     DEF Remember, FlagsOK, NumbersOK, PlacesOK, Phases, FreshInv, ThreadsInv, OpeningInv,
         GameRunning, NotEnded, Loading, Assigned
<1>19. CASE ServerGone \/ UpCheck \/ UpLevel \/ UpCycleEnds \/ UNCHANGED vars
  BY <1>0, <1>19
     DEF ServerGone, UpCheck, UpLevel, UpCycleEnds, vars, FlagsOK, NumbersOK, PlacesOK,
         Phases, FreshInv, ThreadsInv, OpeningInv, GameRunning, NotEnded, Loading, Assigned
<1> QED
  BY <1>1, <1>2, <1>3, <1>4, <1>5, <1>6, <1>7, <1>8, <1>9, <1>10, <1>11, <1>12, <1>13, <1>14,
     <1>15, <1>16, <1>17, <1>18, <1>19
     DEF Next, Watch, Opening, Updating

\* A poll that has seen the game not ended is at most one phase late.
LEMMA PollingStep == ASSUME IndInv, [Next]_vars PROVE PollingInv'
<1> USE DEF gameVars, seenVars, ptrVars, upVars, sessionVars
<1>0. FlagsOK /\ PlacesOK /\ ThreadsInv /\ FreshInv /\ OpeningInv /\ PollingInv
  BY DEF IndInv, TypeOK
<1>1. CASE GameMoves
  BY <1>0, <1>1
     DEF GameMoves, Untimely, Timely, Settling, Follows, Aged, FlagsOK, PlacesOK, Phases,
         ThreadsInv, FreshInv, OpeningInv, PollingInv, NotEnded, Loading, Assigned
<1>2. CASE StartManager
  BY <1>0, <1>2
     DEF StartManager, GameRunning, FlagsOK, PlacesOK, Phases, ThreadsInv, FreshInv,
         OpeningInv, PollingInv, NotEnded, Loading, Assigned
<1>3. CASE OpenGame
  BY <1>0, <1>3
     DEF OpenGame, IsOnLevel, Assigned, FlagsOK, PlacesOK, Phases, ThreadsInv, FreshInv,
         OpeningInv, PollingInv, NotEnded, Loading
<1>4. CASE OpenGameWakes
  BY <1>0, <1>4
     DEF OpenGameWakes, LookupNpcs, NpcFound, FlagsOK, PlacesOK, Phases, ThreadsInv, FreshInv,
         OpeningInv, PollingInv, NotEnded, Loading, Assigned
<1>5. CASE OpenGameReads
  BY <1>0, <1>5
     DEF OpenGameReads, ReadPointers, FlagsOK, PlacesOK, Phases, ThreadsInv, FreshInv,
         OpeningInv, PollingInv, NotEnded, Loading, Assigned
<1>6. CASE StartUpdating
  BY <1>0, <1>6
     DEF StartUpdating, FlagsOK, PlacesOK, Phases, ThreadsInv, FreshInv, OpeningInv,
         PollingInv, NotEnded, Loading, Assigned
<1>7. CASE ServerGone
  BY <1>0, <1>7
     DEF ServerGone, FlagsOK, PlacesOK, Phases, ThreadsInv, FreshInv, OpeningInv, PollingInv,
         NotEnded, Loading, Assigned
<1>8. CASE StopManager
  BY <1>0, <1>8
     DEF StopManager, StopWatching, FlagsOK, PlacesOK, Phases, ThreadsInv, FreshInv,
         OpeningInv, PollingInv, NotEnded, Loading, Assigned
<1>9. CASE Joined
  BY <1>0, <1>9
     DEF Joined, FlagsOK, PlacesOK, Phases, ThreadsInv, FreshInv, OpeningInv, PollingInv,
         NotEnded, Loading, Assigned
<1>10. CASE UpCheck
  BY <1>0, <1>10
     DEF UpCheck, FlagsOK, PlacesOK, Phases, ThreadsInv, FreshInv, OpeningInv, PollingInv,
         NotEnded, Loading, Assigned
<1>11. CASE UpLevel
  BY <1>0, <1>11
     DEF UpLevel, IsOnLevel, Assigned, FlagsOK, PlacesOK, Phases, ThreadsInv, FreshInv,
         OpeningInv, PollingInv, NotEnded, Loading
<1>12. CASE UpCycleEnds
  BY <1>0, <1>12
     DEF UpCycleEnds, FlagsOK, PlacesOK, Phases, ThreadsInv, FreshInv, OpeningInv, PollingInv,
         NotEnded, Loading, Assigned
<1>13. CASE Check
  BY <1>0, <1>13
     DEF Check, GameRunning, FlagsOK, PlacesOK, Phases, ThreadsInv, FreshInv, OpeningInv,
         PollingInv, NotEnded, Loading, Assigned
<1>14. CASE UpdateGameState
  BY <1>0, <1>14
     DEF UpdateGameState, GameRunning, FlagsOK, PlacesOK, Phases, ThreadsInv, FreshInv,
         OpeningInv, PollingInv, NotEnded, Loading, Assigned
<1>15. CASE ReadEnded
  BY <1>0, <1>15
     DEF ReadEnded, NotEnded, FlagsOK, PlacesOK, Phases, ThreadsInv, FreshInv, OpeningInv,
         PollingInv, Loading, Assigned
<1>16. CASE ReadLoading
  BY <1>0, <1>16
     DEF ReadLoading, Loading, FlagsOK, PlacesOK, Phases, ThreadsInv, FreshInv, OpeningInv,
         PollingInv, NotEnded, Assigned
<1>17. CASE ReadAssigned
  BY <1>0, <1>17
     DEF ReadAssigned, Assigned, FlagsOK, PlacesOK, Phases, ThreadsInv, FreshInv, OpeningInv,
         PollingInv, NotEnded, Loading
<1>18. CASE ExitLevel
  BY <1>0, <1>18
     DEF ExitLevel, StopProcessing, FlagsOK, PlacesOK, Phases, ThreadsInv, FreshInv,
         OpeningInv, PollingInv, NotEnded, Loading, Assigned
<1>19. CASE EnterLevel
  BY <1>0, <1>19
     DEF EnterLevel, LevelEntered, FlagsOK, PlacesOK, Phases, ThreadsInv, FreshInv,
         OpeningInv, PollingInv, NotEnded, Loading, Assigned
<1>20. CASE EnterLevelWakes
  BY <1>0, <1>20
     DEF EnterLevelWakes, LookupNpcs, NpcFound, FlagsOK, PlacesOK, Phases, ThreadsInv,
         FreshInv, OpeningInv, PollingInv, NotEnded, Loading, Assigned
<1>21. CASE EnterLevelReads
  BY <1>0, <1>21
     DEF EnterLevelReads, ReadPointers, FlagsOK, PlacesOK, Phases, ThreadsInv, FreshInv,
         OpeningInv, PollingInv, NotEnded, Loading, Assigned
<1>22. CASE Remember
  BY <1>0, <1>22
     DEF Remember, FlagsOK, PlacesOK, Phases, ThreadsInv, FreshInv, OpeningInv, PollingInv,
         NotEnded, Loading, Assigned
<1>23. CASE UNCHANGED vars
  BY <1>0, <1>23
     DEF vars, FlagsOK, PlacesOK, Phases, ThreadsInv, FreshInv, OpeningInv, PollingInv,
         NotEnded, Loading, Assigned
<1> QED
  BY <1>1, <1>2, <1>3, <1>4, <1>5, <1>6, <1>7, <1>8, <1>9, <1>10, <1>11, <1>12, <1>13, <1>14,
     <1>15, <1>16, <1>17, <1>18, <1>19, <1>20, <1>21, <1>22, <1>23
     DEF Next, Watch, Opening, Updating

\* Who has looked for the npc holds its addresses in this load.
LEMMA LookedStep == ASSUME IndInv, [Next]_vars PROVE LookedInv'
<1> USE DEF gameVars, seenVars, ptrVars, upVars, sessionVars
<1>0. PlacesOK /\ ThreadsInv /\ OpeningInv /\ LookedInv
  BY DEF IndInv, TypeOK
<1>1. CASE GameMoves
  BY <1>0, <1>1
     DEF GameMoves, Untimely, Timely, Settling, Follows, Aged, PlacesOK, ThreadsInv,
         OpeningInv, LookedInv, NpcHere
<1>2. CASE StartManager
  BY <1>0, <1>2 DEF StartManager, GameRunning, PlacesOK, ThreadsInv, OpeningInv, LookedInv, NpcHere
<1>3. CASE OpenGame
  BY <1>0, <1>3
     DEF OpenGame, IsOnLevel, Assigned, PlacesOK, ThreadsInv, OpeningInv, LookedInv, NpcHere
<1>4. CASE OpenGameWakes
  BY <1>0, <1>4
     DEF OpenGameWakes, LookupNpcs, NpcFound, PlacesOK, ThreadsInv, OpeningInv, LookedInv,
         NpcHere
<1>5. CASE OpenGameReads
  BY <1>0, <1>5
     DEF OpenGameReads, ReadPointers, PlacesOK, ThreadsInv, OpeningInv, LookedInv, NpcHere
<1>6. CASE StartUpdating
  BY <1>0, <1>6 DEF StartUpdating, PlacesOK, ThreadsInv, OpeningInv, LookedInv, NpcHere
<1>7. CASE StopManager
  BY <1>0, <1>7 DEF StopManager, StopWatching, PlacesOK, ThreadsInv, OpeningInv, LookedInv, NpcHere
<1>8. CASE Joined
  BY <1>0, <1>8 DEF Joined, PlacesOK, ThreadsInv, OpeningInv, LookedInv, NpcHere
<1>9. CASE Check
  BY <1>0, <1>9 DEF Check, GameRunning, PlacesOK, ThreadsInv, OpeningInv, LookedInv, NpcHere
<1>10. CASE UpdateGameState
  BY <1>0, <1>10
     DEF UpdateGameState, GameRunning, PlacesOK, ThreadsInv, OpeningInv, LookedInv, NpcHere
<1>11. CASE ReadEnded
  BY <1>0, <1>11 DEF ReadEnded, NotEnded, PlacesOK, ThreadsInv, OpeningInv, LookedInv, NpcHere
<1>12. CASE ReadLoading
  BY <1>0, <1>12 DEF ReadLoading, Loading, PlacesOK, ThreadsInv, OpeningInv, LookedInv, NpcHere
<1>13. CASE ReadAssigned
  BY <1>0, <1>13 DEF ReadAssigned, Assigned, PlacesOK, ThreadsInv, OpeningInv, LookedInv, NpcHere
<1>14. CASE ExitLevel
  BY <1>0, <1>14
     DEF ExitLevel, StopProcessing, PlacesOK, ThreadsInv, OpeningInv, LookedInv, NpcHere
<1>15. CASE EnterLevel
  BY <1>0, <1>15 DEF EnterLevel, LevelEntered, PlacesOK, ThreadsInv, OpeningInv, LookedInv, NpcHere
<1>16. CASE EnterLevelWakes
  BY <1>0, <1>16
     DEF EnterLevelWakes, LookupNpcs, NpcFound, PlacesOK, ThreadsInv, OpeningInv, LookedInv,
         NpcHere
<1>17. CASE EnterLevelReads
  BY <1>0, <1>17
     DEF EnterLevelReads, ReadPointers, PlacesOK, ThreadsInv, OpeningInv, LookedInv, NpcHere
<1>18. CASE Remember
  BY <1>0, <1>18 DEF Remember, PlacesOK, ThreadsInv, OpeningInv, LookedInv, NpcHere
<1>19. CASE ServerGone \/ UpCheck \/ UpLevel \/ UpCycleEnds \/ UNCHANGED vars
  BY <1>0, <1>19
     DEF ServerGone, UpCheck, UpLevel, UpCycleEnds, vars, PlacesOK, ThreadsInv, OpeningInv,
         LookedInv, NpcHere
<1> QED
  BY <1>1, <1>2, <1>3, <1>4, <1>5, <1>6, <1>7, <1>8, <1>9, <1>10, <1>11, <1>12, <1>13, <1>14,
     <1>15, <1>16, <1>17, <1>18, <1>19
     DEF Next, Watch, Opening, Updating

\* Messages are processed in the level that was looked up, up to the end of which the
\* listener is told.
LEMMA ProcessingStep == ASSUME IndInv, [Next]_vars PROVE ProcessingInv'
<1> USE DEF gameVars, seenVars, ptrVars, upVars, sessionVars
<1>0. FlagsOK /\ PlacesOK /\ ThreadsInv /\ FreshInv /\ OpeningInv /\ PollingInv /\ LookedInv /\
     ProcessingInv
  BY DEF IndInv, TypeOK
<1>1. CASE GameMoves
  BY <1>0, <1>1
     DEF GameMoves, Untimely, Timely, Settling, Follows, Aged, FlagsOK, PlacesOK, Phases,
         ThreadsInv, FreshInv, OpeningInv, PollingInv, LookedInv, ProcessingInv, Current,
         EndAhead, EndSeen, NotEnded, NpcHere
<1>2. CASE StartManager
  BY <1>0, <1>2
     DEF StartManager, GameRunning, FlagsOK, PlacesOK, Phases, ThreadsInv, FreshInv,
         OpeningInv, PollingInv, LookedInv, ProcessingInv, Current, EndAhead, EndSeen,
         NotEnded, NpcHere
<1>3. CASE OpenGame
  BY <1>0, <1>3
     DEF OpenGame, IsOnLevel, Assigned, FlagsOK, PlacesOK, Phases, ThreadsInv, FreshInv,
         OpeningInv, PollingInv, LookedInv, ProcessingInv, Current, EndAhead, EndSeen,
         NotEnded, NpcHere
<1>4. CASE OpenGameWakes
  BY <1>0, <1>4
     DEF OpenGameWakes, LookupNpcs, NpcFound, FlagsOK, PlacesOK, Phases, ThreadsInv, FreshInv,
         OpeningInv, PollingInv, LookedInv, ProcessingInv, Current, EndAhead, EndSeen,
         NotEnded, NpcHere
<1>5. CASE OpenGameReads
  BY <1>0, <1>5
     DEF OpenGameReads, ReadPointers, FlagsOK, PlacesOK, Phases, ThreadsInv, FreshInv,
         OpeningInv, PollingInv, LookedInv, ProcessingInv, Current, EndAhead, EndSeen,
         NotEnded, NpcHere
<1>6. CASE StartUpdating
  BY <1>0, <1>6
     DEF StartUpdating, FlagsOK, PlacesOK, Phases, ThreadsInv, FreshInv, OpeningInv,
         PollingInv, LookedInv, ProcessingInv, Current, EndAhead, EndSeen, NotEnded, NpcHere
<1>7. CASE ServerGone
  BY <1>0, <1>7
     DEF ServerGone, FlagsOK, PlacesOK, Phases, ThreadsInv, FreshInv, OpeningInv, PollingInv,
         LookedInv, ProcessingInv, Current, EndAhead, EndSeen, NotEnded, NpcHere
<1>8. CASE StopManager
  BY <1>0, <1>8
     DEF StopManager, StopWatching, FlagsOK, PlacesOK, Phases, ThreadsInv, FreshInv,
         OpeningInv, PollingInv, LookedInv, ProcessingInv, Current, EndAhead, EndSeen,
         NotEnded, NpcHere
<1>9. CASE Joined
  BY <1>0, <1>9
     DEF Joined, FlagsOK, PlacesOK, Phases, ThreadsInv, FreshInv, OpeningInv, PollingInv,
         LookedInv, ProcessingInv, Current, EndAhead, EndSeen, NotEnded, NpcHere
<1>10. CASE UpCheck
  BY <1>0, <1>10
     DEF UpCheck, FlagsOK, PlacesOK, Phases, ThreadsInv, FreshInv, OpeningInv, PollingInv,
         LookedInv, ProcessingInv, Current, EndAhead, EndSeen, NotEnded, NpcHere
<1>11. CASE UpLevel
  BY <1>0, <1>11
     DEF UpLevel, IsOnLevel, Assigned, FlagsOK, PlacesOK, Phases, ThreadsInv, FreshInv,
         OpeningInv, PollingInv, LookedInv, ProcessingInv, Current, EndAhead, EndSeen,
         NotEnded, NpcHere
<1>12. CASE UpCycleEnds
  BY <1>0, <1>12
     DEF UpCycleEnds, FlagsOK, PlacesOK, Phases, ThreadsInv, FreshInv, OpeningInv, PollingInv,
         LookedInv, ProcessingInv, Current, EndAhead, EndSeen, NotEnded, NpcHere
<1>13. CASE Check
  BY <1>0, <1>13
     DEF Check, GameRunning, FlagsOK, PlacesOK, Phases, ThreadsInv, FreshInv, OpeningInv,
         PollingInv, LookedInv, ProcessingInv, Current, EndAhead, EndSeen, NotEnded, NpcHere
<1>14. CASE UpdateGameState
  BY <1>0, <1>14
     DEF UpdateGameState, GameRunning, FlagsOK, PlacesOK, Phases, ThreadsInv, FreshInv,
         OpeningInv, PollingInv, LookedInv, ProcessingInv, Current, EndAhead, EndSeen,
         NotEnded, NpcHere
<1>15. CASE ReadEnded
  BY <1>0, <1>15
     DEF ReadEnded, NotEnded, FlagsOK, PlacesOK, Phases, ThreadsInv, FreshInv, OpeningInv,
         PollingInv, LookedInv, ProcessingInv, Current, EndAhead, EndSeen, NpcHere
<1>16. CASE ReadLoading
  BY <1>0, <1>16
     DEF ReadLoading, Loading, FlagsOK, PlacesOK, Phases, ThreadsInv, FreshInv, OpeningInv,
         PollingInv, LookedInv, ProcessingInv, Current, EndAhead, EndSeen, NotEnded, NpcHere
<1>17. CASE ReadAssigned
  BY <1>0, <1>17
     DEF ReadAssigned, Assigned, FlagsOK, PlacesOK, Phases, ThreadsInv, FreshInv, OpeningInv,
         PollingInv, LookedInv, ProcessingInv, Current, EndAhead, EndSeen, NotEnded, NpcHere
<1>18. CASE ExitLevel
  BY <1>0, <1>18
     DEF ExitLevel, StopProcessing, FlagsOK, PlacesOK, Phases, ThreadsInv, FreshInv,
         OpeningInv, PollingInv, LookedInv, ProcessingInv, Current, EndAhead, EndSeen,
         NotEnded, NpcHere
<1>19. CASE EnterLevel
  BY <1>0, <1>19
     DEF EnterLevel, LevelEntered, FlagsOK, PlacesOK, Phases, ThreadsInv, FreshInv,
         OpeningInv, PollingInv, LookedInv, ProcessingInv, Current, EndAhead, EndSeen,
         NotEnded, NpcHere
<1>20. CASE EnterLevelWakes
  BY <1>0, <1>20
     DEF EnterLevelWakes, LookupNpcs, NpcFound, FlagsOK, PlacesOK, Phases, ThreadsInv,
         FreshInv, OpeningInv, PollingInv, LookedInv, ProcessingInv, Current, EndAhead,
         EndSeen, NotEnded, NpcHere
<1>21. CASE EnterLevelReads
  BY <1>0, <1>21
     DEF EnterLevelReads, ReadPointers, FlagsOK, PlacesOK, Phases, ThreadsInv, FreshInv,
         OpeningInv, PollingInv, LookedInv, ProcessingInv, Current, EndAhead, EndSeen,
         NotEnded, NpcHere
<1>22. CASE Remember
  BY <1>0, <1>22
     DEF Remember, FlagsOK, PlacesOK, Phases, ThreadsInv, FreshInv, OpeningInv, PollingInv,
         LookedInv, ProcessingInv, Current, EndAhead, EndSeen, NotEnded, NpcHere
<1>23. CASE UNCHANGED vars
  BY <1>0, <1>23
     DEF vars, FlagsOK, PlacesOK, Phases, ThreadsInv, FreshInv, OpeningInv, PollingInv,
         LookedInv, ProcessingInv, Current, EndAhead, EndSeen, NotEnded, NpcHere
<1> QED
  BY <1>1, <1>2, <1>3, <1>4, <1>5, <1>6, <1>7, <1>8, <1>9, <1>10, <1>11, <1>12, <1>13, <1>14,
     <1>15, <1>16, <1>17, <1>18, <1>19, <1>20, <1>21, <1>22, <1>23
     DEF Next, Watch, Opening, Updating

\* The pointers are still those of the level when the second test is made.
LEMMA AskedStep == ASSUME IndInv, [Next]_vars PROVE AskedInv'
<1> USE DEF gameVars, seenVars, ptrVars, upVars, sessionVars
<1>0. PlacesOK /\ ThreadsInv /\ LookedInv /\ OpeningInv /\ ProcessingInv /\ AskedInv
  BY DEF IndInv, TypeOK
<1>1. CASE GameMoves
  BY <1>0, <1>1
     DEF GameMoves, Untimely, Timely, Settling, Follows, Aged, PlacesOK, ThreadsInv,
         LookedInv, OpeningInv, ProcessingInv, AskedInv, Current, NpcHere
<1>2. CASE StartManager
  BY <1>0, <1>2
     DEF StartManager, GameRunning, PlacesOK, ThreadsInv, LookedInv, OpeningInv,
         ProcessingInv, AskedInv, Current, NpcHere
<1>3. CASE OpenGameWakes
  BY <1>0, <1>3
     DEF OpenGameWakes, LookupNpcs, NpcFound, PlacesOK, ThreadsInv, LookedInv, OpeningInv,
         ProcessingInv, AskedInv, Current, NpcHere
<1>4. CASE OpenGameReads
  BY <1>0, <1>4
     DEF OpenGameReads, ReadPointers, PlacesOK, ThreadsInv, LookedInv, OpeningInv,
         ProcessingInv, AskedInv, Current, NpcHere
<1>5. CASE StartUpdating
  BY <1>0, <1>5
     DEF StartUpdating, PlacesOK, ThreadsInv, LookedInv, OpeningInv, ProcessingInv, AskedInv,
         Current, NpcHere
<1>6. CASE UpCheck
  BY <1>0, <1>6
     DEF UpCheck, PlacesOK, ThreadsInv, LookedInv, OpeningInv, ProcessingInv, AskedInv,
         Current, NpcHere
<1>7. CASE UpLevel
  BY <1>0, <1>7
     DEF UpLevel, IsOnLevel, Assigned, PlacesOK, ThreadsInv, LookedInv, OpeningInv,
         ProcessingInv, AskedInv, Current, NpcHere
<1>8. CASE UpCycleEnds
  BY <1>0, <1>8
     DEF UpCycleEnds, PlacesOK, ThreadsInv, LookedInv, OpeningInv, ProcessingInv, AskedInv,
         Current, NpcHere
<1>9. CASE UpdateGameState
  BY <1>0, <1>9
     DEF UpdateGameState, GameRunning, PlacesOK, ThreadsInv, LookedInv, OpeningInv,
         ProcessingInv, AskedInv, Current, NpcHere
<1>10. CASE EnterLevelWakes
  BY <1>0, <1>10
     DEF EnterLevelWakes, LookupNpcs, NpcFound, PlacesOK, ThreadsInv, LookedInv, OpeningInv,
         ProcessingInv, AskedInv, Current, NpcHere
<1>11. CASE EnterLevelReads
  BY <1>0, <1>11
     DEF EnterLevelReads, ReadPointers, PlacesOK, ThreadsInv, LookedInv, OpeningInv,
         ProcessingInv, AskedInv, Current, NpcHere
<1>12. CASE \/ OpenGame \/ ServerGone \/ StopManager \/ Joined \/ Check \/ ReadEnded
          \/ ReadLoading \/ ReadAssigned \/ ExitLevel \/ EnterLevel \/ Remember
          \/ UNCHANGED vars
  BY <1>0, <1>12
     DEF OpenGame, ServerGone, StopManager, Joined, Check, ReadEnded, ReadLoading,
         ReadAssigned, ExitLevel, EnterLevel, Remember, StopWatching, vars, PlacesOK,
         ThreadsInv, LookedInv, OpeningInv, ProcessingInv, AskedInv, Current, NpcHere
<1> QED
  BY <1>1, <1>2, <1>3, <1>4, <1>5, <1>6, <1>7, <1>8, <1>9, <1>10, <1>11, <1>12
     DEF Next, Watch, Opening, Updating

\* The level that the watcher remembers as loaded is the one that was looked up.
LEMMA OnceStep == ASSUME IndInv, [Next]_vars PROVE OnceInv'
<1> USE DEF gameVars, seenVars, ptrVars, upVars, sessionVars
<1>0. FlagsOK /\ NumbersOK /\ PlacesOK /\ ThreadsInv /\ FreshInv /\ OpeningInv /\ PollingInv /\
     ProcessingInv /\ OnceInv
  BY DEF IndInv, TypeOK
<1>1. CASE GameMoves
  BY <1>0, <1>1
     DEF GameMoves, Untimely, Timely, Settling, Follows, Aged, FlagsOK, NumbersOK, PlacesOK,
         ThreadsInv, FreshInv, OpeningInv, PollingInv, ProcessingInv, OnceInv, EndAhead,
         EndSeen, Assigned, Loading, NotEnded
<1>2. CASE StartManager
  BY <1>0, <1>2
     DEF StartManager, GameRunning, FlagsOK, NumbersOK, PlacesOK, ThreadsInv, FreshInv,
         OpeningInv, PollingInv, ProcessingInv, OnceInv, EndAhead, EndSeen, Assigned, Loading,
         NotEnded
<1>3. CASE OpenGame
  BY <1>0, <1>3
     DEF OpenGame, IsOnLevel, Assigned, FlagsOK, NumbersOK, PlacesOK, ThreadsInv, FreshInv,
         OpeningInv, PollingInv, ProcessingInv, OnceInv, EndAhead, EndSeen, Loading, NotEnded
<1>4. CASE OpenGameWakes
  BY <1>0, <1>4
     DEF OpenGameWakes, LookupNpcs, NpcFound, FlagsOK, NumbersOK, PlacesOK, ThreadsInv,
         FreshInv, OpeningInv, PollingInv, ProcessingInv, OnceInv, EndAhead, EndSeen,
         Assigned, Loading, NotEnded
<1>5. CASE OpenGameReads
  BY <1>0, <1>5
     DEF OpenGameReads, ReadPointers, FlagsOK, NumbersOK, PlacesOK, ThreadsInv, FreshInv,
         OpeningInv, PollingInv, ProcessingInv, OnceInv, EndAhead, EndSeen, Assigned, Loading,
         NotEnded
<1>6. CASE StartUpdating
  BY <1>0, <1>6
     DEF StartUpdating, FlagsOK, NumbersOK, PlacesOK, ThreadsInv, FreshInv, OpeningInv,
         PollingInv, ProcessingInv, OnceInv, EndAhead, EndSeen, Assigned, Loading, NotEnded
<1>7. CASE ServerGone
  BY <1>0, <1>7
     DEF ServerGone, FlagsOK, NumbersOK, PlacesOK, ThreadsInv, FreshInv, OpeningInv,
         PollingInv, ProcessingInv, OnceInv, EndAhead, EndSeen, Assigned, Loading, NotEnded
<1>8. CASE StopManager
  BY <1>0, <1>8
     DEF StopManager, StopWatching, FlagsOK, NumbersOK, PlacesOK, ThreadsInv, FreshInv,
         OpeningInv, PollingInv, ProcessingInv, OnceInv, EndAhead, EndSeen, Assigned, Loading,
         NotEnded
<1>9. CASE Joined
  BY <1>0, <1>9
     DEF Joined, FlagsOK, NumbersOK, PlacesOK, ThreadsInv, FreshInv, OpeningInv, PollingInv,
         ProcessingInv, OnceInv, EndAhead, EndSeen, Assigned, Loading, NotEnded
<1>10. CASE UpCheck
  BY <1>0, <1>10
     DEF UpCheck, FlagsOK, NumbersOK, PlacesOK, ThreadsInv, FreshInv, OpeningInv, PollingInv,
         ProcessingInv, OnceInv, EndAhead, EndSeen, Assigned, Loading, NotEnded
<1>11. CASE UpLevel
  BY <1>0, <1>11
     DEF UpLevel, IsOnLevel, Assigned, FlagsOK, NumbersOK, PlacesOK, ThreadsInv, FreshInv,
         OpeningInv, PollingInv, ProcessingInv, OnceInv, EndAhead, EndSeen, Loading, NotEnded
<1>12. CASE UpCycleEnds
  BY <1>0, <1>12
     DEF UpCycleEnds, FlagsOK, NumbersOK, PlacesOK, ThreadsInv, FreshInv, OpeningInv,
         PollingInv, ProcessingInv, OnceInv, EndAhead, EndSeen, Assigned, Loading, NotEnded
<1>13. CASE Check
  BY <1>0, <1>13
     DEF Check, GameRunning, FlagsOK, NumbersOK, PlacesOK, ThreadsInv, FreshInv, OpeningInv,
         PollingInv, ProcessingInv, OnceInv, EndAhead, EndSeen, Assigned, Loading, NotEnded
<1>14. CASE UpdateGameState
  BY <1>0, <1>14
     DEF UpdateGameState, GameRunning, FlagsOK, NumbersOK, PlacesOK, ThreadsInv, FreshInv,
         OpeningInv, PollingInv, ProcessingInv, OnceInv, EndAhead, EndSeen, Assigned, Loading,
         NotEnded
<1>15. CASE ReadEnded
  BY <1>0, <1>15
     DEF ReadEnded, NotEnded, FlagsOK, NumbersOK, PlacesOK, ThreadsInv, FreshInv, OpeningInv,
         PollingInv, ProcessingInv, OnceInv, EndAhead, EndSeen, Assigned, Loading
<1>16. CASE ReadLoading
  BY <1>0, <1>16
     DEF ReadLoading, Loading, FlagsOK, NumbersOK, PlacesOK, ThreadsInv, FreshInv, OpeningInv,
         PollingInv, ProcessingInv, OnceInv, EndAhead, EndSeen, Assigned, NotEnded
<1>17. CASE ReadAssigned
  BY <1>0, <1>17
     DEF ReadAssigned, Assigned, FlagsOK, NumbersOK, PlacesOK, ThreadsInv, FreshInv,
         OpeningInv, PollingInv, ProcessingInv, OnceInv, EndAhead, EndSeen, Loading, NotEnded
<1>18. CASE ExitLevel
  BY <1>0, <1>18
     DEF ExitLevel, StopProcessing, FlagsOK, NumbersOK, PlacesOK, ThreadsInv, FreshInv,
         OpeningInv, PollingInv, ProcessingInv, OnceInv, EndAhead, EndSeen, Assigned, Loading,
         NotEnded
<1>19. CASE EnterLevel
  BY <1>0, <1>19
     DEF EnterLevel, LevelEntered, FlagsOK, NumbersOK, PlacesOK, ThreadsInv, FreshInv,
         OpeningInv, PollingInv, ProcessingInv, OnceInv, EndAhead, EndSeen, Assigned, Loading,
         NotEnded
<1>20. CASE EnterLevelWakes
  BY <1>0, <1>20
     DEF EnterLevelWakes, LookupNpcs, NpcFound, FlagsOK, NumbersOK, PlacesOK, ThreadsInv,
         FreshInv, OpeningInv, PollingInv, ProcessingInv, OnceInv, EndAhead, EndSeen,
         Assigned, Loading, NotEnded
<1>21. CASE EnterLevelReads
  BY <1>0, <1>21
     DEF EnterLevelReads, ReadPointers, FlagsOK, NumbersOK, PlacesOK, ThreadsInv, FreshInv,
         OpeningInv, PollingInv, ProcessingInv, OnceInv, EndAhead, EndSeen, Assigned, Loading,
         NotEnded
<1>22. CASE Remember
  BY <1>0, <1>22
     DEF Remember, FlagsOK, NumbersOK, PlacesOK, ThreadsInv, FreshInv, OpeningInv, PollingInv,
         ProcessingInv, OnceInv, EndAhead, EndSeen, Assigned, Loading, NotEnded
<1>23. CASE UNCHANGED vars
  BY <1>0, <1>23
     DEF vars, FlagsOK, NumbersOK, PlacesOK, ThreadsInv, FreshInv, OpeningInv, PollingInv,
         ProcessingInv, OnceInv, EndAhead, EndSeen, Assigned, Loading, NotEnded
<1> QED
  BY <1>1, <1>2, <1>3, <1>4, <1>5, <1>6, <1>7, <1>8, <1>9, <1>10, <1>11, <1>12, <1>13, <1>14,
     <1>15, <1>16, <1>17, <1>18, <1>19, <1>20, <1>21, <1>22, <1>23
     DEF Next, Watch, Opening, Updating

\* A cycle that overlaps the first lookup is one that began before it.
LEMMA CycleStep == ASSUME IndInv, [Next]_vars PROVE CycleInv'
<1> USE DEF gameVars, seenVars, ptrVars, upVars, sessionVars
<1>0. FlagsOK /\ NumbersOK /\ PlacesOK /\ ThreadsInv /\ FreshInv /\ OpeningInv /\ OnceInv /\
     CycleInv
  BY DEF IndInv, TypeOK
<1>1. CASE GameMoves
  BY <1>0, <1>1
     DEF GameMoves, Untimely, Timely, Settling, Follows, Aged, FlagsOK, NumbersOK, PlacesOK,
         ThreadsInv, FreshInv, OpeningInv, OnceInv, CycleInv
<1>2. CASE StartManager
  BY <1>0, <1>2
     DEF StartManager, GameRunning, FlagsOK, NumbersOK, PlacesOK, ThreadsInv, FreshInv,
         OpeningInv, OnceInv, CycleInv
<1>3. CASE OpenGame
  BY <1>0, <1>3
     DEF OpenGame, IsOnLevel, Assigned, FlagsOK, NumbersOK, PlacesOK, ThreadsInv, FreshInv,
         OpeningInv, OnceInv, CycleInv
<1>4. CASE StartUpdating
  BY <1>0, <1>4
     DEF StartUpdating, FlagsOK, NumbersOK, PlacesOK, ThreadsInv, FreshInv, OpeningInv,
         OnceInv, CycleInv
<1>5. CASE UpCheck
  BY <1>0, <1>5
     DEF UpCheck, FlagsOK, NumbersOK, PlacesOK, ThreadsInv, FreshInv, OpeningInv, OnceInv,
         CycleInv
<1>6. CASE UpLevel
  BY <1>0, <1>6
     DEF UpLevel, IsOnLevel, Assigned, FlagsOK, NumbersOK, PlacesOK, ThreadsInv, FreshInv,
         OpeningInv, OnceInv, CycleInv
<1>7. CASE UpCycleEnds
  BY <1>0, <1>7
     DEF UpCycleEnds, FlagsOK, NumbersOK, PlacesOK, ThreadsInv, FreshInv, OpeningInv, OnceInv,
         CycleInv
<1>8. CASE Check
  BY <1>0, <1>8
     DEF Check, GameRunning, FlagsOK, NumbersOK, PlacesOK, ThreadsInv, FreshInv, OpeningInv,
         OnceInv, CycleInv
<1>9. CASE UpdateGameState
  BY <1>0, <1>9
     DEF UpdateGameState, GameRunning, FlagsOK, NumbersOK, PlacesOK, ThreadsInv, FreshInv,
         OpeningInv, OnceInv, CycleInv
<1>10. CASE ReadEnded
  BY <1>0, <1>10
     DEF ReadEnded, NotEnded, FlagsOK, NumbersOK, PlacesOK, ThreadsInv, FreshInv, OpeningInv,
         OnceInv, CycleInv
<1>11. CASE ReadLoading
  BY <1>0, <1>11
     DEF ReadLoading, Loading, FlagsOK, NumbersOK, PlacesOK, ThreadsInv, FreshInv, OpeningInv,
         OnceInv, CycleInv
<1>12. CASE ReadAssigned
  BY <1>0, <1>12
     DEF ReadAssigned, Assigned, FlagsOK, NumbersOK, PlacesOK, ThreadsInv, FreshInv,
         OpeningInv, OnceInv, CycleInv
<1>13. CASE ExitLevel
  BY <1>0, <1>13
     DEF ExitLevel, StopProcessing, FlagsOK, NumbersOK, PlacesOK, ThreadsInv, FreshInv,
         OpeningInv, OnceInv, CycleInv
<1>14. CASE EnterLevel
  BY <1>0, <1>14
     DEF EnterLevel, LevelEntered, FlagsOK, NumbersOK, PlacesOK, ThreadsInv, FreshInv,
         OpeningInv, OnceInv, CycleInv
<1>15. CASE EnterLevelWakes
  BY <1>0, <1>15
     DEF EnterLevelWakes, LookupNpcs, NpcFound, FlagsOK, NumbersOK, PlacesOK, ThreadsInv,
         FreshInv, OpeningInv, OnceInv, CycleInv
<1>16. CASE EnterLevelReads
  BY <1>0, <1>16
     DEF EnterLevelReads, ReadPointers, FlagsOK, NumbersOK, PlacesOK, ThreadsInv, FreshInv,
         OpeningInv, OnceInv, CycleInv
<1>17. CASE Remember
  BY <1>0, <1>17
     DEF Remember, FlagsOK, NumbersOK, PlacesOK, ThreadsInv, FreshInv, OpeningInv, OnceInv,
         CycleInv
<1>18. CASE \/ OpenGameWakes \/ OpenGameReads \/ ServerGone \/ StopManager \/ Joined
          \/ UNCHANGED vars
  BY <1>0, <1>18
     DEF OpenGameWakes, OpenGameReads, ServerGone, StopManager, Joined, StopWatching, vars,
         FlagsOK, NumbersOK, PlacesOK, ThreadsInv, FreshInv, OpeningInv, OnceInv, CycleInv
<1> QED
  BY <1>1, <1>2, <1>3, <1>4, <1>5, <1>6, <1>7, <1>8, <1>9, <1>10, <1>11, <1>12, <1>13, <1>14,
     <1>15, <1>16, <1>17, <1>18
     DEF Next, Watch, Opening, Updating

\* Every step keeps the invariant, timely or not.
LEMMA InvariantStep == IndInv /\ [Next]_vars => IndInv'
<1> SUFFICES ASSUME IndInv, [Next]_vars PROVE IndInv'
  OBVIOUS
<1>1. TypeOK' /\ ThreadsInv'
  BY TypeStep DEF IndInv
<1>2. FreshInv' /\ OpeningInv' /\ PollingInv' /\ LookedInv'
  BY FreshStep, OpeningStep, PollingStep, LookedStep
<1>3. ProcessingInv' /\ AskedInv' /\ OnceInv' /\ CycleInv'
  BY ProcessingStep, AskedStep, OnceStep, CycleStep
<1> QED BY <1>1, <1>2, <1>3 DEF IndInv

\* The invariant holds at all times.
LEMMA Invariance == Spec => []IndInv
BY InitInvariant, InvariantStep, PTL DEF Spec

\* For any number of sessions, loads and untimely changes: as long as the client is
\* in step with the game, in its first session or again after the lookup of a level
\* that nothing disturbed, a cycle of the update thread begins only with the
\* addresses of the level that is being played.
THEOREM PointersAreFresh == Spec => []FreshPointers
<1>1. IndInv => FreshPointers
  BY DEF IndInv, ProcessingInv, AskedInv, FreshPointers, IsOnLevel, Assigned
<1> QED BY <1>1, Invariance, PTL

\* Under the same condition no two lookups overlap, and no cycle begins within the
\* sleep and the lookup of a level's first listener, but for the level that
\* onOpenGame found on.
THEOREM LookupsAreAlone == Spec => []LookupsAlone
<1>1. IndInv => LookupsAlone
  BY DEF IndInv, OpeningInv, CycleInv, LookupsAlone, WatcherLooks, OpenerLooks
<1> QED BY <1>1, Invariance, PTL

===============================================================================
