------------------------------- MODULE AppProofs -------------------------------
(***************************************************************************)
(* Proofs about App, for any number of sessions: its types, that a session  *)
(* leaves no joinable thread to the next one, and that it closes the socket *)
(* it opened.                                                               *)
(***************************************************************************)
EXTENDS App, TLAPS

-------------------------------------------------------------------------------
(* The inductive invariant.                                                 *)

\* The first page is shown only between sessions.
PagesInv == pc["window"] = "first" => pc["session"] = "none"

\* Which thread objects the session's thread has not assigned, or has seen joined.
HandlesInv ==
  /\ pc["session"] \notin {"update", "loop", "halt", "disconnect", "testWatcher", "joinWatcher"} =>
       thread["watcher"] = "none"
  /\ pc["session"] \in {"none", "server", "connect", "game", "manager", "update", "stopServer", "done"} =>
       thread["update"] = "none"
  /\ end # "overwritten"

\* A session has its receive thread still to start.
ReceiversInv == pc["session"] \in {"server", "connect"} => receivers < sessions

\* The socket that the session opened is the server's, until it is closed.
SocketInv ==
  /\ opened => mode = "create" /\ (bound \/ ~listening)
  /\ pc["session"] \in {"server", "connect", "game", "manager", "update"} => ~started
  /\ pc["session"] = "server" => mode = "create"
  /\ SessionClosesServer

IndInv == TypeOK /\ PagesInv /\ HandlesInv /\ ReceiversInv /\ SocketInv

\* The parts of TypeOK that are kept separately.
PlacesTyped ==
  /\ pc \in [Threads -> WindowPlaces \cup SessionPlaces]
  /\ pc["window"] \in WindowPlaces /\ pc["session"] \in SessionPlaces

ThreadsTyped ==
  /\ thread \in [Handles -> {"none", "live", "ended"}]
  /\ end \in {"no", "closed", "destroyed", "overwritten", "joinedTwice"}

NumbersTyped ==
  mode \in {"create", "join"} /\ sessions \in 0 .. MaxSessions /\ receivers \in 0 .. sessions

-------------------------------------------------------------------------------
(* The steps keep it.                                                       *)

\* The application starts on the first page, without a session.
LEMMA InitInvariant == Init => IndInv
<1> SUFFICES ASSUME Init PROVE IndInv
  OBVIOUS
<1>1. pc["window"] = "first" /\ pc["session"] = "none" /\ thread = [h \in Handles |-> "none"]
  BY DEF Init
<1>2. pc \in [Threads -> WindowPlaces \cup SessionPlaces]
  BY DEF Init, Threads, WindowPlaces, SessionPlaces, Stopping
<1>3. FlagsOK
  BY DEF Init, FlagsOK
<1>4. TypeOK
  BY <1>1, <1>2, <1>3, AppAssumption DEF Init, TypeOK, WindowPlaces, SessionPlaces, Handles
<1>5. PagesInv /\ HandlesInv /\ ReceiversInv /\ SocketInv
  BY <1>1 DEF Init, PagesInv, HandlesInv, ReceiversInv, SocketInv, SessionClosesServer, Handles
<1> QED
  BY <1>4, <1>5 DEF IndInv

\* The flags stay Boolean.
LEMMA FlagsStep == IndInv /\ [Next]_vars => FlagsOK'
<1> SUFFICES ASSUME IndInv, [Next]_vars PROVE FlagsOK'
  OBVIOUS
<1> USE DEF Threads, Handles, Stopping, At, Goto, sessionVars, serverVars, clientVars, threadVars
<1>0. FlagsOK
  BY DEF IndInv, TypeOK
<1>1. CASE \E m \in {"create", "join"} : Press(m)
  BY <1>0, <1>1 DEF Press, FlagsOK
<1>2. CASE PressExit
  BY <1>0, <1>2 DEF PressExit, FlagsOK
<1>3. CASE CloseWindow
  BY <1>0, <1>3 DEF CloseWindow, FlagsOK
<1>4. CASE ExitServer
  BY <1>0, <1>4 DEF ExitServer, ServerStop, FlagsOK
<1>5. CASE ExitClient
  BY <1>0, <1>5 DEF ExitClient, FlagsOK
<1>6. CASE ExitJoin
  BY <1>0, <1>6 DEF ExitJoin, FlagsOK
<1>7. CASE \E t \in Threads : Halt(t)
  BY <1>0, <1>7 DEF Halt, FlagsOK
<1>8. CASE \E t \in Threads : Disconnect(t)
  BY <1>0, <1>8 DEF Disconnect, FlagsOK
<1>9. CASE \E t \in Threads, h \in Handles : TestJoinable(t, h)
  BY <1>0, <1>9 DEF TestJoinable, AfterJoin, AfterStop, Test, Wait, FlagsOK
<1>10. CASE \E t \in Threads, h \in Handles : Join(t, h)
  BY <1>0, <1>10 DEF Join, AfterJoin, AfterStop, Wait, FlagsOK
<1>11. CASE SessionServer
  BY <1>0, <1>11 DEF SessionServer, ServerStart, FlagsOK
<1>12. CASE SessionConnect
  BY <1>0, <1>12 DEF SessionConnect, FlagsOK
<1>13. CASE SessionGame
  BY <1>0, <1>13 DEF SessionGame, FlagsOK
<1>14. CASE SessionManager
  BY <1>0, <1>14 DEF SessionManager, Assign, FlagsOK
<1>15. CASE SessionUpdate
  BY <1>0, <1>15 DEF SessionUpdate, Assign, FlagsOK
<1>16. CASE SessionLoop
  BY <1>0, <1>16 DEF SessionLoop, AfterLoop, FlagsOK
<1>17. CASE SessionStopServer
  BY <1>0, <1>17 DEF SessionStopServer, ServerStop, FlagsOK
<1>18. CASE \E h \in Handles : ThreadEnds(h)
  BY <1>0, <1>18 DEF ThreadEnds, FlagsOK
<1>19. CASE ServerDown
  BY <1>0, <1>19 DEF ServerDown, FlagsOK
<1>20. CASE ListArrives
  BY <1>0, <1>20 DEF ListArrives, FlagsOK
<1>21. CASE GameOpens
  BY <1>0, <1>21 DEF GameOpens, FlagsOK
<1>22. CASE UNCHANGED vars
  BY <1>0, <1>22 DEF vars, FlagsOK
<1> QED
  BY <1>1, <1>2, <1>3, <1>4, <1>5, <1>6, <1>7, <1>8, <1>9, <1>10, <1>11, <1>12, <1>13, <1>14, <1>15,
     <1>16, <1>17, <1>18, <1>19, <1>20, <1>21, <1>22
     DEF Next, WindowExits, SessionRuns, Session, Stop

\* Each thread stays at places of its own.
LEMMA PlacesStep == IndInv /\ [Next]_vars => PlacesTyped'
<1> SUFFICES ASSUME IndInv, [Next]_vars PROVE PlacesTyped'
  OBVIOUS
<1> USE DEF Threads, Handles, Stopping, At, Goto, sessionVars, serverVars, clientVars, threadVars
<1>0. PlacesTyped
  BY DEF IndInv, TypeOK, PlacesTyped
<1>1. CASE \E m \in {"create", "join"} : Press(m)
  BY <1>0, <1>1 DEF Press, PlacesTyped, WindowPlaces, SessionPlaces
<1>2. CASE PressExit
  BY <1>0, <1>2 DEF PressExit, PlacesTyped, WindowPlaces, SessionPlaces
<1>3. CASE CloseWindow
  BY <1>0, <1>3 DEF CloseWindow, PlacesTyped, WindowPlaces, SessionPlaces
<1>4. CASE ExitServer
  BY <1>0, <1>4 DEF ExitServer, ServerStop, PlacesTyped, WindowPlaces, SessionPlaces
<1>5. CASE ExitClient
  BY <1>0, <1>5 DEF ExitClient, PlacesTyped, WindowPlaces, SessionPlaces
<1>6. CASE ExitJoin
  BY <1>0, <1>6 DEF ExitJoin, PlacesTyped, WindowPlaces, SessionPlaces
<1>7. CASE \E t \in Threads : Halt(t)
  BY <1>0, <1>7 DEF Halt, PlacesTyped, WindowPlaces, SessionPlaces
<1>8. CASE \E t \in Threads : Disconnect(t)
  BY <1>0, <1>8 DEF Disconnect, PlacesTyped, WindowPlaces, SessionPlaces
<1>9. CASE \E t \in Threads, h \in Handles : TestJoinable(t, h)
  BY <1>0, <1>9 DEF TestJoinable, AfterJoin, AfterStop, Test, Wait, PlacesTyped, WindowPlaces, SessionPlaces
<1>10. CASE \E t \in Threads, h \in Handles : Join(t, h)
  BY <1>0, <1>10 DEF Join, AfterJoin, AfterStop, Wait, PlacesTyped, WindowPlaces, SessionPlaces
<1>11. CASE SessionServer
  BY <1>0, <1>11 DEF SessionServer, ServerStart, PlacesTyped, WindowPlaces, SessionPlaces
<1>12. CASE SessionConnect
  BY <1>0, <1>12 DEF SessionConnect, PlacesTyped, WindowPlaces, SessionPlaces
<1>13. CASE SessionGame
  BY <1>0, <1>13 DEF SessionGame, PlacesTyped, WindowPlaces, SessionPlaces
<1>14. CASE SessionManager
  BY <1>0, <1>14 DEF SessionManager, Assign, PlacesTyped, WindowPlaces, SessionPlaces
<1>15. CASE SessionUpdate
  BY <1>0, <1>15 DEF SessionUpdate, Assign, PlacesTyped, WindowPlaces, SessionPlaces
<1>16. CASE SessionLoop
  BY <1>0, <1>16 DEF SessionLoop, AfterLoop, PlacesTyped, WindowPlaces, SessionPlaces
<1>17. CASE SessionStopServer
  BY <1>0, <1>17 DEF SessionStopServer, ServerStop, PlacesTyped, WindowPlaces, SessionPlaces
<1>18. CASE \E h \in Handles : ThreadEnds(h)
  BY <1>0, <1>18 DEF ThreadEnds, PlacesTyped, WindowPlaces, SessionPlaces
<1>19. CASE ServerDown
  BY <1>0, <1>19 DEF ServerDown, PlacesTyped, WindowPlaces, SessionPlaces
<1>20. CASE ListArrives
  BY <1>0, <1>20 DEF ListArrives, PlacesTyped, WindowPlaces, SessionPlaces
<1>21. CASE GameOpens
  BY <1>0, <1>21 DEF GameOpens, PlacesTyped, WindowPlaces, SessionPlaces
<1>22. CASE UNCHANGED vars
  BY <1>0, <1>22 DEF vars, PlacesTyped, WindowPlaces, SessionPlaces
<1> QED
  BY <1>1, <1>2, <1>3, <1>4, <1>5, <1>6, <1>7, <1>8, <1>9, <1>10, <1>11, <1>12, <1>13, <1>14, <1>15,
     <1>16, <1>17, <1>18, <1>19, <1>20, <1>21, <1>22
     DEF Next, WindowExits, SessionRuns, Session, Stop

\* The window goes back to the first page only when the session's thread has ended.
LEMMA PagesStep == IndInv /\ [Next]_vars => PagesInv'
<1> SUFFICES ASSUME IndInv, [Next]_vars PROVE PagesInv'
  OBVIOUS
<1> USE DEF Threads, Handles, Stopping, At, Goto, sessionVars, serverVars, clientVars, threadVars
<1>0. PlacesTyped /\ PagesInv
  BY DEF IndInv, TypeOK, PlacesTyped
<1>1. CASE \E m \in {"create", "join"} : Press(m)
  BY <1>0, <1>1 DEF Press, PlacesTyped, PagesInv, WindowPlaces, SessionPlaces
<1>2. CASE PressExit
  BY <1>0, <1>2 DEF PressExit, PlacesTyped, PagesInv, WindowPlaces, SessionPlaces
<1>3. CASE CloseWindow
  BY <1>0, <1>3 DEF CloseWindow, PlacesTyped, PagesInv, WindowPlaces, SessionPlaces
<1>4. CASE ExitServer
  BY <1>0, <1>4 DEF ExitServer, ServerStop, PlacesTyped, PagesInv, WindowPlaces, SessionPlaces
<1>5. CASE ExitClient
  BY <1>0, <1>5 DEF ExitClient, PlacesTyped, PagesInv, WindowPlaces, SessionPlaces
<1>6. CASE ExitJoin
  BY <1>0, <1>6 DEF ExitJoin, PlacesTyped, PagesInv, WindowPlaces, SessionPlaces
<1>7. CASE \E t \in Threads : Halt(t)
  BY <1>0, <1>7 DEF Halt, PlacesTyped, PagesInv, WindowPlaces, SessionPlaces
<1>8. CASE \E t \in Threads : Disconnect(t)
  BY <1>0, <1>8 DEF Disconnect, PlacesTyped, PagesInv, WindowPlaces, SessionPlaces
<1>9. CASE \E t \in Threads, h \in Handles : TestJoinable(t, h)
  BY <1>0, <1>9
     DEF TestJoinable, AfterJoin, AfterStop, Test, Wait, PlacesTyped, PagesInv, WindowPlaces,
         SessionPlaces
<1>10. CASE \E t \in Threads, h \in Handles : Join(t, h)
  BY <1>0, <1>10 DEF Join, AfterJoin, AfterStop, Wait, PlacesTyped, PagesInv, WindowPlaces, SessionPlaces
<1>11. CASE SessionServer
  BY <1>0, <1>11 DEF SessionServer, ServerStart, PlacesTyped, PagesInv, WindowPlaces, SessionPlaces
<1>12. CASE SessionConnect
  BY <1>0, <1>12 DEF SessionConnect, PlacesTyped, PagesInv, WindowPlaces, SessionPlaces
<1>13. CASE SessionGame
  BY <1>0, <1>13 DEF SessionGame, PlacesTyped, PagesInv, WindowPlaces, SessionPlaces
<1>14. CASE SessionManager
  BY <1>0, <1>14 DEF SessionManager, Assign, PlacesTyped, PagesInv, WindowPlaces, SessionPlaces
<1>15. CASE SessionUpdate
  BY <1>0, <1>15 DEF SessionUpdate, Assign, PlacesTyped, PagesInv, WindowPlaces, SessionPlaces
<1>16. CASE SessionLoop
  BY <1>0, <1>16 DEF SessionLoop, AfterLoop, PlacesTyped, PagesInv, WindowPlaces, SessionPlaces
<1>17. CASE SessionStopServer
  BY <1>0, <1>17 DEF SessionStopServer, ServerStop, PlacesTyped, PagesInv, WindowPlaces, SessionPlaces
<1>18. CASE \E h \in Handles : ThreadEnds(h)
  BY <1>0, <1>18 DEF ThreadEnds, PlacesTyped, PagesInv, WindowPlaces, SessionPlaces
<1>19. CASE ServerDown
  BY <1>0, <1>19 DEF ServerDown, PlacesTyped, PagesInv, WindowPlaces, SessionPlaces
<1>20. CASE ListArrives
  BY <1>0, <1>20 DEF ListArrives, PlacesTyped, PagesInv, WindowPlaces, SessionPlaces
<1>21. CASE GameOpens
  BY <1>0, <1>21 DEF GameOpens, PlacesTyped, PagesInv, WindowPlaces, SessionPlaces
<1>22. CASE UNCHANGED vars
  BY <1>0, <1>22 DEF vars, PlacesTyped, PagesInv, WindowPlaces, SessionPlaces
<1> QED
  BY <1>1, <1>2, <1>3, <1>4, <1>5, <1>6, <1>7, <1>8, <1>9, <1>10, <1>11, <1>12, <1>13, <1>14, <1>15,
     <1>16, <1>17, <1>18, <1>19, <1>20, <1>21, <1>22
     DEF Next, WindowExits, SessionRuns, Session, Stop

\* The thread objects keep their type, and the process ends in one of the known ways.
LEMMA ThreadsStep == IndInv /\ [Next]_vars => ThreadsTyped'
<1> SUFFICES ASSUME IndInv, [Next]_vars PROVE ThreadsTyped'
  OBVIOUS
<1> USE DEF Threads, Handles, Stopping, At, Goto, sessionVars, serverVars, clientVars, threadVars
<1>0. ThreadsTyped
  BY DEF IndInv, TypeOK, ThreadsTyped
<1>1. CASE \E m \in {"create", "join"} : Press(m)
  BY <1>0, <1>1 DEF Press, ThreadsTyped
<1>2. CASE PressExit
  BY <1>0, <1>2 DEF PressExit, ThreadsTyped
<1>3. CASE CloseWindow
  BY <1>0, <1>3 DEF CloseWindow, ThreadsTyped
<1>4. CASE ExitServer
  BY <1>0, <1>4 DEF ExitServer, ServerStop, ThreadsTyped
<1>5. CASE ExitClient
  BY <1>0, <1>5 DEF ExitClient, ThreadsTyped
<1>6. CASE ExitJoin
  BY <1>0, <1>6 DEF ExitJoin, ThreadsTyped
<1>7. CASE \E t \in Threads : Halt(t)
  BY <1>0, <1>7 DEF Halt, ThreadsTyped
<1>8. CASE \E t \in Threads : Disconnect(t)
  BY <1>0, <1>8 DEF Disconnect, ThreadsTyped
<1>9. CASE \E t \in Threads, h \in Handles : TestJoinable(t, h)
  BY <1>0, <1>9 DEF TestJoinable, AfterJoin, AfterStop, Test, Wait, ThreadsTyped
<1>10. CASE \E t \in Threads, h \in Handles : Join(t, h)
  BY <1>0, <1>10 DEF Join, AfterJoin, AfterStop, Wait, ThreadsTyped
<1>11. CASE SessionServer
  BY <1>0, <1>11 DEF SessionServer, ServerStart, ThreadsTyped
<1>12. CASE SessionConnect
  BY <1>0, <1>12 DEF SessionConnect, ThreadsTyped
<1>13. CASE SessionGame
  BY <1>0, <1>13 DEF SessionGame, ThreadsTyped
<1>14. CASE SessionManager
  BY <1>0, <1>14 DEF SessionManager, Assign, ThreadsTyped
<1>15. CASE SessionUpdate
  BY <1>0, <1>15 DEF SessionUpdate, Assign, ThreadsTyped
<1>16. CASE SessionLoop
  BY <1>0, <1>16 DEF SessionLoop, AfterLoop, ThreadsTyped
<1>17. CASE SessionStopServer
  BY <1>0, <1>17 DEF SessionStopServer, ServerStop, ThreadsTyped
<1>18. CASE \E h \in Handles : ThreadEnds(h)
  BY <1>0, <1>18 DEF ThreadEnds, ThreadsTyped
<1>19. CASE ServerDown
  BY <1>0, <1>19 DEF ServerDown, ThreadsTyped
<1>20. CASE ListArrives
  BY <1>0, <1>20 DEF ListArrives, ThreadsTyped
<1>21. CASE GameOpens
  BY <1>0, <1>21 DEF GameOpens, ThreadsTyped
<1>22. CASE UNCHANGED vars
  BY <1>0, <1>22 DEF vars, ThreadsTyped
<1> QED
  BY <1>1, <1>2, <1>3, <1>4, <1>5, <1>6, <1>7, <1>8, <1>9, <1>10, <1>11, <1>12, <1>13, <1>14, <1>15,
     <1>16, <1>17, <1>18, <1>19, <1>20, <1>21, <1>22
     DEF Next, WindowExits, SessionRuns, Session, Stop

\* No more receive threads are started than sessions.
LEMMA NumbersStep == IndInv /\ [Next]_vars => (NumbersTyped /\ ReceiversInv)'
<1> SUFFICES ASSUME IndInv, [Next]_vars PROVE (NumbersTyped /\ ReceiversInv)'
  OBVIOUS
<1> USE DEF Threads, Handles, Stopping, At, Goto, sessionVars, serverVars, clientVars, threadVars
<1>0. PlacesTyped /\ NumbersTyped /\ ReceiversInv
  BY DEF IndInv, TypeOK, PlacesTyped, NumbersTyped
<1>1. CASE \E m \in {"create", "join"} : Press(m)
  <2>1. /\ mode' \in {"create", "join"} /\ sessions < MaxSessions /\ sessions' = sessions + 1
        /\ UNCHANGED receivers
    BY <1>1 DEF Press
  <2> QED
    BY <1>0, <2>1, AppAssumption DEF NumbersTyped, ReceiversInv
<1>2. CASE PressExit
  BY <1>0, <1>2 DEF PressExit, PlacesTyped, NumbersTyped, ReceiversInv
<1>3. CASE CloseWindow
  BY <1>0, <1>3 DEF CloseWindow, PlacesTyped, NumbersTyped, ReceiversInv
<1>4. CASE ExitServer
  BY <1>0, <1>4 DEF ExitServer, ServerStop, PlacesTyped, NumbersTyped, ReceiversInv
<1>5. CASE ExitClient
  BY <1>0, <1>5 DEF ExitClient, PlacesTyped, NumbersTyped, ReceiversInv
<1>6. CASE ExitJoin
  BY <1>0, <1>6 DEF ExitJoin, PlacesTyped, NumbersTyped, ReceiversInv
<1>7. CASE \E t \in Threads : Halt(t)
  BY <1>0, <1>7 DEF Halt, PlacesTyped, NumbersTyped, ReceiversInv
<1>8. CASE \E t \in Threads : Disconnect(t)
  BY <1>0, <1>8 DEF Disconnect, PlacesTyped, NumbersTyped, ReceiversInv
<1>9. CASE \E t \in Threads, h \in Handles : TestJoinable(t, h)
  BY <1>0, <1>9 DEF TestJoinable, AfterJoin, AfterStop, Test, Wait, PlacesTyped, NumbersTyped, ReceiversInv
<1>10. CASE \E t \in Threads, h \in Handles : Join(t, h)
  BY <1>0, <1>10 DEF Join, AfterJoin, AfterStop, Wait, PlacesTyped, NumbersTyped, ReceiversInv
<1>11. CASE SessionServer
  BY <1>0, <1>11 DEF SessionServer, ServerStart, PlacesTyped, NumbersTyped, ReceiversInv
<1>12. CASE SessionConnect
  BY <1>0, <1>12 DEF SessionConnect, PlacesTyped, NumbersTyped, ReceiversInv
<1>13. CASE SessionGame
  BY <1>0, <1>13 DEF SessionGame, PlacesTyped, NumbersTyped, ReceiversInv
<1>14. CASE SessionManager
  BY <1>0, <1>14 DEF SessionManager, Assign, PlacesTyped, NumbersTyped, ReceiversInv
<1>15. CASE SessionUpdate
  BY <1>0, <1>15 DEF SessionUpdate, Assign, PlacesTyped, NumbersTyped, ReceiversInv
<1>16. CASE SessionLoop
  BY <1>0, <1>16 DEF SessionLoop, AfterLoop, PlacesTyped, NumbersTyped, ReceiversInv
<1>17. CASE SessionStopServer
  BY <1>0, <1>17 DEF SessionStopServer, ServerStop, PlacesTyped, NumbersTyped, ReceiversInv
<1>18. CASE \E h \in Handles : ThreadEnds(h)
  BY <1>0, <1>18 DEF ThreadEnds, PlacesTyped, NumbersTyped, ReceiversInv
<1>19. CASE ServerDown
  BY <1>0, <1>19 DEF ServerDown, PlacesTyped, NumbersTyped, ReceiversInv
<1>20. CASE ListArrives
  BY <1>0, <1>20 DEF ListArrives, PlacesTyped, NumbersTyped, ReceiversInv
<1>21. CASE GameOpens
  BY <1>0, <1>21 DEF GameOpens, PlacesTyped, NumbersTyped, ReceiversInv
<1>22. CASE UNCHANGED vars
  BY <1>0, <1>22 DEF vars, PlacesTyped, NumbersTyped, ReceiversInv
<1> QED
  BY <1>1, <1>2, <1>3, <1>4, <1>5, <1>6, <1>7, <1>8, <1>9, <1>10, <1>11, <1>12, <1>13, <1>14, <1>15,
     <1>16, <1>17, <1>18, <1>19, <1>20, <1>21, <1>22
     DEF Next, WindowExits, SessionRuns, Session, Stop

\* A session assigns a thread object only after the one before it was joined.
LEMMA HandlesStep == IndInv /\ [Next]_vars => HandlesInv'
<1> SUFFICES ASSUME IndInv, [Next]_vars PROVE HandlesInv'
  OBVIOUS
<1> USE DEF Threads, Handles, Stopping, At, Goto, sessionVars, serverVars, clientVars, threadVars
<1>0. PlacesTyped /\ ThreadsTyped /\ PagesInv /\ HandlesInv
  BY DEF IndInv, TypeOK, PlacesTyped, ThreadsTyped
<1>1. CASE \E m \in {"create", "join"} : Press(m)
  BY <1>0, <1>1 DEF Press, PlacesTyped, ThreadsTyped, PagesInv, HandlesInv
<1>2. CASE PressExit
  BY <1>0, <1>2 DEF PressExit, PlacesTyped, ThreadsTyped, PagesInv, HandlesInv
<1>3. CASE CloseWindow
  BY <1>0, <1>3 DEF CloseWindow, PlacesTyped, ThreadsTyped, PagesInv, HandlesInv
<1>4. CASE ExitServer
  BY <1>0, <1>4 DEF ExitServer, ServerStop, PlacesTyped, ThreadsTyped, PagesInv, HandlesInv
<1>5. CASE ExitClient
  BY <1>0, <1>5 DEF ExitClient, PlacesTyped, ThreadsTyped, PagesInv, HandlesInv
<1>6. CASE ExitJoin
  BY <1>0, <1>6 DEF ExitJoin, PlacesTyped, ThreadsTyped, PagesInv, HandlesInv
<1>7. CASE \E t \in Threads : Halt(t)
  BY <1>0, <1>7 DEF Halt, PlacesTyped, ThreadsTyped, PagesInv, HandlesInv
<1>8. CASE \E t \in Threads : Disconnect(t)
  BY <1>0, <1>8 DEF Disconnect, PlacesTyped, ThreadsTyped, PagesInv, HandlesInv
<1>9. CASE \E t \in Threads, h \in Handles : TestJoinable(t, h)
  BY <1>0, <1>9
     DEF TestJoinable, AfterJoin, AfterStop, Test, Wait, PlacesTyped, ThreadsTyped, PagesInv,
         HandlesInv
<1>10. CASE \E t \in Threads, h \in Handles : Join(t, h)
  BY <1>0, <1>10 DEF Join, AfterJoin, AfterStop, Wait, PlacesTyped, ThreadsTyped, PagesInv, HandlesInv
<1>11. CASE SessionServer
  BY <1>0, <1>11 DEF SessionServer, ServerStart, PlacesTyped, ThreadsTyped, PagesInv, HandlesInv
<1>12. CASE SessionConnect
  BY <1>0, <1>12 DEF SessionConnect, PlacesTyped, ThreadsTyped, PagesInv, HandlesInv
<1>13. CASE SessionGame
  BY <1>0, <1>13 DEF SessionGame, PlacesTyped, ThreadsTyped, PagesInv, HandlesInv
<1>14. CASE SessionManager
  BY <1>0, <1>14 DEF SessionManager, Assign, PlacesTyped, ThreadsTyped, PagesInv, HandlesInv
<1>15. CASE SessionUpdate
  BY <1>0, <1>15 DEF SessionUpdate, Assign, PlacesTyped, ThreadsTyped, PagesInv, HandlesInv
<1>16. CASE SessionLoop
  BY <1>0, <1>16 DEF SessionLoop, AfterLoop, PlacesTyped, ThreadsTyped, PagesInv, HandlesInv
<1>17. CASE SessionStopServer
  BY <1>0, <1>17 DEF SessionStopServer, ServerStop, PlacesTyped, ThreadsTyped, PagesInv, HandlesInv
<1>18. CASE \E h \in Handles : ThreadEnds(h)
  BY <1>0, <1>18 DEF ThreadEnds, PlacesTyped, ThreadsTyped, PagesInv, HandlesInv
<1>19. CASE ServerDown
  BY <1>0, <1>19 DEF ServerDown, PlacesTyped, ThreadsTyped, PagesInv, HandlesInv
<1>20. CASE ListArrives
  BY <1>0, <1>20 DEF ListArrives, PlacesTyped, ThreadsTyped, PagesInv, HandlesInv
<1>21. CASE GameOpens
  BY <1>0, <1>21 DEF GameOpens, PlacesTyped, ThreadsTyped, PagesInv, HandlesInv
<1>22. CASE UNCHANGED vars
  BY <1>0, <1>22 DEF vars, PlacesTyped, ThreadsTyped, PagesInv, HandlesInv
<1> QED
  BY <1>1, <1>2, <1>3, <1>4, <1>5, <1>6, <1>7, <1>8, <1>9, <1>10, <1>11, <1>12, <1>13, <1>14, <1>15,
     <1>16, <1>17, <1>18, <1>19, <1>20, <1>21, <1>22
     DEF Next, WindowExits, SessionRuns, Session, Stop

\* What the session opened stays the server's until stop() closes it.
LEMMA SocketStep == IndInv /\ [Next]_vars => SocketInv'
<1> SUFFICES ASSUME IndInv, [Next]_vars PROVE SocketInv'
  OBVIOUS
<1> USE DEF Threads, Handles, Stopping, At, Goto, sessionVars, serverVars, clientVars, threadVars
<1>0. FlagsOK /\ PlacesTyped /\ SocketInv
  BY DEF IndInv, TypeOK, PlacesTyped
<1>1. CASE \E m \in {"create", "join"} : Press(m)
  <2>1. PICK m \in {"create", "join"} : Press(m)
    BY <1>1
  <2>2. pc["window"] = "first" /\ pc["session"] = "none" /\ mode' = m /\ ~opened' /\ ~started'
    BY <2>1 DEF IndInv, PagesInv, Press
  <2>3. pc' = [window |-> "second", session |-> IF m = "create" THEN "server" ELSE "connect"]
    BY <2>1, <2>2 DEF Press
  <2> QED
    BY <2>2, <2>3 DEF SocketInv, SessionClosesServer
<1>2. CASE PressExit
  BY <1>0, <1>2 DEF PressExit, FlagsOK, PlacesTyped, SocketInv, SessionClosesServer
<1>3. CASE CloseWindow
  BY <1>0, <1>3 DEF CloseWindow, FlagsOK, PlacesTyped, SocketInv, SessionClosesServer
<1>4. CASE ExitServer
  BY <1>0, <1>4 DEF ExitServer, ServerStop, FlagsOK, PlacesTyped, SocketInv, SessionClosesServer
<1>5. CASE ExitClient
  BY <1>0, <1>5 DEF ExitClient, FlagsOK, PlacesTyped, SocketInv, SessionClosesServer
<1>6. CASE ExitJoin
  BY <1>0, <1>6 DEF ExitJoin, FlagsOK, PlacesTyped, SocketInv, SessionClosesServer
<1>7. CASE \E t \in Threads : Halt(t)
  BY <1>0, <1>7 DEF Halt, FlagsOK, PlacesTyped, SocketInv, SessionClosesServer
<1>8. CASE \E t \in Threads : Disconnect(t)
  BY <1>0, <1>8 DEF Disconnect, FlagsOK, PlacesTyped, SocketInv, SessionClosesServer
<1>9. CASE \E t \in Threads, h \in Handles : TestJoinable(t, h)
  BY <1>0, <1>9
     DEF TestJoinable, AfterJoin, AfterStop, Test, Wait, FlagsOK, PlacesTyped, SocketInv,
         SessionClosesServer
<1>10. CASE \E t \in Threads, h \in Handles : Join(t, h)
  BY <1>0, <1>10 DEF Join, AfterJoin, AfterStop, Wait, FlagsOK, PlacesTyped, SocketInv, SessionClosesServer
<1>11. CASE SessionServer
  BY <1>0, <1>11 DEF SessionServer, ServerStart, FlagsOK, PlacesTyped, SocketInv, SessionClosesServer
<1>12. CASE SessionConnect
  BY <1>0, <1>12 DEF SessionConnect, FlagsOK, PlacesTyped, SocketInv, SessionClosesServer
<1>13. CASE SessionGame
  BY <1>0, <1>13 DEF SessionGame, FlagsOK, PlacesTyped, SocketInv, SessionClosesServer
<1>14. CASE SessionManager
  BY <1>0, <1>14 DEF SessionManager, Assign, FlagsOK, PlacesTyped, SocketInv, SessionClosesServer
<1>15. CASE SessionUpdate
  <2>1. thread["update"] = "none" /\ pc["session"] = "update"
    BY <1>15 DEF IndInv, HandlesInv, SessionUpdate
  <2> QED
    BY <1>0, <1>15, <2>1 DEF SessionUpdate, Assign, PlacesTyped, SocketInv, SessionClosesServer
<1>16. CASE SessionLoop
  BY <1>0, <1>16 DEF SessionLoop, AfterLoop, FlagsOK, PlacesTyped, SocketInv, SessionClosesServer
<1>17. CASE SessionStopServer
  BY <1>0, <1>17 DEF SessionStopServer, ServerStop, FlagsOK, PlacesTyped, SocketInv, SessionClosesServer
<1>18. CASE \E h \in Handles : ThreadEnds(h)
  BY <1>0, <1>18 DEF ThreadEnds, FlagsOK, PlacesTyped, SocketInv, SessionClosesServer
<1>19. CASE ServerDown
  BY <1>0, <1>19 DEF ServerDown, FlagsOK, PlacesTyped, SocketInv, SessionClosesServer
<1>20. CASE ListArrives
  BY <1>0, <1>20 DEF ListArrives, FlagsOK, PlacesTyped, SocketInv, SessionClosesServer
<1>21. CASE GameOpens
  BY <1>0, <1>21 DEF GameOpens, FlagsOK, PlacesTyped, SocketInv, SessionClosesServer
<1>22. CASE UNCHANGED vars
  BY <1>0, <1>22 DEF vars, FlagsOK, PlacesTyped, SocketInv, SessionClosesServer
<1> QED
  BY <1>1, <1>2, <1>3, <1>4, <1>5, <1>6, <1>7, <1>8, <1>9, <1>10, <1>11, <1>12, <1>13, <1>14, <1>15,
     <1>16, <1>17, <1>18, <1>19, <1>20, <1>21, <1>22
     DEF Next, WindowExits, SessionRuns, Session, Stop

\* Every step keeps the invariant.
LEMMA InvariantStep == IndInv /\ [Next]_vars => IndInv'
BY FlagsStep, PlacesStep, PagesStep, ThreadsStep, NumbersStep, HandlesStep, SocketStep
   DEF IndInv, TypeOK, PlacesTyped, ThreadsTyped, NumbersTyped

\* The invariant holds at all times.
LEMMA Invariance == Spec => []IndInv
BY InitInvariant, InvariantStep, PTL DEF Spec

-------------------------------------------------------------------------------
(* Theorems.                                                                *)

\* Every variable keeps its type, and a session has one receive thread at most.
THEOREM TypeCorrectness == Spec => []TypeOK
<1>1. IndInv => TypeOK
  BY DEF IndInv
<1> QED BY <1>1, Invariance, PTL

\* No std::thread of an earlier session is joinable when the first page is shown,
\* nor ever assigned to, whichever of the two threads stops the client and joins.
THEOREM NoThreadIsLeft == Spec => []SessionLeavesNoThread
<1>1. IndInv => SessionLeavesNoThread
  BY DEF IndInv, PagesInv, HandlesInv, SessionLeavesNoThread, Handles
<1> QED BY <1>1, Invariance, PTL

\* The socket that a session opened is closed when the session is over, whichever of
\* the two threads stopped the server.
THEOREM SocketIsClosed == Spec => []SessionClosesServer
<1>1. IndInv => SessionClosesServer
  BY DEF IndInv, SocketInv
<1> QED BY <1>1, Invariance, PTL

===============================================================================
