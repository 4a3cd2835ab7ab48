---------------------------------- MODULE App ----------------------------------
(***************************************************************************)
(* The two threads of the windowed application that drive the server and    *)
(* the client: the window's thread (HobbitMultiplayerWindowed.cpp, WndProc) *)
(* and the session's thread it starts, which runs startServerClient or      *)
(* startClient of HobbitMultiplayer.cpp.  The exit button stops the client  *)
(* in the window's thread, whereupon the session's thread stops it too.     *)
(*                                                                          *)
(* A std::thread object is "none" (not joinable), "live" or "ended".        *)
(* Assigning to a joinable one, destroying one, and a join() that finds the *)
(* thread joined by another call end the program (end); the last may also   *)
(* go unnoticed.  client.stop() does not close the socket, since the        *)
(* receive thread is detached: it stays behind in recv (receivers).         *)
(***************************************************************************)
EXTENDS Naturals

CONSTANT
  MaxSessions   \* bound: sessions that are started

ASSUME AppAssumption == MaxSessions \in Nat

Threads == {"window", "session"}
Handles == {"watcher", "update"}

VARIABLES
  pc,                   \* where the two threads are; "none": serverThread is not joinable
  mode, sessions,       \* the button that started the session, number of sessions
  isRunning, listening, bound, \* the server: its flag, whether a socket listens, whether
                               \* listeningSocket is that socket
  opened, started, late, \* history of the session: it opened the socket, the client started,
                        \* a client list set running again
  running, connected, receivers, \* the client: its flag, isConnected, receive threads
  stopThread, thread,   \* the game manager's flag, the two std::thread objects
  gameOpen,
  end                   \* why the program was terminated, or "no"

sessionVars == <<mode, sessions, opened, started, late>>
serverVars == <<isRunning, listening, bound>>
clientVars == <<running, connected, receivers>>
threadVars == <<stopThread, thread>>
vars == <<pc, sessionVars, serverVars, clientVars, threadVars, gameOpen, end>>

Init ==
  /\ pc = [window |-> "first", session |-> "none"]
  /\ mode = "join" /\ sessions = 0
  /\ isRunning = TRUE /\ listening = FALSE /\ bound = FALSE
  /\ opened = FALSE /\ started = FALSE /\ late = FALSE
  /\ running = FALSE /\ connected = FALSE /\ receivers = 0
  /\ stopThread = FALSE /\ thread = [h \in Handles |-> "none"]
  /\ gameOpen \in BOOLEAN
  /\ end = "no"

Goto(t, l) == pc' = [pc EXCEPT ![t] = l]
At(t, l) == end = "no" /\ pc[t] = l

-------------------------------------------------------------------------------
(* Server::start and Server::stop, as far as the listening socket goes.     *)

\* If a socket listens, bind fails, but listeningSocket is overwritten.
ServerStart ==
  /\ listening' = TRUE /\ bound' = ~listening
  /\ opened' = ~listening
  /\ UNCHANGED isRunning

ServerStop ==
  /\ isRunning' = FALSE
  /\ listening' = (listening /\ ~bound)
  /\ bound' = FALSE

-------------------------------------------------------------------------------
(* The window: the create and join buttons, the exit button, closing it.    *)

Press(m) ==
  /\ At("window", "first") /\ sessions < MaxSessions
  /\ mode' = m /\ sessions' = sessions + 1
  /\ opened' = FALSE /\ started' = FALSE /\ late' = FALSE
  /\ IF pc["session"] # "none" THEN end' = "overwritten" /\ UNCHANGED pc
     ELSE /\ pc' = [window |-> "second",
                    session |-> IF m = "create" THEN "server" ELSE "connect"]
          /\ UNCHANGED end
  /\ UNCHANGED <<serverVars, clientVars, threadVars, gameOpen>>

PressExit ==
  /\ At("window", "second") /\ Goto("window", "stopServer")
  /\ UNCHANGED <<sessionVars, serverVars, clientVars, threadVars, gameOpen, end>>

\* stopServer().
ExitServer ==
  /\ At("window", "stopServer") /\ Goto("window", "stopClient")
  /\ IF isRunning THEN ServerStop ELSE UNCHANGED serverVars
  /\ UNCHANGED <<sessionVars, clientVars, threadVars, gameOpen, end>>

\* stopClient().
ExitClient ==
  /\ At("window", "stopClient") /\ Goto("window", IF running THEN "halt" ELSE "joinSession")
  /\ UNCHANGED <<sessionVars, serverVars, clientVars, threadVars, gameOpen, end>>

\* serverThread.join(), and the first page is shown.
ExitJoin ==
  /\ At("window", "joinSession") /\ pc["session"] = "done"
  /\ pc' = [window |-> "first", session |-> "none"]
  /\ UNCHANGED <<sessionVars, serverVars, clientVars, threadVars, gameOpen, end>>

\* The program's global objects are destroyed, serverThread among them.
CloseWindow ==
  /\ end = "no" /\ pc["window"] \in {"first", "second"}
  /\ Goto("window", "closed")
  /\ end' = IF pc["session"] = "none" THEN "closed" ELSE "destroyed"
  /\ UNCHANGED <<sessionVars, serverVars, clientVars, threadVars, gameOpen>>

-------------------------------------------------------------------------------
(* HobbitClient::stop, in either thread.                                    *)

\* Mutant: running is not cleared.
HaltNothing(t) ==
  /\ At(t, "halt") /\ Goto(t, "disconnect")
  /\ UNCHANGED <<sessionVars, serverVars, clientVars, threadVars, gameOpen, end>>
Halt(t) ==
  /\ At(t, "halt") /\ Goto(t, "disconnect")
  /\ running' = FALSE
  /\ UNCHANGED <<sessionVars, serverVars, connected, receivers, threadVars, gameOpen, end>>

\* client.stop(), and the first line of hobbitGameManager.stop().
Disconnect(t) ==
  /\ At(t, "disconnect") /\ Goto(t, "testWatcher")
  /\ connected' = FALSE /\ stopThread' = TRUE
  /\ UNCHANGED <<sessionVars, serverVars, running, receivers, thread, gameOpen, end>>

\* The caller goes on.  Mutant: the session ends with its client.
AfterStopEnds(t) == IF t = "window" THEN "joinSession" ELSE "done"
AfterStop(t) ==
  IF t = "window" THEN "joinSession" ELSE IF mode = "create" THEN "stopServer" ELSE "done"
Test == [watcher |-> "testWatcher", update |-> "testUpdate"]
Wait == [watcher |-> "joinWatcher", update |-> "joinUpdate"]
AfterJoin(t, h) == IF h = "watcher" THEN "testUpdate" ELSE AfterStop(t)

\* if (thread.joinable())
TestJoinable(t, h) ==
  /\ At(t, Test[h])
  /\ Goto(t, IF thread[h] # "none" THEN Wait[h] ELSE AfterJoin(t, h))
  /\ UNCHANGED <<sessionVars, serverVars, clientVars, threadVars, gameOpen, end>>

\* thread.join(): if the other thread was faster, it throws or returns.
Join(t, h) ==
  /\ At(t, Wait[h]) /\ thread[h] # "live"
  /\ \/ Goto(t, AfterJoin(t, h)) /\ UNCHANGED end
     \/ thread[h] = "none" /\ end' = "joinedTwice" /\ UNCHANGED pc
  /\ thread' = [thread EXCEPT ![h] = "none"]
  /\ UNCHANGED <<sessionVars, serverVars, clientVars, stopThread, gameOpen>>

Stop(t) ==
  \/ Halt(t)
  \/ Disconnect(t)
  \/ \E h \in Handles : TestJoinable(t, h) \/ Join(t, h)

-------------------------------------------------------------------------------
(* The session: startServerClient or startClient.                           *)

SessionServer ==
  /\ At("session", "server") /\ Goto("session", "connect")
  /\ ServerStart
  /\ UNCHANGED <<mode, sessions, started, late, clientVars, threadVars, gameOpen, end>>

\* client.start(), and what happens if it fails: the session is over.
SessionConnect ==
  /\ At("session", "connect")
  /\ \/ /\ Goto("session", "game")
        /\ connected' = TRUE /\ receivers' = receivers + 1
     \/ /\ Goto("session", "done")
        /\ UNCHANGED <<connected, receivers>>
  /\ UNCHANGED <<sessionVars, serverVars, running, threadVars, gameOpen, end>>

\* The game is waited for.
SessionGame ==
  /\ At("session", "game") /\ gameOpen /\ Goto("session", "manager")
  /\ running' = TRUE
  /\ UNCHANGED <<sessionVars, serverVars, connected, receivers, threadVars, gameOpen, end>>

\* updateThread = std::thread(...), of the game manager and of the client.
Assign(h, l) ==
  IF thread[h] # "none" THEN end' = "overwritten" /\ UNCHANGED <<pc, thread>>
  ELSE thread' = [thread EXCEPT ![h] = "live"] /\ Goto("session", l) /\ UNCHANGED end

SessionManager ==
  /\ At("session", "manager")
  /\ stopThread' = FALSE /\ Assign("watcher", "update")
  /\ UNCHANGED <<sessionVars, serverVars, clientVars, gameOpen>>

SessionUpdate ==
  /\ At("session", "update")
  /\ Assign("update", "loop") /\ started' = TRUE
  /\ UNCHANGED <<mode, sessions, opened, late, serverVars, clientVars, stopThread, gameOpen>>

\* while (hobbitClient.isRunning()) ...  Mutant: the client is not stopped here.
JustEnd == IF mode = "create" THEN "stopServer" ELSE "done"
AfterLoop == "halt"

SessionLoop ==
  /\ At("session", "loop") /\ ~running /\ Goto("session", AfterLoop)
  /\ UNCHANGED <<sessionVars, serverVars, clientVars, threadVars, gameOpen, end>>

SessionStopServer ==
  /\ At("session", "stopServer") /\ Goto("session", "done")
  /\ ServerStop
  /\ UNCHANGED <<sessionVars, clientVars, threadVars, gameOpen, end>>

Session ==
  SessionServer \/ SessionConnect \/ SessionGame \/ SessionManager \/ SessionUpdate
    \/ SessionLoop \/ SessionStopServer

-------------------------------------------------------------------------------
(* The other threads: the watcher, the update thread, the receive threads.  *)

\* The loops of the watcher and of the update thread test their flags.
ThreadEnds(h) ==
  /\ end = "no" /\ thread[h] = "live"
  /\ IF h = "watcher" THEN stopThread ELSE ~running
  /\ thread' = [thread EXCEPT ![h] = "ended"]
  /\ UNCHANGED <<pc, sessionVars, serverVars, clientVars, stopThread, gameOpen, end>>

\* notifyServerDown, in the receive thread of this session or of an earlier one.
ServerDown ==
  /\ end = "no" /\ receivers > 0
  /\ receivers' = receivers - 1
  /\ connected' = FALSE /\ running' = FALSE
  /\ UNCHANGED <<pc, sessionVars, serverVars, threadVars, gameOpen, end>>

\* onClientListUpdate; the receive thread goes on if isConnected.
ListArrives ==
  /\ end = "no" /\ receivers > 0
  /\ running' = TRUE
  /\ late' = (late \/ (started /\ ~running))
  /\ receivers' = IF connected THEN receivers ELSE receivers - 1
  /\ UNCHANGED <<pc, mode, sessions, opened, started, serverVars, connected, threadVars, gameOpen, end>>

GameOpens ==
  /\ ~gameOpen /\ gameOpen' = TRUE
  /\ UNCHANGED <<pc, sessionVars, serverVars, clientVars, threadVars, end>>

-------------------------------------------------------------------------------
WindowExits == ExitServer \/ ExitClient \/ Stop("window") \/ ExitJoin
SessionRuns == Session \/ Stop("session")

Next ==
  \/ \E m \in {"create", "join"} : Press(m)
  \/ PressExit \/ CloseWindow
  \/ WindowExits \/ SessionRuns
  \/ \E h \in Handles : ThreadEnds(h)
  \/ ServerDown \/ ListArrives \/ GameOpens

Spec == Init /\ [][Next]_vars

\* The program's threads are scheduled; nothing is assumed of the user, the game
\* and the other players.
FairSpec ==
  /\ Spec
  /\ WF_vars(WindowExits) /\ WF_vars(SessionRuns)
  /\ \A h \in Handles : WF_vars(ThreadEnds(h))

-------------------------------------------------------------------------------
(* Properties.                                                              *)

\* Where the two threads are (pc), and the flags.
Stopping == {"halt", "disconnect", "testWatcher", "joinWatcher", "testUpdate", "joinUpdate"}
WindowPlaces == {"first", "second", "stopServer", "stopClient", "joinSession", "closed"} \cup Stopping
SessionPlaces ==
  {"none", "server", "connect", "game", "manager", "update", "loop", "stopServer", "done"} \cup Stopping

FlagsOK ==
  /\ isRunning \in BOOLEAN /\ listening \in BOOLEAN /\ bound \in BOOLEAN
  /\ opened \in BOOLEAN /\ started \in BOOLEAN /\ late \in BOOLEAN
  /\ running \in BOOLEAN /\ connected \in BOOLEAN
  /\ stopThread \in BOOLEAN /\ gameOpen \in BOOLEAN

\* Every variable has values of its type, and a session has at most one receive
\* thread.
TypeOK ==
  /\ FlagsOK
  /\ pc \in [Threads -> WindowPlaces \cup SessionPlaces]
  /\ pc["window"] \in WindowPlaces /\ pc["session"] \in SessionPlaces
  /\ mode \in {"create", "join"} /\ sessions \in 0 .. MaxSessions
  /\ receivers \in 0 .. sessions
  /\ thread \in [Handles -> {"none", "live", "ended"}]
  /\ end \in {"no", "closed", "destroyed", "overwritten", "joinedTwice"}

\* When the first page is shown, the session that ended has left no thread behind
\* that is still joinable, whichever of the two threads stopped the client: a new
\* session does not assign to a std::thread that is in use (HobbitClient.cpp:85,
\* HobbitGameManager.h:45, HobbitMultiplayerWindowed.cpp:263), which would end the
\* program.
SessionLeavesNoThread ==
  /\ pc["window"] = "first" => pc["session"] = "none" /\ \A h \in Handles : thread[h] = "none"
  /\ end # "overwritten"

\* A session that opened the server's socket and whose client started has closed the
\* socket when it is over, whichever thread stops the server (HobbitMultiplayer.cpp:112).
SessionClosesServer ==
  pc["session"] = "done" /\ opened /\ started => ~listening

\* The exit button, pressed in a session that runs, leads back to the first page, if
\* the program survives it (two threads join the same thread), and unless a client
\* list sets running again.
ExitEnds ==
  At("window", "stopServer") /\ pc["session"] = "loop"
    ~> pc["window"] = "first" \/ end # "no" \/ late

===============================================================================
