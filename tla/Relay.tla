-------------------------------- MODULE Relay ---------------------------------
(***************************************************************************)
(* What the server promises the players, without its threads, its mutex and *)
(* its sockets: the messages of the members form one log, which every       *)
(* member reads from where it stood when it joined, in order and without    *)
(* gaps, leaving out its own.  A member whose connection is gone may miss   *)
(* messages.  An inbox is what was received with the place where it was,    *)
(* each later than the ones before it.                                      *)
(***************************************************************************)
EXTENDS Naturals, Sequences, FiniteSets

CONSTANT Procs

VARIABLES log, members, gone, got, inbox

relayVars == <<log, members, gone, got, inbox>>

Init == /\ log = <<>> /\ members = {} /\ gone = {}
        /\ got = [c \in Procs |-> 0]
        /\ inbox = [c \in Procs |-> {}]

\* A new member sees what is published from now on.
Join(c) ==
  /\ c \in Procs \ members
  /\ members' = members \cup {c}
  /\ got' = [got EXCEPT ![c] = Len(log)]
  /\ UNCHANGED <<log, gone, inbox>>

\* A member that has seen the whole log publishes its next message.
Published(c) == {i \in 1 .. Len(log) : log[i].from = c}

Publish(c) ==
  /\ c \in members
  /\ got[c] = Len(log)
  /\ log' = Append(log, [from |-> c, n |-> Cardinality(Published(c)) + 1])
  /\ got' = [got EXCEPT ![c] = Len(log) + 1]
  /\ UNCHANGED <<members, gone, inbox>>

\* The next message of the log, which is of another member, reaches c.
Receive(c, m) ==
  \E e \in inbox'[c] : /\ e.msg = m
                       /\ \A d \in inbox[c] : d.at < e.at
                       /\ inbox' = [inbox EXCEPT ![c] = @ \cup {e}]

Deliver(c) ==
  /\ c \in members
  /\ got[c] < Len(log)
  /\ log[got[c] + 1].from # c
  /\ got' = [got EXCEPT ![c] = @ + 1]
  /\ \/ c \notin gone /\ Receive(c, log[got[c] + 1])
     \/ c \in gone /\ UNCHANGED inbox
  /\ UNCHANGED <<log, members, gone>>

Leave(c) ==
  /\ c \in members
  /\ members' = members \ {c}
  /\ got' = [got EXCEPT ![c] = 0]
  /\ UNCHANGED <<log, gone, inbox>>

\* Connections break, one or all of them at a time, and are never used again.
Break ==
  /\ gone' \in SUBSET Procs /\ gone \subseteq gone'
  /\ UNCHANGED <<log, members, got, inbox>>

Next == Break \/ \E c \in Procs : Join(c) \/ Publish(c) \/ Deliver(c) \/ Leave(c)

Spec == Init /\ [][Next]_relayVars

===============================================================================
