# Verification of The Synchrony

The Synchrony makes the single-player game *The Hobbit* (2003) a game for several
players. Every player runs a client beside the game; the client reads and writes the
memory of the game's process and exchanges messages with the other clients through a
relay server, which one of the players runs. This directory holds TLA+ modules of its
concurrent parts, TLC configurations that check them on small instances, and proofs that
TLAPS checks for instances of any size. `PROJECT.json` lists components, runs, mutants,
the source lines of every definition, findings, hazards and theorems.

## The system

| part | code | state | operations | modelled in |
|---|---|---|---|---|
| relay server | `ServerClient/Server.*` | vector of clients under `clientsMutex`, next id, `isRunning`, listening socket | `start`, `stop`, accept, relay, notify, drop | `Server`, `Relay`; its reading of the bytes in `Stream` |
| client connection | `ServerClient/Client.*` | queues of events, snapshots by sender, client list, `isConnected` | connect, send, receive, sort, list update, server down, disconnect | `Stream`, `Channel`, `HobbitClient`; a connect that fails in `App` |
| Hobbit client | `Hobbit Multiplayer/HobbitClient.*` | `running`, `processMessages`, seven player slots, the switch of each label | `start`, `stop`, the update cycle, listeners, parsing | `HobbitClient`, `GameManager`, `GameData` |
| connected players, npcs | `ConnectedPlayer.h`, `NPC.*` | id and last snapshot per slot, addresses in the game | store a snapshot, move the npc, look up addresses | the slots in `HobbitClient`, the addresses in `GameManager` |
| main player | `MainPlayer.h` | health per enemy and count per item as last seen | read what a level begins with, send differences, apply those of others | `EventSync`, the lengths of its records in `GameData`, its addresses in `GameManager` |
| game manager | `HobbitGameManager.h` | flags of the game as last polled, listeners | poll, open/close/enter/exit events | `GameManager` |
| process memory | `*ProcessAnalyzer*.h` | process handle, address of the object stack; the pages' protection | read, write, search | `ProcMem`; whether it is attached, in `GameManager` |
| message codec | `Message.*`, `Utility.h` | - | serialise, parse | `Server`, `Stream`, `GameData` |
| application | `HobbitMultiplayer.*`, `HobbitMultiplayerWindowed` | the session's thread, which page is shown | create, join, exit, close | `App` |
| logging, IPv4 lookup, `NetworkUtilities`, asio | | | | not modelled: no state the synchronisation depends on, a stand-alone demonstration, a vendored library |

How the parts meet: the server has one acceptor thread and one handler thread per client,
which share the client vector; a handler relays what it reads to all other clients, and
whoever changes the vector sends all clients the new list. In the client three threads
meet: the detached receive thread fills the queues and reassigns the slots, the update
thread empties the queues, moves npcs and sends what changed, and the watcher of the game
manager decides, from flags it polls in the game's memory, whether the update thread may
work and with which addresses. The game itself runs all the while.

What is hard: the id greeting is sent without the mutex that the other sends hold; `send`
blocks under that mutex; ids are bytes and wrap around; `recv` returns what is there, not
what was asked for, and a connection breaks between any two bytes; the update thread uses the queues
without the mutex the receive thread takes; a list reassigns slots while snapshots are
being stored; levels change while addresses are looked up, by two threads, between the cycles of
a third; the game changes values between a read and a write, and all of them at the entry of
a level; `running` is written by three threads; the exit button and the session
stop the client at the same time; pages of the game are made writable and protected again by
several threads; the length of a record is a byte. The list with line numbers is
under "hazards" in `PROJECT.json`.

## The modules

**Server.** One step per lock, per `send`, per turn of a loop. `pc` says where each thread
is; `mutex`, `sending`, `todo` and `hdrSent` are the lock and the progress of the loop that
runs under it (two loops never run at once, which is `SendersHoldTheLock`); `out[c]` is what
was written to connection `c`, in chunks: the size ("hdr") and the bytes ("body") of a
message are two calls of `send` in the code. The properties speak of places in `out[c]`:
those of what was written under the mutex (`LockedAt`), and of the bytes of the messages of a
type (`BodiesAt`). `Start`, `StartFails` and `Stop` are the calls
of the application: `stop` clears `isRunning` for good, and a `start` while the server
listens overwrites `listeningSocket` with a socket that is not bound (`bound`). Peers
connect, send, stop reading for a while and go away. A connection is used once, an address
is not told apart from its connection, the vector is a set with the order of acceptance
(`seat`), and a message of a peer is read whole, as `Channel` delivers it.

**Relay.** What the server promises, without threads: one log of messages; every member
reads it from where it stood when it joined, in order, without gaps and without its own.
`Server` maps to it by `INSTANCE ... WITH`: the log is the order in which broadcasts took
the mutex, and a member is one message behind while it is still in the recipients of the
broadcast under way; its inbox is the game messages that were written to it, with their
places. The stutters are everything about lists, greetings and sockets.

**Stream.** One direction of a connection, byte by byte: `sendMessage` is two calls of
`send`, the size and the bytes; the reader's loop, which `Server::handleClient` and
`Client::receiveMessages` share, asks `recv` once for the size and for the bytes until it has
them. A byte is its position, so that what the reader takes for a size or for a message
depends on where it reads. `recv` returns any part of what it was asked for and is there; a
break loses any number of the last bytes. If the size came in two pieces (`torn`), the rest
of the size variable is what the stack held, and from then on the reader may be anywhere. What
it then takes for a size goes to `std::vector` unchecked: the largest size of the model stands
for those that no buffer can have, and ends the reader or, by an exception nobody catches, the
program (`SizeTooLarge`).

**Channel.** What a connection promises its reader: the messages, each whole, once and in
order, until a size is torn. `Stream` implements it; `Server` and `HobbitClient` read
messages as `Channel` delivers them.

**HobbitClient.** The receive thread (`Rx...`), the update thread (`Up...`) and the thread
that calls `start` and `stop` of one client. Every access to a queue is a step; the slots
are written one at a time, as `onClientListUpdate` does without a lock the update thread
would respect, and searched one at a time for a snapshot's sender. Events are numbered as received, snapshots per sender. The server is an
environment that behaves as `Server` shows (`SenderListed`). `ready` stands for
`processMessages && isOnLevel()`, which `GameManager` is about. Text messages (nobody
sends any) are left out; a connect that fails is in `App`.

**GameManager.** Three threads: the watcher, poll by poll and flag by flag, with the
listeners it calls (their five-second sleep is the place "asleep"); the application's
(`opener`) in `start`, `onOpenGame` and `stop`; and the update thread (`up`), which asks
`processMessages` and then `isOnLevel()` between two cycles but not within one. The game is
external: phases, of which the watcher sees three flags, and whether the level has the
players' npcs; it may change its phase at any moment, within a sleep too. `ptrsOf` and `npcOf`
say whether the addresses of Bilbo and the enemies, and those of the npcs, are of the level
that is loaded, of an older one, or missing: `setNCP` keeps the old ones when it does not find
the npc. `HobbitClient` and `HobbitGameManager` outlive a session: `StartManager` resets
`stopThread` and nothing else, so that a later session begins with the flags, addresses and
`processMessages` of the one before, and calls one more listener per level than it did
(`listeners`).

What the code promises depends on when the game moves, so the model keeps a history of it. A
change of phase is *timely* if a poll has begun in the phase it ends and nobody is settling,
that is, sleeping or looking up in a listener, or between `start` and the decision of
`onOpenGame`. `trust` is "full" in the first session, whose flags are those of a client that
has seen nothing, as long as all changes are timely; it is lost at an untimely change and at
the start of a later session; it is "level" from the load of a level (or from the start of a
session while one loads), as long as all changes since are timely; and it is "full" again once
the watcher has looked up such a level. The properties say what holds at which trust, and the
run and the proofs go through all the states, those without trust included.

**EventSync.** Several players, each with the game's value and `MainPlayer`'s last seen
value of an enemy's health and of some items, and a queue of events. `ReadHealth` and
`WriteHealth` are two steps, because the game runs between them; so are the three reads of an
item, for the test, for the difference and for what is remembered (`TestItems`, `DiffItems`,
`SendItems`). `Sent` and `Skipped` are the tests of `writeInventoryEvent`. A player enters
another level, or the same one again, between two cycles (`Enter`), and five seconds later
`ReadPtrs` looks at what the game holds: enemies are known anew, the inventory keeps what was
remembered of the level before, since `readPtrs` appends to it. An event about an enemy that
the level does not have is left aside. Whether the games may change while events are under
way is chosen once (`overlap`); `apart` is the history of the players whose enemy has missed
a hit.

**GameData.** The records inside a payload: what `writeSnap`, `writeEnemiesEvent` and
`writeInventoryEvent` put into one, entry by entry, with the size byte that wraps, and how
`readGameMessage` finds its way through it, reading or skipping as the check boxes say at
that moment. Bytes are counted, not represented; a reader that looks for a label in the
middle of a record is "lost" and may run out of bytes. The writer and the reader are those
of two clients; a message is read before the next is written, since nothing is shared
between messages.

**App.** The window's thread and the session's thread of the windowed application, which
both call `server.stop` and `hobbitClient.stop`, with the `std::thread` objects they assign
and join. Three ways to end the program are in it: a joinable `std::thread` is assigned, or
destroyed when the window is closed, or two calls of `join` meet (undefined: the second
throws or goes unnoticed). Receive threads of earlier sessions stay in `recv`, since
`Client::disconnect` returns before it closes the socket.

**ProcMem.** `readData` and `writeData` as the three calls of Windows they are, by any
threads on any pages. Windows is external: a call on a process that is gone fails, and so
does `VirtualProtectEx` without a place for the old protection, which is what `writeData`
passes when it restores. `disturbed` is the history of the pages that were written, read by
two threads at a time, or whose reading was refused.

`MC...` modules instantiate these for TLC.

## The runs

| run | what it checks | bounds |
|---|---|---|
| server_core | lock discipline, whole frames, lists that settle, senders that are listed, `ImplementsRelay` | 3 connections, two of them, which are interchangeable (symmetry), send a message each, the third may leave at any moment, 4 ids |
| server_stop | served clients are registered, closed sockets left alone, senders are listed, over stop and a second start | 2 connections that may both leave, one of them talks, 2 starts; `stop` resets the connections (`SoleUser`) |
| server_live | mutex freed, departures noticed, joins served, the acceptor ends after `stop` | 2 connections, one stalls, one leaves; stopped at any moment, connections outlive it |
| stream | `ImplementsChannel`; no event without content; what is sent arrives; the reader ends with the connection | 2 messages of 1 or 2 bytes of content (0 is offered and must not be sent), sizes up to 5 read where there is none |
| client | slots follow the list, snapshots go to their own slot and forward; events once and in order, in the end all; the client ends | 3 ids, 2 slots, 2 lists, 2 game messages: events, or snapshots of one sender or of two |
| client_snapshot_lost | finding: a snapshot is cleared unread | violation |
| game_manager | pointers of the right level, lookups that are alone, levels served, `stop` returns | 3 loads or restarts of the game, levels with or without npcs; 2 sessions, stopped at any moment, by `stop` or the loss of the server; one untimely change |
| sync | no echo, no negative inventory, comes to rest; agreement when changes come in turns | 3 players, 3 items of the different kinds, 2 levels, 1 entry, 2 changes |
| game_data | records whose size fits are found and read whole, whatever is switched off when | 22 enemies, 33 items, bytes of 256 values: the code's own numbers |
| many_enemies | finding: the size byte of 21 enemies is 0 | violation |
| app | no `std::thread` is overwritten, the server's socket is closed, the exit button ends a running session | 3 sessions, lists at any moment, connects that fail |
| page_protection | no write is refused, single readers leave no trace | 3 threads, a data page and a code page |

The bounds are the smallest in which the cases of interest occur. Three connections are
needed for a bystander to a join or a departure that races with a broadcast. Two messages
make a reader that lost its place in the first take bytes of the second for a size; contents
of two lengths make the sizes different, and 5 is more than any size that is sent. On the
server two senders of a message each give the relay an order to keep, which the third connection
hears whole or, if it leaves, up to a point; permuting the two senders changes nothing that
`server_core` checks, and all of it is safety, so TLC takes one of each such pair of states. In
`server_stop` it is the sender who may leave, with its message under way. `MaxGame` 2 gives two
events, or two snapshots (an older and a newer one of a sender, or two in the same copy), or
one of each. Two slots
for three ids make the list longer than the slots; two lists make a slot change its owner; a
game that becomes playable once is enough, since one that is not only keeps the update thread
waiting (`MaxFlips`). `MaxEpoch` 4 gives a level whose npc is found, one without it, and one
after that, or a restart of the game in between; in the second session two listeners are called,
and the flags are those the first one left; one untimely change is enough to lose the trust,
and the levels after it show how it comes back. The items are one of each kind that `writeInventoryEvent` treats
differently (0: every change is sent; 7: what is found; 53: what is used up), three players
are two that change the same thing and a bystander. A second session of the application
inherits what the first left behind (flags, sockets, receive threads), a third what a session
with an inheritance leaves. Three threads are needed for a reader between two accesses that
overlap. 20 enemies are the most whose record has a size that is a byte; with 22 it wraps to
0 and to 12.

Deadlock is checked where the system never rests (EventSync, ProcMem); elsewhere it may stop:
peers go away, a reader ends or runs out of bytes, the client is stopped, bounds are reached.

Fairness. Threads run (`WF` of each thread's next step: the operating system schedules
them, and a lock that is free in the end goes to somebody; since every holder releases it
and TLC checks the properties with weak fairness only, no fair mutex is assumed). A peer
that stopped reading reads again or closes; without this a `send` under the mutex would
block the server for good, which `MutexFreed` makes visible. In `Stream` what is on the way
arrives (`Reader`) and a message that was begun is sent to its end (`Sender`), unless the
connection breaks. Nothing is assumed of what peers, players and games choose to do. The
receive thread of the client is fair only in what it can do by itself.

Some properties name a condition, since without it the code does not have them, and each
is listed as a hazard: `ServedIsRegistered` up to 256 connections; `JoinServed` while
`start` is called once; `ImplementsChannel`, `NoEmptyEvent` and `EverythingArrives` until a
size is torn (`ReaderEnds` even then); `StoredInOwnSlot` while the list does not change under
the search; `StopReturns` if no list arrives after `stop`; `ServerDownEndsUpdate` after
`start`; `FreshPointers` and `LookupsAlone` while the client is in step with the game, in the
first session or again after the lookup of an undisturbed level (`trust`), the latter not for
the level that `onOpenGame` and the watcher found at the same time; `LevelIsServed` for a
level whose load, and what came since, was not disturbed; `AgreeWhenQuiet` when changes do not
overlap, and for enemies in levels that were entered before they were hit;
`SessionClosesServer` for sessions whose socket was bound and whose client started;
`ExitEnds` for a session that runs and no client list under way, or the end of the program;
`ReadsLeaveNoTrace` for readers that are alone and not refused.

Findings:

* `readMessage` clears snapshots it has not read (`HobbitClient.cpp:152`, against the
  comment at 148);
* the size byte of a record of 21 enemies is 0, so that a reader that skips it
  (`HobbitClient.cpp:197`) gets lost.

Without a run of their own: `writeData` restores the protection with NULL for the old one, so
that `VirtualProtectEx` fails and the page keeps the protection of the write
(`ProcessAnalyzer.h:90`; modelled in `ProcMem`); the code synchronises items
(`MainPlayer.h:148`), which `README.md:6` says it does not, and the model is of the code; of
the reuse of ids after 256 connections, what holds then is proved
(`ClosedSocketsAreLeftAlone`).

## The proofs

**ServerProofs** proves, for any finite set of connections, any number of ids and any bounds,
from `ServerAssumption`, all the safety properties of `Server`:

* `TypeCorrectness`; `LockDiscipline`: whoever is in a sending loop holds the mutex, and only
  one is; `ClosedSocketsAreLeftAlone`: no write to a socket that its handler has closed, wrap
  of the ids or no wrap;
* `ServedClientsAreRegistered`: a client that is served is registered, up to `IdSpace`
  connections;
* `FramesStayWhole` and `ListsSettle`: `LockedFramesIntact` and `SettledLists`, wrap or no wrap;
* `SendersAreListed`: `SenderListed`, up to `IdSpace` connections;
* `ServerImplementsRelay`: `Spec => ImplementsRelay`, if there are no more connections than
  ids (`Cardinality(Conns) <= IdSpace`);
* `OneOrderForAll`, under the same condition: two messages that two players received they
  received in the same order, nobody received one twice (`SameOrder`), and between two that a
  player received it has all those of the others (`NoGaps`), also if it left or its
  connection broke later;
* `HoldersGetOn`: the holder of the mutex has a known number of calls of `send` to make
  (`Left`, two per client at most), which each of its steps lowers and nobody else's raises.
  This is the part of `MutexFreed` that needs no fairness: only a `send` that blocks keeps
  the mutex.

The inductive invariant `IndInv` adds to the types: where each thread can be, and that the
connection the acceptor is busy with has no handler yet (*Places*); that the mutex holder
is the one thread that sends, and sends to registered clients (*Locking*); that a
registered client has not been through its erase (*Living*); that a connection that was
not accepted has no handler and is not registered (*Waiting*). None of the safety
properties is inductive alone: that a recipient is not closed needs that recipients are
registered while the mutex is held, that the erase needs the mutex, and that the handler
closes only after the erase. `ServedClientsAreRegistered` needs in addition that ids are
given in turn (*Turns*: the n-th connection has id n, the `IdSpace`-th has 0), so that the
erase by id removes nobody else.

What the clients are sent is proved on top of that. Most steps leave the clients, the mutex
and the streams aside (*Aside*), so that the others are left to look at. What the holder of
the mutex sends is still the list of the clients, since nobody is registered or erased
meanwhile, or the last message of its own peer (*Composing*). A stream ends in a size if it
is its client's turn and the size was sent, else in the bytes of a message (*Frames*). While a
list is sent, those that were served know the clients of now; while none is announced or
sent, all do (*Telling*, *Settled*): whoever changes the vector is, from then on, about to
notify. A client has a handler only after a list with it was sent to all, so that what the
handler relays comes from somebody on every list (*Listed*, in *Known*). For the refinement:
the messages of a connection in `order`, and the one that waits for the mutex, are those that
were read (*Numbered*); the last of the order is the one being relayed (*Ordered*). `Register`
is then a `Join`, `BcastLock` a `Publish`, the bytes of a game message a `Deliver`, `Erase` a
`Leave`; what is left are stutters and connections that break.

`OneOrderForAll` is a consequence of those steps of `Relay`, and shows that the abstract
promise is what the players need. No two messages of the order are the same, because those
of a connection are numbered (*Counting*, *Distinct*); what was received is in the order, up
to the place of who received it (*Received*), and in that order (*Sorted*), which two players
share; and while its connection is there a client has all the messages of the others between
the first it received and its place (*Complete*). `Relay` lets a member that left join again
and go on with its old inbox, which would leave a gap; that this does not happen is shown of
the server: a connection that is not registered yet was sent no message (*Unspoken*), and a
handler is never started a second time.

**StreamProofs**, from `StreamAssumption`, for messages of any length and any cuts:
`TypeCorrectness`, `StreamImplementsChannel`, `EventsHaveContent` and `ReaderKeepsUp`, the part
of `EverythingArrives` that needs no fairness: a reader that has all the bytes has delivered
all the messages, and a reader in a message waits for nothing that is not in the stream
(`NothingStuck`). The invariant says where
the messages are in the stream, one after the other and none empty (*Laid*, *Sending*), how
much of them is there (*Writing*), and, as long as no size was torn, that those delivered are
the first ones sent (*InOrder*) and that the reader is at the next one or `got` bytes into it,
with its size (*Following*). So the bytes at the reader's position are of exactly one message,
and what it delivers is the next one that was sent.

**HobbitClientProofs**, for any ids, slots and bounds: the types, `EventsAreExact`,
`SlotsAreTheList`, `SnapshotsInTheirSlots` and `SnapshotsAdvance`. `Nth`, the k-th smallest
id of a list, is defined by cardinality, so its lemmas come first: it exists up to the size of
the list, increases with k and reaches every element. Then: what was applied followed by
what is queued is what was received (*EventsInv*); a snapshot in the queue is newer than the
one in the slot (*SnapsInv*); the slots already passed by the loop of `onClientListUpdate`
hold the new list, the others the old one (*SlotsInv*); the slots that the search has passed
are not the sender's (*SearchInv*), and the slot it found is, as long as no list came since
(*FoundInv*).

**GameManagerProofs**, from `ManagerAssumption` (the bounds are numbers), for any loads,
restarts, sessions and untimely changes: `TypeCorrectness`, `PointersAreFresh` and
`LookupsAreAlone`. Nothing is assumed of the game: the condition, `trust`, is a part of the
state, and the proof has to show that the invariant below, which is lost with the trust, is
there again when the watcher has looked up an undisturbed level, whatever the flags and the
addresses were before. The invariant says what `start` finds the first time (*FreshInv*) and
where the threads are (*ThreadsInv*), and relates what the watcher has seen in this poll and
the last to the phase of the game: until `onOpenGame` has looked up, all of it is of one phase
(*OpeningInv*); a poll that saw the game not ended is at most one phase behind (*PollingInv*);
who has looked for the npc of a level has it (*LookedInv*); while messages are processed the
addresses are those of the level, or its end is about to be seen, as an edge
(*ProcessingInv*), and so they were when the update thread tested the flag (*AskedInv*); a
level is looked up once (*OnceInv*); and a cycle does not reach into the lookups of the next
level (*CycleInv*).

**EventSyncProofs**, from `SyncAssumption`, for any players, levels, items and bounds:
`TypeCorrectness`, `ItemsNonNegative` and `NothingIsEchoed`. The last is an accounting: the
events sent, the healths that differ from what was seen and the item changes not yet told
are together at most the changes the games made (*Paid*): applying an event makes no new
difference, because what is written is also remembered.

`PlayersAgree` proves `AgreeWhenQuiet`, and needs no sum over what is under way. In games that
change one at a time (*OneAtATime*) there is at most one change that nobody was told of yet, or
its event is in the queues, one per player. What is about to be sent of the items is the
difference there is (*DeltaExact*), so that the count a player has seen, plus what its queue
tells it, is the same for all (*SameItems*). Of the enemies: every level somebody hit in is
known as such, and who has read a health in order to add to it adds to the one there is
(*HitsKnown*); where nobody hit the enemy is as new, and those in the same level that have
missed no hit have, with what they are told, seen the same health (*SameEnemies*). Together
with the types this is inductive (*InStep*); when nothing is untold and the queues are empty,
it is the agreement.

**AppProofs**, for any number of sessions: `TypeCorrectness`, `NoThreadIsLeft`,
`SocketIsClosed`. The first page is shown only between sessions (*PagesInv*); at each place
of the session's thread it is known which `std::thread` objects are empty (*HandlesInv*); no
more receive threads than sessions (*ReceiversInv*); the socket the session opened is still
the server's (*SocketInv*).

**GameDataProofs**, from `DataAssumption`, for any numbers of enemies and items: the types,
`RecordsAligned` (`AtRecord`) and `ReaderHasItsBytes` (`NeverRunsOut`): the records whose size
fits in a byte are read and skipped right, also among others that do not fit; of those,
many_enemies shows what becomes. `SmallLevelsAreSkipped` is the other side of that finding:
if all the entries of a level fit together, which with 256 values means up to 20 enemies,
`SkipsTheData` holds without a condition on the record, and nothing is thrown. The invariant says that the size of the record being written
is the length of its body while that fits (*Writing*); that the size byte of a message that
fits is what its reader takes (*Message*), so that reading and skipping agree; and where its
reader is (*Reading*).

**ProcMemProofs** proves `TypeOK`, `WritesAllowed` and `ReadsLeaveNoTrace` for any threads and
pages, from `MemoryAssumption` (pages that are written are pages the game writes itself).
That a writer keeps its right to write needs that every protection another thread may still
restore is writable (*Granted*), whatever the order of the calls; that a reader leaves no
trace needs that it is alone (*Alone*) and remembers the game's protection (*Kept*).

Only model-checked: the liveness properties (fairness and ENABLED are out of the prover's
reach; `HoldersGetOn` and `ReaderKeepsUp` prove of two of them what needs neither). Every
invariant and action property that a passing run checks, and every refinement, is a theorem.
Recursive operators are not used in any module.

## Not modelled

The log system (console output and its tree of options), the look-up of the computer's
address (one call of the operating system) and the text menus of the console keep no state
that the synchronisation depends on. `NetworkUtilities` is a stand-alone demonstration that no
other project of the solution uses; asio is a vendored library that only it uses, and most of
the lines of the repository. Of the repository's own code, some 4,700 lines, the definitions
stand for about a third; the rest is declarations, the window's layout, logging and menus.
Left out of the modelled parts: the file of npc guids and the contents of snapshots (data
nobody compares), the searches of the object stack (reads in a loop under a mutex of their
own), text messages and the level event (nobody sends the first, the receiver of the second
does nothing), and what a data race within a container does (the accesses are steps).

What could be added: the composition of `HobbitClient` with `Server` over a `Channel` for
several clients, whose state space is beyond what TLC finishes in minutes, so that the client
is checked against what the server is shown to keep (`SenderListed`, `SettledLists`,
`ImplementsRelay`) instead.
