# A formal model of little-sb

little-sb is an online fighting game in C++: a server keeps players and battles, and clients with a window connect to
it over TCP and exchange newline-terminated JSON packets.  This directory holds TLA+ models of its core, the TLC
configurations that check them on small instances, and TLAPS proofs for all instances.

Paths below are relative to the repository (`src/...`, `docs/...`).  `PROJECT.json` maps every definition to the lines
it models and lists the hazards each property is aimed at.

## 1. The system

| Component | State | Operations | Talks to |
|---|---|---|---|
| `Session` (`src/session.*`) | queues of pending read callbacks and pending writes, read and write buffer | `schedule_request/read/write`, completion handlers | asio; callbacks of the code above |
| `Session_repository` (`src/server/session-repository.*`) | sessions, each with should_read | `do_accept`, `do_read`, `do_close` | `Session`, `Session_service` |
| `Session_service` (`src/server/session-service.*`) | a queue of events per player name | `handle_command`, `push_event`, `push_event_all`, `pop_event` | `Server`, `Player`, `Battle`, executors |
| executors (`src/server/server-command-executor.*`) | none | say, fuck, escape, resurrect, move; speed-up exists but is not registered | `Server` |
| server program (`src/server/little-sb-server.cpp`) | the signal's handler | `main`, `signal_handler` | `Server` |
| `Server` (`src/server/server.*`) | players (owned), battles, store, map, stop flag | `run_main_game_loop`, `allocate_game`, `remove_player`, `shutdown` | everything on the server |
| `Battle` (`src/battle.*`) | raw pointers to two players, turn, time since the last hit, ended | `update`, `stop` | `Player`, `Session_service` |
| `Player` (`src/player.*`) | health, money, damage, position, direction | `take_damage`, `heal`, `cost_money`, `do_move` | |
| `Game_map`, terrain | a matrix of cells | `update`, `modify` | |
| `Application` (`src/client/application.*`) | state (logging, greeting, battling, ...), copy of the player, battle id, rounds | the frame loop, `process_event`, `async_request` | `Session`, window |
| windows, messages (`src/client/*window*`, `message.*`) | keys, list of messages | drawing, key callbacks | `Application` |
| chat room, items and effects, uuid, log, random | not part of the running game's logic, see section 7 | | |

Each process has one thread.  Its loop calls `io_context::poll()`, which runs the completion handlers that are ready,
and then does its own work: the server updates battles, moves players and sleeps; the client handles keys and draws a
frame.  So a completion handler is atomic, and so is the handling of a command; the update of all battles runs between
two polls.  The one exception is the server's signal handler, which runs on top of whatever the thread is doing.

What is hard here: a session's handlers call callbacks that schedule more work on the same session before the handler
has popped its queue; replies are matched to callbacks by nothing but their order; battles hold raw pointers to
players that log out; events are pushed to queues created on demand, for players present and absent; battles end at a
moment when their players may have been revived, hit by another battle, or replaced; the loop measures time at two
points; the client's state follows replies and events that arrive between frames in which buttons are pressed, and its
copy of the player is changed by both; SIGINT may come before the server exists, while it polls, and after it is gone.  What would make each component correct is stated as properties in section 4.

## 2. Modules

    RpcChannel            what a connection promises: requests handled in order, the i-th callback gets the i-th reply
    Session               the Session class as functions from state to state
    Connection            two Sessions, the TCP connection, client and server code above them; refines RpcChannel
      MCConnection        instance for TLC
      ConnectionProofs    proofs, that it implements RpcChannel among them
    Duel                  what a battle promises the two players in it
    GameServer            players, battles, event queues, commands and ticks; its battles implement Duel
      MCGameServer        instances for TLC
      GameServerProofs    proofs about the ends of battles, hits, broadcasts, duels, and health and its events
    GameLoop              the timing of the main loop
      GameLoopProofs      proofs
    Client                the client's state machine over a channel, and what the server does for one client
      ClientProofs        proofs about queries, logout and the view of a battle
      ClientHealthProofs  proofs about the client's copy of the health
    Battlefield           keys, moves, positions and the map
      BattlefieldProofs   proofs
    ServerShutdown        the server process: main, the loop, accepting and serving sessions, and SIGINT
      ServerShutdownProofs proofs
    Sums                  sums of sequences of numbers, for the properties about health of GameServer and Client
      SumLemmas           proofs

**Session.** A session is a record: `reads` and `writes` are `_pending_reads` and `_pending_writes`, `reading` and
`writing` count the outstanding asynchronous operations, `rbuf` is `_read_buf` and `wbuf` the part of `_write_buf` that
the kernel has not taken.  `ScheduleRead`, `ScheduleWrite`, `ScheduleRequest`, `DoAsyncRead`, `DoAsyncWrite` are the
member functions of the same name.  The completion handlers are split where the code can leave them: `TakeLine` then
the callback then `PopRead`; `Written` (post_write, then `PopWrite`); `ReadAborted` and `WriteAborted` for the error
returns.  A packet is a number and travels as two fragments, the text and the newline, so that a read may bring half a
line or one and a half.

**Connection.** `KernelSend` and `KernelReceive` stand for asio's composed operations and move any number of
fragments.  `ServerRead` is `do_async_read`'s handler with the callback that `Session_repository::do_read` installed;
`WriteDone` the write handler, which on the server reads on only while `shouldRead`.  On the client, `ClientRead`,
`ClientReadAndRequest` (the continuous query for events issues the next request from inside the callback) and
`ClientReadThrows` are the ways a callback can go.  `json::parse` is outside the handler's try block, so
`ServerParseError` ends the server.  Either process may go away at any step (`Close`), after which the peer's
operations fail.  `issued`, `handled` and `delivered` are history and are what `RpcChannel` sees: `Channel` instantiates it
with them.  The client's `io_context` stops when it runs out of work, and `poll_events` restarts it in the same iteration
(application.cpp:53-57), so the model's client can always poll.

**GameServer.** One action per command of `handle_command` (commands without effect share `Lookup`), one per outcome of
`Battle::update`, and `Tick`, which starts the update of all battles; `cur` is the battle whose turn it is, so that
battles are updated one after another and commands only come in between two ticks.  `players` maps names to addresses
and `heap` addresses to players: `Logout` frees an address but its contents stay, a new player may be put there, and
battles keep the addresses they were given.  Using a freed player is undefined behaviour; the model lets the build
either use the memory as it is now (`Hit`, `EndBattle`, `Escape`) or end (`Crash`).  `Escape` may be sent by any name for any
battle, as the executor looks at the number of the battle only.  History, read by no action: a player's record keeps how much of
its health it got without an event (`untold`), `shown` sums up what the events a player was given say of its health, `heard` is the
last broadcast among them, and `left` is who has ever logged out; a battle keeps whom its pointers were taken from and the
`verdicts` that `stop` has announced.  A hit changes the target by `TakeDamage` and, as a step of its own in the code,
announces `HealthDrop`, the amount take_damage returned.  Health, the range of strikes, the defense and healing are chosen from
sets where the code draws random numbers.  `DamageTo` is the set of what `damage_to` may return: a strike out of the player's range, critical or not,
truncated, less the defense of the other, and not less than zero.  `NumbersAssumption` has every strike above every defense, as
the ranges in session-service.cpp:79-95 do.  Factors are counted in halves, as the one the code uses is 1.5.

**Duel.** The abstract battle has four variables: its stage, whose turn it is, the ticks since the last blow and the health of
the two fighters.  `Fight(k)` in GameServer instantiates it for battle k; `Begin` is `allocate_game`, `Leave` an escape, and what
commands and other battles do to the health, or a player that has taken another's memory, is `Outside`.

**GameLoop.** Each iteration is `Poll`, then `Update` or `Skip`, then `Sleep`; the clock advances by any amount in each.  It
follows one battle and one moving player: `since` is `_time_since_last_update`, `hitAt` the time of its last hit, `moved`
the sum of the deltas given to `do_move`.

**Client.** `Application::tick` polls, which runs the callbacks of the replies that have come, and draws a frame.
`Poll` is one disjunct per callback: the login's, `sync`'s, the branches of `process_event`, the answers to battle, buy and
escape.  `Frame` is one disjunct per button; every frame of a logged-in client sends `sync` first.  The connection is what
`RpcChannel` promises, so `requests` and `replies` are two queues; the callback of a reply is given by its kind.  The server
half is a reduction of `GameServer` to the player and one foe: `Serve` handles the oldest request, `UpdateBattle` is
one battle's update when its interval is over, and the foe starts battles, escapes and resurrects as it likes.  `phase` is the
process: "open" in `run()`'s loop, "closing" after the logout, "gone".  The `about` and `number` of a game-end event are history:
the packet does not carry them and no action of the client reads them.  Likewise `hits` counts a battle's hits for
one property and the order of the blows.

**Battlefield.** A position counts units, `Unit` of them to a cell, since the code keeps it as a float and the map is
indexed with its integral part.  `Press` and `Release` are `key_callback`, `Move` the command, `Revised` the correction in
`do_move`, one axis at a time, and `Update` one iteration of the main loop over all players, `Game_map::update` included.
Any delta out of `Deltas` may be how far a player gets in one iteration.  `Quit` is every end of a client: its window is closed, it
is killed, or its connection is lost.  Any part of what it had sent, the logout at the end of it included, then becomes `stale`
and is handled some time later, before, among or after the requests of the next client of that name, which comes over a session of
its own; if the logout is lost, the player stays with its direction, and the next login finds it (session-service.cpp:78).  A leftover
request handled after that login, a logout among them, may be handled in any order with the new client's.  `inherited` is
history: whose direction was last set by a request of a client that has ended, or before its client ended.  Two clients that run under
one name at the same time are not modelled.

**ServerShutdown.** `main` is where the one thread is: calling `Server::instance`, constructing the server, in the loop's test,
in `poll`, in the rest of the iteration, returning, or at an end ("exited", "dead", "stuck").  A connection is "away", in the
system's "backlog", or a session that is "reading", "replying" or "idle" (in the map, but with nothing outstanding); `Connection`
shows that a server's session is always in one of these (`ServerAlternates`).  `Signal` may come between any two steps and is one
step, as a handler runs to its end before the interrupted code goes on.  Inserting into the map of sessions is two steps
(`BeginAccept`, `EndAccept`), because the handler may come in the middle and walk the map.  What C++ leaves undefined has these
outcomes: the handler does its work, missing the session that is being linked or not; it waits for ever for the mutex of a
log call it has interrupted (`InsideLogCall`); or the process dies or hangs (`Undefined`).  A signal that comes before `main`
has called `Server::instance(1438)` constructs the singleton with the default port, and `main` then gets that one.
`rounds` and `extra` are history: iterations and requests after the signal.

## 3. Bounds and instances

| Run | Module, cfg | Instance | Why it is enough |
|---|---|---|---|
| connection | MCConnection, Connection | 4 requests, the 2nd callback may throw, the 4th packet does not parse, both ends may go away; with fairness | four pipelined requests fill both queues beyond one entry, with a fault before, at and after each |
| connection_worker | Connection_worker | 2 requests, the 2nd throws | shortest counterexample |
| server_battle | MCGameServer, GameServer_battle | 2 players, 2 addresses, 3 births, 1 battle, strikes of 2, critical ones of 5, defense 1, health 2, 1 resurrection, 2 escapes | killing and non-killing blows, damage that exceeds the health left, reuse of memory, a revival, an escape before and after the end, by either player |
| server_battles | MCGameServer, GameServer_battles | 2 battles over 2 players, every hit kills, 1 resurrection, 1 escape; with fairness | one battle ends, or is left, in the tick of the other's hit; the dead player is revived before either has seen it |
| server_chat | MCGameServer, GameServer_chat | 2 players, 3 births, 2 broadcasts, 1 kit each, other events up to queue length 1; with fairness | a queue older and one younger than a broadcast, one of an absent player, a broadcast behind another event; kits bought and refused, their cures waiting behind other events |
| server_rivals | MCGameServer, GameServer_rivals | 1 battle, 3 births | shortest counterexample |
| game_loop | GameLoop, GameLoop | tick 4, interval 7, clock to 30, steps of 0 to 5 | steps longer than a tick, so that `Sleep` finds its deadline past, and short enough to skip; an interval that is no multiple of the tick; four hits |
| client | Client, Client | 2 battles, health 1, 1 kit, escape offered after 1 hit, frames while fewer than 3 requests are unanswered | a battle on each side or two of one, each of them won or left, with replies to two clicks outstanding |
| client_live | Client, Client_live | 2 battles, no kit, 1 resurrection, 2 requests; with fairness | a battle whose loser is revived, a second one that closes the view of the first |
| client_escape | Client, Client_escape | health 4, escape after 6 hits as in the code | six hits leave both alive |
| server_shutdown | ServerShutdown, ServerShutdown | 3 clients, 2 descriptors, 2 requests each; with fairness | one client more than descriptors; a request handled before, one read when the signal comes and one that must not be; any number of signals |
| battlefield | Battlefield, Battlefield | 1 player, map of 2 by 1 cells of 2 units, steps of 1 or 3 units, 2 requests and what one ended client left | steps shorter than a cell and longer than one, onto and beyond each border; two keys held with a release on its way; a killed client's player found by the next login, its leftovers arriving among new requests |

The `Max...` constants only bound how often the environment acts: requests, births, battles, broadcasts, heals,
escapes, the clock.  `MaxPending` bounds the requests a client has on their way when
it sends more.  They appear in guards of actions and nowhere else.  In Battlefield a client ends only when nothing of an earlier end is
left on its way (`stale[n] = <<>>` in `Quit`).  One player is enough in Battlefield, as players do not
meet: the proofs are for any number.  Names and
addresses are symmetric in the runs of safety properties; runs of liveness properties use no symmetry.  Deadlock is not
checked: with the bounds used up, or with both ends closed, nothing is left to do, and the real programs end as well.

## 4. What the runs check

*Connection.*  `AtMostOneInFlight`: no interleaving of scheduling, callbacks that schedule, completions and failures
has two reads or two writes of a session outstanding (session.h promises it; a second write would overwrite the buffer
being sent).  `FrontExists`: `front()` and `pop()` in handlers never meet an empty queue.  `ServerAlternates`: the server
holds either one read or one reply per client, so pipelined requests are handled one at a time.  `ChannelSpec`: the
connection refines `RpcChannel`, so each reply meets the callback of its own request.  `EveryRequestAnswered`: under
fairness every request is answered unless an end goes away, the server stops reading or an earlier callback has thrown.
`StopsOnlyByThrow`: while both ends are up, a queue that is not empty has an operation outstanding, with one exception: the
client's reads after a callback threw.  `WorkerKeepsWorking` is the same without the exception, as the comment in session.h has it.

*GameServer.*  `HealthIsTold`: the events are the whole story of a player's health.  The health-drop and cure events a player was
given and those that wait in its queue add up to exactly how its health differs from what it got without an event (what it was
created with, and resurrections, which tell nobody).  The property reads the events as they were queued, not what the
actions meant to say, so it catches a killing blow announced as more than was left, a hit announced once too often, not at all or
to the wrong player, a cure without a purchase, and a hit by a battle that is over or that points to memory of somebody else.
It is about players who have never logged out.  After a logout the code does not keep it: the queue survives the player
(session-service.cpp:30-48 never erases one), so the next player of that name is given the events of the earlier life, and a
battle that still points to the earlier one's memory tells the name of it, or of whoever is there now.  Other players whose
battles or memory are involved are not left out.  Two runs check it: hits, a revival and reused memory in
`server_battle`, kits in `server_chat`.  Hits and kits in one behaviour, and two battles that hit the same players, are in the theorem
only, as instances with these are too large.  `OneNormalEnd`: a battle is announced won at
most once and never after an escape.  `BroadcastsInOrder`: a queue
holds the broadcasts since it was created without gap, and continues what its player has been given.  `BattleEnds` and
`BroadcastsArrive` are the corresponding progress properties; `BattleEnds` includes battles whose loser is revived before the
battle has seen it dead.  `EveryHitHurts`: no health-drop of zero is announced.
`BattlesAreDuels`: every battle implements `Duel`, with the other battles, commands, logouts and reused memory around it: its
blows alternate, come once an interval, each costs the opponent something and the striker nothing, and what is over stays over.
It is `Fight(k)!Spec` for every battle id k, with the quantifier moved inside for TLC.

*GameLoop.*  `HitsKeepTheirDistance`: two hits are never closer than the interval in real time.  `NoSecondSkip`: as
`last_update` is read after the updates, an iteration can come too early to update, but never two in a row.
`MovesAtMostDouble`: such an iteration moves players for time that is counted again; the total is at most twice the time
that passed.  The first hit of a battle may come early: the first delta it is given started before the battle did.

*Client.*  `EscapeKnowsBattle`: the id sent with an escape was set by an earlier callback; it always names an existing battle
that this client started (`_battles.at` would throw in the server otherwise).  `BattlingIsReal` and `BattlingEnds`: while the
client shows a battle, that battle runs or something that closes the view is on its way, and it is closed in the end.
`LeavesOnlyItsOwnBattle` is the other direction: the view of a battle that runs is closed by no event of any other, unless the
client has started two battles; then the end of one closes the view of the other, as game-end does not say which it is about.
`OneQueryPending`: `schedule_continuous_query_event` has exactly one query out at any time.  `OnlyQueriesAfterLogout`: nothing
else is sent behind a logout, as any command creates the player anew.  `NeverTooHealthy` and `LoserIsTold` are about the
copy of the player, which `sync` replaces and events change: a drop or a cure that a sync already contained is counted
twice, so the copy may be too low by the drops, too high by the kits, and no more than that; a loser who has bought
nothing is always told that it lost.

*Battlefield.*  `EveryoneOnTheMap`: `Game_map::update` writes to the cell under a player without a check, and the correction in
`do_move` is enough for that.  `NobodyIsThrownBack`: beyond the far border a player is put to the start of the last cell, which
may be behind where it stood but is never a cell against its direction.  `StopsWhenReleased`: the server moves a player
until told to stop, and is told whenever no key is held, also for keys pressed before the login, and whatever leftovers of an earlier
client have been handled before a request of this one.  The exception is in the property: a player whose direction was last set for a client
that has ended moves on under the next client of that name, which has pressed nothing, until that one's first key (see
"Met on the way").

*ServerShutdown.*  `OneMoreRound`: wherever the signal comes, before the loop, in it or before the server exists, at most the
iteration that has begun is finished (`run` does not clear the flag).  `OneMoreRequest`: a session handles at most one request
after `do_close`, the one it was already reading, however many the client has sent ahead.  `ServesItsOwnPort`: a server constructed
by the signal on the default port is never the one the loop serves players on.  `ServerEnds`: with the thread going on, the process
ends after a signal, unless all descriptors are taken and a client waits: then every accept fails at once, its handler accepts
again, and `poll` does not return (`AcceptsForEver`); sessions are never erased, so their descriptors never come back.
`NeverGetsOneBack` is that last claim: from such a state no step of a client, a handler or a signal leads out.  A process
that hangs in the handler counts as ended: no later step of it matters.

Each module has one `TypeOK`; in `GameServer` it carries that health and money do not become negative and that "none" is
never left in a queue.

### Disagreements found

* **The reading worker stops.** session.h:10-12 says the workers keep working while something is pending.  Run
  `connection_worker`: a callback that throws a `runtime_error` is caught in `do_async_read` (session.cpp:85-87), the queue
  is not popped and no read started, and since the queue is not empty nothing ever starts one again; the session is not
  closed either, though the log line says so.  The client stays connected and frozen.  The client's key handlers throw on
  every error reply (main-window.cpp:58-62), and "speed-up" always gets one.
* **Battles outlive their players.** battle.h:27 says the pointers are the sender and the receiver.  Run `server_rivals`:
  `remove_player` destroys a player whose battle runs on; the next tick uses freed memory, or the player that took it.
* **Escaping after six hits.** docs/rules.md:7 lets each player escape after ten rounds of hits.  Run `client_escape`: the
  client offers it after six health-drop events on either player (application.cpp:255), whatever battle they come from, only the
  sender of a battle is offered it at all, and the server does not check.

### Met on the way, with no document to contradict

* A drop or cure is counted twice when a sync lies between the change and its event.  The winner of a battle whose copy has
  reached 0 that way is told it has lost (application.cpp:352).
* The query for events that is answered in the last poll issues a query behind the logout, and handling it creates the
  player again: the name stays in the game without a client.  A window closed while logging in, or a connection that
  is lost, sends no logout and leaves the player as well.
* A player left that way keeps its direction, and the server keeps moving it.  The next login of that name finds it
  (session-service.cpp:78) and nothing stops it: the client owns a player that runs on with no key held, until it presses one.
  Without the exclusion of `inherited`, `StopsWhenReleased` is violated.
* After a logout and a login a player is given the events of its earlier life, and battles of that life go on in its name.
* A game-end event does not say which battle ended; with two battles it closes the view of the one that still runs.
* SIGINT may hang the server: the handler logs, and the log's mutex may be held by the code it interrupted.
* A server out of descriptors does not leave `poll`: battles and players stand still, and SIGINT does not end it.
* Every frame sends a `sync`, answered or not; a connection that is lost is only logged, and the queue grows with every frame.
* docs/rules.md:11-12 wants players placed apart; the code draws a random cell.

## 5. Fairness

`Connection!FairSpec`: both processes call `poll()` in every iteration of their loops, so each kind of handler that is
ready runs (weak fairness), and the kernel moves data.  Requests, shutdown and the end of a process are not fair.
`GameServer!FairSpec`: the main loop ticks (weak fairness of `Tick` and of the update), and a client that keeps running queries
again as soon as it is answered (`schedule_continuous_query_event`), interleaved with other commands; strong fairness,
because the query is disabled during each tick.  `Attended` are the players whose clients keep running while they are logged in:
only their queries are fair and only they are promised their broadcasts.  In `server_chat` one of the two players is attended; the
other may stay logged in without a client, as after a lost connection.  No command a person triggers is fair.
`Client!FairSpec`: both processes go round their loops, so replies are received (`Poll`), requests served (`Serve`) and every
battle that runs is updated when its interval is over; each is enabled until it happens or the process has gone, so weak
fairness is enough.  Frames and buttons, the foe and the end of the process are not fair.
`ServerShutdown!FairSpec`: the one thread goes on whenever it can (weak fairness of `Main` as a whole, so the choice among
ready handlers is not fair).  Signals and clients are not fair; that a client sends at most `MaxRequests` requests is
an assumption `ServerEnds` needs, as `poll` runs handlers for as long as any is ready.

## 6. Proofs

TLAPS proves, for all values of the constants that satisfy the named assumptions, every type invariant, safety invariant
and action property that the runs check, and both refinements.  Each theorem names the definition the run checks; TLC has also
checked the inductive invariants on the instances above.

**`ConnectionProofs`**: `TypeOK`, `AtMostOneInFlight`, `FrontExists`, `ServerAlternates`, `StopsOnlyByThrow`, `ChannelSpec`.
* `Inv` says for each session that `reading` is at most 1, and positive only while `reads` is not empty (the same for writes),
  and for the server that exactly one of read and write is pending.  The handlers are composed of functions on the session record,
  so one lemma per function says what it preserves (`...OK`) and what it does to the members (`...Effect`), and the actions only
  combine them.
* `StopsOnlyByThrow` is inductive with `Inv`: a worker's queue and its operation change in the same function, except where
  `ClientReadThrows` leaves the queue.
* `ChannelSpec` needs what the bytes say.  `Requests` and `Replies` are the stretches of the two streams between the packets one
  end has begun to write and those the other has taken out of its buffer, wherever the kernel has cut them (`PieceMoves`: a piece that moves
  from one part to the next leaves the whole as it was).  `ChannelInv` says that they carry consecutive packets: from the last
  request handled to the last one begun, and from the last callback run to the last reply; that the queue of writes holds the last
  requests issued, in order (`WritesOK`); and that, while the client reads, the callbacks that wait are the next ones after those
  that have run (`ReadsOK`).  A throw or a failed read makes `ReadsOK` empty, and the client then never reads again; with the end
  of the process that reads a stream nothing is claimed of it any more.  So the line a handler takes is the packet of the callback at the front (`ReplyArrives`), and each step
  is `Issue`, `Handle` or `Answer` of `RpcChannel`, or a stutter.

**`GameServerProofs`**: `TypeOK`, `OneNormalEnd`, `EveryHitHurts`, `BroadcastsInOrder`, `BattlesAreDuels`, `HealthIsTold`.
`OneNormalEnd` is not inductive: it needs that a battle that has not ended has had no verdict (`Inv`).  The proofs hold whatever
address a new player is given, so they cover the reuse of memory.  The invariant `Promises` adds:
* `MadeInv`: whoever is alive was created with its numbers in the ranges, so its strike exceeds every defense; memory that never held a
  player is dead, so a dangling pointer strikes nobody alive with zero;
* `ApartInv`: no two names share an address, and so no battle is one of a player against itself, also when memory is reused;
* `InOrder` for each queue: the numbers of its broadcasts increase, begin behind the last one its owner has been given, and leave none
  out on the way to the last one said.
* The refinement of `Duel` is per battle: whatever happens elsewhere is a stutter or `Outside`, and the blow that `Hit` strikes is
  `Duel`'s because of `ApartInv`.
* `HealthIsTold` is not inductive, as it says nothing of players who are not there yet.  `ToldInv` has it for all who never left:
  the health is told while they are logged in, and nothing has been said of it before they are created.  `NamedInv` and `BodyInv` say that such
  a player's address holds a player of its name, and that no other living memory bears that name, so an event about it comes only from a hit on its
  own health.  What waits in a queue is a sum over it; `TotalAppended` and `TotalPopped` give what an event adds to it and
  takes from it, from the lemmas of `SumLemmas`.

**`GameLoopProofs`**: `TypeOK`, `NoSecondSkip`, `MovesAtMostDouble`, `HitsKeepTheirDistance`.  The invariant relates the
readings of the clock: `Waits` (what a battle has been told passed did pass since it hit), `Catches` (after a skip the sleep
reaches the next update) and `Moves` (the surplus of a skip is at most one tick, which the next update makes up for).

**`ClientProofs`**: `TypeOK`, `OnlyQueriesAfterLogout`, `OneQueryPending`, `EscapeKnowsBattle`, `LeavesOnlyItsOwnBattle`,
`BattlingIsReal`.
* `LoginInv` and `LogoutInv` say what may be on its way in each state: nothing but the login before it is answered, no second
  login, nothing but queries behind the logout; and that the server has the player while the client is logged in.
* `OneQueryPending` counts requests and replies; lemmas give how appending and taking the head change a count.
* `KnownInv`: every battle named by an escape, a reply or the state is one of this client's, and a game-end or an answer to an
  escape names one that is over.  `EscapeKnowsBattle` and `LeavesOnlyItsOwnBattle` follow.
* `BattlingIsReal` is not inductive, as the view opens when the reply comes, and the battle may be over by then: `ClosedInv` says the
  same of replies that will open a view, with what closes it behind them.

**`ClientHealthProofs`**: `NeverTooHealthy`, `LoserIsTold`.  What a message still to come does to the copy is its drop less its cure, and
`Ahead` sums that over everything behind a position in the replies and the events.  `Budget`: the sum is never less than what the kits
have healed would make up for; `Copies`: the copy, and each sync on its way, exceed the health by no more than the sum ahead of them;
`StaysDead`: without kits and resurrections the health plus what is ahead of a lost game-end is at most zero.  The facts about sums are
proved in `SumLemmas` from the least counterexample, as the induction theorems of the library are out of reach (below).

**`BattlefieldProofs`**: `TypeOK`, `EveryoneOnTheMap`, `StopsWhenReleased`, `NobodyIsThrownBack`, for any map, granularity and delta
(`MapAssumption`: sizes are positive).  The invariant adds `OnMap` (positions, not cells, are inside) and
`SteeredFor`: for a client that is logged in and holds no key, the last of its moves on their way is a stop or, if none is on its
way, its player stands unless its direction is inherited.  A leftover move or a logout that comes in between
only sets `inherited` or removes the player, and each of the client's own requests puts it right again.  That a coordinate inside lies in a cell, and that order of coordinates is order of cells,
are lemmas about integer division.

**`ServerShutdownProofs`**: `TypeOK`, `ServesItsOwnPort`, `OneMoreRound`, `OneMoreRequest`, `NeverGetsOneBack`.  `PortInv`: a server on the
default port comes with the flag set, so it is never served with; `RoundInv`: a process that has been signalled has the flag set or has
ended, and is out of the loop once an iteration has been finished since; `RequestInv`: a session that has handled one more
request is writing or idle with its flag cleared.  They are about any number of clients, descriptors, requests and signals.

Model-checked only: the liveness properties (`EveryRequestAnswered`, `BattleEnds`, `BroadcastsArrive`, `BattlingEnds`, `ServerEnds`), as
liveness under fairness is out of the prover's reach, and the three properties the code violates.

## 7. Not modelled

* Visibility (`can_see`) only filters the list a client shows.  Terrain effects and weather (docs/rules.md) are not
  implemented.  `_movement_velocity` is set and sent but never read: `do_move` goes one unit of the direction per second.
* The initial placement: a random cell, without a look at the other players (session-service.cpp:84).
* The refusals of `on_reading_packet` (wrong protocol, wrong password) change nothing and no client of the repository gets them;
  its replies are no events.  Buying what the store does not have is not offered by the client.
* Windows, drawing and the list of messages: display.  In `Client`, say and fuck, the lists of players and goods, the error replies
  that only show a message, and a login that fails to connect, which shows a message and stays "unlogged_in".
* The random numbers themselves, and rounding of floats beyond the truncation of a strike.
* What happens to battles of a client that has gone is in `GameServer`, not in `Client`.
* What the server does for players is not in `ServerShutdown`, which only counts requests and iterations.
* Chat room (used by neither program), item effects (not part of the build), JSON conversion, uuid.
* The vendored OpenGL loader in `third-party`.

## 8. Plan

1. Done: Session, Connection with RpcChannel; GameServer with Duel; GameLoop; Client; Battlefield; ServerShutdown; the proofs of
   types and clocks.
2. Done: the proofs of all safety properties and of both refinements.
3. What may follow: that the two queues `Client` takes for its connection are what `RpcChannel` allows, and that the server half of
   `Client` is `GameServer` seen by one player, which are argued in section 2 and not proved.
