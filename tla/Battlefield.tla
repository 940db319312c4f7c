---------------------------- MODULE Battlefield ----------------------------
(***************************************************************************)
(* The players on the map: the keys that steer them                        *)
(* (src/src/client/main-window.cpp), the move command                      *)
(* (server-command-executor.cpp), the movement in each iteration of the    *)
(* main loop (src/src/player.cpp) and the map drawn from it                *)
(* (src/src/game-map.h).                                                   *)
(*                                                                         *)
(* A position is in units, Unit of them to a side of a cell.  Requests of  *)
(* one connection are handled in the order they were sent (RpcChannel).  A *)
(* client that ends leaves its player behind, and in any order with those  *)
(* of the next client of that name the server handles what was still on    *)
(* its way.                                                                *)
(***************************************************************************)
EXTENDS Integers, Sequences, FiniteSets

CONSTANTS Names,         \* of players
          Height, Width, \* of the map, in cells
          Unit,          \* units to a cell
          Deltas,        \* how far a player may get in one iteration
          MaxPending     \* bound on the moves of one client on their way

ASSUME MapAssumption == {Height, Width, Unit} \subseteq Nat \ {0}

ASSUME MovementAssumption == Deltas \subseteq Nat /\ MaxPending \in Nat

VARIABLES position,  \* of the players the server has
          direction, \* their _move_direction
          map,       \* the cells of _game_map that show a player
          playing,   \* the clients that are logged in
          down,      \* the keys each of them holds
          requests,  \* moves on their way from each of them
          stale,     \* what is on its way from one that has ended
          inherited  \* whose direction was last set for a client that has ended

vars == <<position, direction, map, playing, down, requests, stale, inherited>>

Keys == {"W", "A", "S", "D"}
Still == <<0, 0>>
DirectionOf(key) ==
    [W |-> <<-1, 0>>, A |-> <<0, -1>>, S |-> <<1, 0>>, D |-> <<0, 1>>][key]

Steps == {Still} \cup {DirectionOf(key) : key \in Keys}

\* A move carries a direction, a logout none.
Request(name, dir) == [name |-> name, dir |-> dir]
Requests == [name : {"move", "logout"}, dir : Steps]

Axes == 1..2
Size == <<Height, Width>>

\* Converting a coordinate to an index cuts off the fraction.
Cell(p) == [a \in Axes |-> p[a] \div Unit]

----------------------------------------------------------------------------
Init ==
    /\ position = [n \in {} |-> Still]
    /\ direction = [n \in {} |-> Still]
    /\ map = {}
    /\ playing = {}
    /\ down = [n \in Names |-> {}]
    /\ requests = [n \in Names |-> <<>>]
    /\ stale = [n \in Names |-> <<>>]
    /\ inherited = {}

(***************************************************************************)
(* A client: Main_window::key_callback, login and the end of its process.  *)
(***************************************************************************)
Send(n, request) ==
    /\ Len(requests[n]) < MaxPending
    /\ requests' = [requests EXCEPT ![n] = Append(@, request)]

\* A key repeats while it is held.  Keys do nothing before the login.
Press(n, key) ==
    /\ down' = [down EXCEPT ![n] = @ \cup {key}]
    /\ IF n \in playing THEN Send(n, Request("move", DirectionOf(key))) ELSE UNCHANGED requests
    /\ UNCHANGED <<position, direction, map, playing, stale, inherited>>

\* Mutant: a key released while another one is held does not stop the player.
ReleaseLastOnly(n, key) ==
    /\ key \in down[n]
    /\ down' = [down EXCEPT ![n] = @ \ {key}]
    /\ IF n \in playing /\ Cardinality(down[n]) # 1
       THEN Send(n, Request("move", Still)) ELSE UNCHANGED requests
    /\ UNCHANGED <<position, direction, map, playing, stale, inherited>>

Release(n, key) ==
    /\ key \in down[n]
    /\ down' = [down EXCEPT ![n] = @ \ {key}]
    /\ IF n \in playing THEN Send(n, Request("move", Still)) ELSE UNCHANGED requests
    /\ UNCHANGED <<position, direction, map, playing, stale, inherited>>

\* The login has been answered: the player exists by then, whoever left it there.
LoggedIn(n) ==
    /\ n \in DOMAIN position \ playing
    /\ playing' = playing \cup {n}
    /\ UNCHANGED <<position, direction, map, down, requests, stale, inherited>>

\* The process ends: its window is closed, it is killed or its connection lost.
\* A logout is sent at most, and how much of it all gets to the server is open.
\* Nothing of an earlier end is on its way any more, a bound of the model.
Quit(n) ==
    /\ n \in playing
    /\ stale[n] = <<>>
    /\ LET sent == Append(requests[n], Request("logout", Still))
       IN  \E length \in 0..Len(sent) :
              stale' = [stale EXCEPT ![n] = SubSeq(sent, 1, length)]
    /\ requests' = [requests EXCEPT ![n] = <<>>]
    /\ playing' = playing \ {n}
    /\ down' = [down EXCEPT ![n] = {}]
    /\ inherited' = inherited \cup {n}
    /\ UNCHANGED <<position, direction, map>>

----------------------------------------------------------------------------
(***************************************************************************)
(* The server.                                                             *)
(***************************************************************************)
\* A player that is missing is created at a random cell.
Entered(n) ==
    IF n \in DOMAIN position THEN {position}
    ELSE {[m \in DOMAIN position \cup {n} |->
              IF m = n THEN <<x * Unit, y * Unit>> ELSE position[m]] :
            x \in 0..(Height - 1), y \in 0..(Width - 1)}

Heading(n, dir) ==
    [m \in DOMAIN direction \cup {n} |-> IF m = n THEN dir ELSE direction[m]]

\* The first command of any other kind from n, or the first since a logout.
Enter(n) ==
    /\ n \notin DOMAIN position
    /\ position' \in Entered(n)
    /\ direction' = Heading(n, Still)
    /\ inherited' = inherited \ {n}
    /\ UNCHANGED <<map, playing, down, requests, stale>>

\* A request arrives from a client that runs.
Arrives(n, request) ==
    /\ requests[n] # <<>>
    /\ request = Head(requests[n])
    /\ requests' = [requests EXCEPT ![n] = Tail(@)]
    /\ inherited' = inherited \ {n}
    /\ UNCHANGED stale

\* A request arrives from a client that has ended.
ArrivesLate(n, request) ==
    /\ stale[n] # <<>>
    /\ request = Head(stale[n])
    /\ stale' = [stale EXCEPT ![n] = Tail(@)]
    /\ inherited' = inherited \cup {n}
    /\ UNCHANGED requests

\* A move finds its player, or creates it like any command.
Move(n, dir) ==
    /\ Arrives(n, Request("move", dir)) \/ ArrivesLate(n, Request("move", dir))
    /\ position' \in Entered(n)
    /\ direction' = Heading(n, dir)
    /\ UNCHANGED <<map, playing, down>>

Logout(n) ==
    /\ ArrivesLate(n, Request("logout", Still))
    /\ position' = [m \in DOMAIN position \ {n} |-> position[m]]
    /\ direction' = [m \in DOMAIN direction \ {n} |-> direction[m]]
    /\ UNCHANGED <<map, playing, down>>

\* Mutant: the far border itself counts as inside.
RevisedOffByOne(a, q) ==
    IF q < 0 THEN 0
    ELSE IF q > Size[a] * Unit THEN (Size[a] - 1) * Unit
    ELSE q

\* Mutant: a player beyond the far border is put back by a cell more.
RevisedTooFar(a, q) ==
    IF q < 0 THEN 0
    ELSE IF q >= Size[a] * Unit /\ Size[a] > 1 THEN (Size[a] - 2) * Unit
    ELSE IF q >= Size[a] * Unit THEN 0
    ELSE q

\* Mutant: the near border is not checked.
RevisedFarOnly(a, q) ==
    IF q >= Size[a] * Unit THEN (Size[a] - 1) * Unit ELSE q

\* Beyond the far border a player is put back to the beginning of the last cell.
Revised(a, q) ==
    IF q < 0 THEN 0
    ELSE IF q >= Size[a] * Unit THEN (Size[a] - 1) * Unit
    ELSE q

DoMove(p, dir, delta) == [a \in Axes |-> Revised(a, p[a] + delta * dir[a])]

\* One iteration of the main loop: every player moves, the map is drawn anew.
Update ==
    /\ \E delta \in Deltas :
          position' = [n \in DOMAIN position |->
                          DoMove(position[n], direction[n], delta)]
    /\ map' = {Cell(position'[n]) : n \in DOMAIN position}
    /\ UNCHANGED <<direction, playing, down, requests, stale, inherited>>

Next ==
    \/ \E n \in Names :
          \/ LoggedIn(n) \/ Quit(n) \/ Enter(n) \/ Logout(n)
          \/ \E key \in Keys : Press(n, key) \/ Release(n, key)
          \/ \E dir \in Steps : Move(n, dir)
    \/ Update

Spec == Init /\ [][Next]_vars

----------------------------------------------------------------------------
(***************************************************************************)
(* Properties.                                                             *)
(***************************************************************************)
TypeOK ==
    /\ DOMAIN position \subseteq Names
    /\ DOMAIN direction = DOMAIN position
    /\ \A n \in DOMAIN position :
          /\ position[n] \in [Axes -> Nat]
          /\ direction[n] \in Steps
    /\ playing \subseteq Names
    /\ down \in [Names -> SUBSET Keys]
    /\ requests \in [Names -> Seq(Requests)]
    /\ stale \in [Names -> Seq(Requests)]
    /\ inherited \subseteq Names

\* However far one iteration takes it, a player stands in a cell of the map:
\* Game_map::update writes to that cell without a check.
EveryoneOnTheMap ==
    \A n \in DOMAIN position : \A a \in Axes :
        Cell(position[n])[a] \in 0..(Size[a] - 1)

\* The correction at the border may put a player back within its cell but never
\* moves it to a cell that lies against its direction, nor sideways.
NobodyIsThrownBack ==
    [][\A n \in DOMAIN position \cap DOMAIN position' : \A a \in Axes :
          LET from == Cell(position[n])[a]
              to == Cell(position'[n])[a]
          IN  /\ direction[n][a] >= 0 => to >= from
              /\ direction[n][a] <= 0 => to <= from]_vars

\* A player whose client holds no key comes to a stop: when what the client has
\* sent has been handled, the player stands, whatever was pressed, repeated and
\* released in whatever order, before and after the login, and whatever a client
\* of that name left behind, unless the direction was last set for that one: then
\* the player goes on until the next key, as nothing stops it at a login.
StopsWhenReleased ==
    \A n \in playing \cap DOMAIN position :
        down[n] = {} /\ requests[n] = <<>> /\ n \notin inherited => direction[n] = Still
=============================================================================
