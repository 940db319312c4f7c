----------------------------- MODULE GameServer -----------------------------
(***************************************************************************)
(* The game state of the server: the players, the battles between them and *)
(* the events queued for them (src/src/server/session-service.cpp,         *)
(* server-command-executor.cpp, server.cpp, src/src/battle.cpp and the     *)
(* parts of src/src/player.cpp they use).                                  *)
(*                                                                         *)
(* Server::run_main_game_loop polls for commands and then updates every    *)
(* battle in turn, all on one thread: a command is one step, and so is one *)
(* battle's update.  A battle keeps raw pointers to its two players, so    *)
(* the players' addresses are part of the state.                           *)
(***************************************************************************)
EXTENDS Integers, Sequences, FiniteSets, Sums

CONSTANTS Names,         \* of players
          Attended,      \* those whose client keeps running while logged in
          Addr, None,    \* where a Player may be allocated; the null pointer
          StartHealth,   \* what health a new player may draw
          Strike,        \* the ends of the range a player's strikes come from
          Defense,       \* what is taken off a strike
          CriticalBuff,  \* what a critical strike adds, in halves of the strike
          ResurrectHeal, \* what resurrect may heal
          KitHeal, Price, StartMoney,  \* of a First aid kit
          Interval,      \* ticks between two hits of a battle
          MaxBirths, MaxBattles, MaxSays, MaxHeals, MaxEscapes, MaxQueue
                         \* bounds on what the environment does

ASSUME PointersAssumption == None \notin Addr /\ Names # {}

ASSUME ClientsAssumption == Attended \subseteq Names

ASSUME NumbersAssumption ==
    /\ StartHealth \subseteq Nat \ {0}
    /\ Strike \subseteq Nat /\ Defense \subseteq Nat /\ CriticalBuff \in Nat
    /\ \A s \in Strike, d \in Defense : d < s
    /\ ResurrectHeal \subseteq Nat
    /\ {KitHeal, Price, StartMoney} \subseteq Nat
    /\ Interval \in Nat \ {0}

ASSUME BoundsAssumption ==
    {MaxBirths, MaxBattles, MaxSays, MaxHeals, MaxEscapes, MaxQueue} \subseteq Nat

VARIABLES players,  \* _players: the address of each player, None if absent
          heap,     \* the Player at each address, also after it was freed
          battles,  \* _battles: never erased, so battle id is at index id + 1
          events,   \* _events: a queue for every name that ever needed one
          cur,      \* the battle being updated; 0 while polling
          status,   \* "running", or "crashed" by a dangling pointer
          births, said, heals,  \* how often: player created, say, resurrect
          heard,    \* the last broadcast each player has been given
          shown,    \* by how much its health changes in the events it was given
          left      \* who has logged out, be it long ago

vars == <<players, heap, battles, events, cur, status, births, said, heals,
          heard, shown, left>>

\* What has been told so far is read by the properties only.
history == <<heard, shown, left>>

----------------------------------------------------------------------------
(***************************************************************************)
(* Players.                                                                *)
(***************************************************************************)
\* strikes is _damage_range; untold is the health that came without an event.
NewPlayer(n, h, range, defense) ==
    [name |-> n, health |-> h, money |-> StartMoney,
     strikes |-> range, defense |-> defense, untold |-> h]

\* Two draws, the smaller one first.
Ranges == {r \in Strike \X Strike : r[1] <= r[2]}

Heal(p, delta) == [p EXCEPT !.health = @ + delta]

\* resurrect heals like a kit, but tells only that it was done, not by how much.
HealUntold(p, delta) == [Heal(p, delta) EXCEPT !.untold = @ + delta]

CostMoney(p) == [p EXCEPT !.money = @ - Price]

\* Mutant: the strike is multiplied by what a critical one adds.
HitOneExtraOnly(strike, critical) ==
    IF critical THEN (strike * CriticalBuff) \div 2 ELSE 0

\* hit_one: a float, truncated.
HitOne(strike, critical) ==
    IF critical THEN (strike * (2 + CriticalBuff)) \div 2 ELSE strike

\* std::max(hit_one() - target._defense, 0)
Reduced(hit, defense) == IF defense < hit THEN hit - defense ELSE 0

\* What damage_to may return.
DamageTo(p, target) ==
    {Reduced(HitOne(s, critical), target.defense) :
        s \in p.strikes[1]..p.strikes[2], critical \in BOOLEAN}

\* take_damage returns the health that was really lost.
Drop(p, damage) == IF damage < p.health THEN damage ELSE p.health

TakeDamage(p, damage) == [p EXCEPT !.health = @ - Drop(p, damage)]

Dangling(a) == \A n \in Names : players[n] # a

\* handle_command creates the player that sends a command if it is unknown, at
\* any address that is free, whatever still points there.
Entered(n) ==
    IF players[n] # None
    THEN {[players |-> players, heap |-> heap, births |-> births]}
    ELSE {[players |-> [players EXCEPT ![n] = a],
           heap    |-> [heap EXCEPT ![a] = NewPlayer(n, h, range, defense)],
           births  |-> births + 1] :
             a \in {x \in Addr : Dangling(x) /\ births < MaxBirths},
             h \in StartHealth, range \in Ranges, defense \in Defense}

----------------------------------------------------------------------------
(***************************************************************************)
(* Event queues.                                                           *)
(***************************************************************************)
Event(kind, about, number) == [kind |-> kind, about |-> about, number |-> number]

\* Mutant: the damage is announced, not the health lost.
HealthDropOfDamage(p, damage) == Event("health-drop", p.name, damage)

\* What both players are told of a hit, of player p as it was before.
HealthDrop(p, damage) == Event("health-drop", p.name, Drop(p, damage))

Queue(n) == IF n \in DOMAIN events THEN events[n] ELSE <<>>

\* push_event creates the queue if there is none.
Push(ev, n, e) ==
    [m \in DOMAIN ev \cup {n} |->
        IF m # n THEN ev[m]
        ELSE IF n \in DOMAIN ev THEN Append(ev[n], e) ELSE <<e>>]

\* Mutant: only the players who are logged in are told.
PushPresent(e) ==
    [m \in DOMAIN events |-> IF players[m] # None THEN Append(events[m], e)
                                                 ELSE events[m]]

\* push_event_all reaches the queues that exist, whoever is logged in.
PushAll(e) == [m \in DOMAIN events |-> Append(events[m], e)]

----------------------------------------------------------------------------
(***************************************************************************)
(* Battles.  turn is _turn modulo 2, since the ticks since the last hit;   *)
(* sender and receiver record who the pointers were taken from, verdicts   *)
(* what stop() was called with.                                            *)
(***************************************************************************)
NewBattle(ps, from, target) ==
    [players |-> <<ps[from], ps[target]>>, ended |-> FALSE, turn |-> 0,
     since |-> 0, sender |-> from, receiver |-> target, verdicts |-> <<>>]

\* Mutant: _ended is not set when the battle ends normally.
StoppedOnlyByEscape(b, cause) ==
    [b EXCEPT !.ended = @ \/ cause = "escaping", !.verdicts = Append(@, cause)]

\* Battle::stop: _ended is set, whether or not it was set before.
Stopped(b, cause) ==
    [b EXCEPT !.ended = TRUE, !.verdicts = Append(@, cause)]

\* What stop(normal) tells the two players.
NormalVerdict(ev, p0, p1) ==
    Push(Push(ev, p0.name, Event("game-end", p0.name, 0)),
         p1.name,
         Event("lost", IF p0.health = 0 THEN p0.name ELSE p1.name, 0))

EscapeVerdict(ev, p1) == Push(ev, p1.name, Event("escaped", p1.name, 0))

----------------------------------------------------------------------------
Init ==
    /\ players = [n \in Names |-> None]
    /\ heap = [a \in Addr |-> NewPlayer(CHOOSE n \in Names : TRUE, 0, <<0, 0>>, 0)]
    /\ battles = <<>>
    /\ events = [n \in {} |-> <<>>]
    /\ cur = 0
    /\ status = "running"
    /\ births = 0 /\ said = 0 /\ heals = 0
    /\ heard = [n \in Names |-> 0]
    /\ shown = [n \in Names |-> 0]
    /\ left = {}

(***************************************************************************)
(* Commands, handled in io_context::poll() between two ticks.              *)
(***************************************************************************)
Polling == cur = 0 /\ status = "running"

Becomes(w) == players' = w.players /\ births' = w.births

\* login, sync, list-players, list-store-items, get-game-map and unrecognized
\* commands change nothing once the player exists.
Lookup(n) ==
    /\ Polling
    /\ \E w \in Entered(n) : Becomes(w) /\ heap' = w.heap
    /\ UNCHANGED <<battles, events, cur, status, said, heals, history>>

\* remove_player frees the object; its memory, its battles and its events stay.
Logout(n) ==
    /\ Polling
    /\ \E w \in Entered(n) :
          /\ players' = [w.players EXCEPT ![n] = None]
          /\ births' = w.births
          /\ heap' = w.heap
    /\ left' = left \cup {n}
    /\ UNCHANGED <<battles, events, cur, status, said, heals, heard, shown>>

StartBattle(n, target) ==
    /\ Polling
    /\ Len(battles) < MaxBattles
    /\ target # n
    /\ \E w \in Entered(n) :
          /\ w.players[target] # None
          /\ battles' = Append(battles, NewBattle(w.players, n, target))
          /\ Becomes(w) /\ heap' = w.heap
    /\ events' = Push(events, target, Event("battle", n, 0))
    /\ UNCHANGED <<cur, status, said, heals, history>>

\* The "error" replies: battling oneself, or a player who has left.
RefuseBattle(n, target) ==
    /\ Polling
    /\ \E w \in Entered(n) :
          /\ target = n \/ w.players[target] = None
          /\ Becomes(w) /\ heap' = w.heap
    /\ UNCHANGED <<battles, events, cur, status, said, heals, history>>

\* A First aid kit, the one item of the store.
Buy(n) ==
    /\ Polling
    /\ \E w \in Entered(n) :
          /\ w.heap[w.players[n]].money >= Price
          /\ heap' = [w.heap EXCEPT ![w.players[n]] = Heal(CostMoney(@), KitHeal)]
          /\ Becomes(w)
    /\ events' = Push(events, n, Event("cure", n, KitHeal))
    /\ UNCHANGED <<battles, cur, status, said, heals, history>>

\* Mutant: the cure is announced before the money is looked at.
CannotAffordButTells(n) ==
    /\ Polling
    /\ \E w \in Entered(n) :
          /\ w.heap[w.players[n]].money < Price
          /\ Becomes(w) /\ heap' = w.heap
    /\ events' = Push(events, n, Event("cure", n, KitHeal))
    /\ UNCHANGED <<battles, cur, status, said, heals, history>>

CannotAfford(n) ==
    /\ Polling
    /\ \E w \in Entered(n) :
          /\ w.heap[w.players[n]].money < Price
          /\ Becomes(w) /\ heap' = w.heap
    /\ UNCHANGED <<battles, events, cur, status, said, heals, history>>

\* By how much event e changes the health of player n.
Effect(e, n) ==
    IF e.about # n THEN 0
    ELSE IF e.kind = "health-drop" THEN 0 - e.number
    ELSE IF e.kind = "cure" THEN e.number
    ELSE 0

\* Player n is given event e.
Given(n, e) ==
    /\ heard' = IF e.kind = "broadcast" THEN [heard EXCEPT ![n] = e.number] ELSE heard
    /\ shown' = [shown EXCEPT ![n] = @ + Effect(e, n)]

\* Mutant: the "none" event is left in the queue.
QueryEventLeavesNone(n) ==
    /\ Polling
    /\ \E w \in Entered(n) : Becomes(w) /\ heap' = w.heap
    /\ events' = IF Queue(n) = <<>> THEN Push(events, n, Event("none", n, 0))
                                   ELSE [events EXCEPT ![n] = Tail(@)]
    /\ UNCHANGED <<battles, cur, status, said, heals, history>>

\* Mutant: front() without pop().
QueryEventPeeks(n) ==
    /\ Polling
    /\ \E w \in Entered(n) : Becomes(w) /\ heap' = w.heap
    /\ events' = [m \in DOMAIN events \cup {n} |-> Queue(m)]
    /\ IF Queue(n) = <<>> THEN UNCHANGED <<heard, shown>> ELSE Given(n, Head(Queue(n)))
    /\ UNCHANGED <<battles, cur, status, said, heals, left>>

\* pop_event moves the oldest event to the reply.  An empty queue is first
\* given a "none" event, which is popped at once; the queue exists from then.
QueryEvent(n) ==
    /\ Polling
    /\ \E w \in Entered(n) : Becomes(w) /\ heap' = w.heap
    /\ \/ /\ Queue(n) = <<>>
          /\ events' = [m \in DOMAIN events \cup {n} |-> Queue(m)]
          /\ UNCHANGED <<heard, shown>>
       \/ /\ Queue(n) # <<>>
          /\ events' = [events EXCEPT ![n] = Tail(@)]
          /\ Given(n, Head(Queue(n)))
    /\ UNCHANGED <<battles, cur, status, said, heals, left>>

Say(n) ==
    /\ Polling
    /\ said < MaxSays
    /\ said' = said + 1
    /\ events' = PushAll(Event("broadcast", n, said + 1))
    /\ \E w \in Entered(n) : Becomes(w) /\ heap' = w.heap
    /\ UNCHANGED <<battles, cur, status, heals, history>>

\* The "fuck" command: an event for every other player who is logged in.
Fuck(n) ==
    /\ Polling
    /\ \A m \in DOMAIN events : Len(events[m]) < MaxQueue
    /\ LET others == {m \in Names \ {n} : players[m] # None}
           e == Event("fuck", n, 0)
       IN  events' = [m \in DOMAIN events \cup others |->
                         IF m \in others THEN Append(Queue(m), e) ELSE events[m]]
    /\ \E w \in Entered(n) : Becomes(w) /\ heap' = w.heap
    /\ UNCHANGED <<battles, cur, status, said, heals, history>>

\* resurrect heals whether or not the player is dead: the client decides on a
\* health that may be stale.
Resurrect(n) ==
    /\ Polling
    /\ heals < MaxHeals
    /\ heals' = heals + 1
    /\ \E w \in Entered(n), delta \in ResurrectHeal :
          /\ heap' = [w.heap EXCEPT ![w.players[n]] = HealUntold(@, delta)]
          /\ Becomes(w)
    /\ UNCHANGED <<battles, events, cur, status, said, history>>

\* The executor looks at the number of the battle only: whoever sends it, once
\* more or when the battle has ended, logged in or created by the command itself,
\* it is the player behind the second pointer who is told.
Escape(n, k) ==
    /\ Polling
    /\ Len(battles[k].verdicts) < MaxEscapes
    /\ \E w \in Entered(n) :
          /\ Becomes(w) /\ heap' = w.heap
          /\ events' = EscapeVerdict(events, w.heap[battles[k].players[2]])
    /\ battles' = [battles EXCEPT ![k] = Stopped(@, "escaping")]
    /\ UNCHANGED <<cur, status, said, heals, history>>

----------------------------------------------------------------------------
(***************************************************************************)
(* One tick: the loop updates every battle, oldest first.                  *)
(***************************************************************************)
Tick ==
    /\ Polling
    /\ battles # <<>>
    /\ cur' = 1
    /\ UNCHANGED <<players, heap, battles, events, status, births, said, heals, history>>

Updating(k) == cur = k /\ status = "running"

Advance == cur' = IF cur < Len(battles) THEN cur + 1 ELSE 0

\* Ended battles do nothing; a running one waits until the interval is over.
SkipBattle(k) ==
    /\ Updating(k)
    /\ battles[k].ended
    /\ Advance
    /\ UNCHANGED <<players, heap, battles, events, status, births, said, heals, history>>

\* Mutant: update does not look at _ended.
DueAlthoughEnded(b) == b.since + 1 >= Interval

\* Mutant: what has exactly waited the interval is not due yet.
DueLate(b) == ~b.ended /\ b.since + 1 > Interval

Due(b) == ~b.ended /\ b.since + 1 >= Interval

\* Mutant: the time is reset before it is compared.
WaitBattleForgets(k) ==
    /\ Updating(k)
    /\ ~battles[k].ended /\ ~Due(battles[k])
    /\ Advance
    /\ UNCHANGED <<players, heap, battles, events, status, births, said, heals, history>>

WaitBattle(k) ==
    /\ Updating(k)
    /\ ~battles[k].ended /\ ~Due(battles[k])
    /\ battles' = [battles EXCEPT ![k].since = @ + 1]
    /\ Advance
    /\ UNCHANGED <<players, heap, events, status, births, said, heals, history>>

BothAlive(b) == heap[b.players[1]].health # 0 /\ heap[b.players[2]].health # 0

Hit(k) ==
    LET b == battles[k]
        attacker == b.players[b.turn + 1]
        target == b.players[2 - b.turn]
    IN  /\ Updating(k)
        /\ Due(b)
        /\ BothAlive(b)
        /\ \E d \in DamageTo(heap[attacker], heap[target]) :
              LET drop == HealthDrop(heap[target], d)
              IN  /\ heap' = [heap EXCEPT ![target] = TakeDamage(@, d)]
                  /\ events' = Push(Push(events, heap[attacker].name, drop),
                                    heap[target].name, drop)
        /\ battles' = [battles EXCEPT ![k].since = 0, ![k].turn = 1 - @]
        /\ Advance
        /\ UNCHANGED <<players, status, births, said, heals, history>>

EndBattle(k) ==
    LET b == battles[k]
    IN  /\ Updating(k)
        /\ Due(b)
        /\ ~BothAlive(b)
        /\ events' = NormalVerdict(events, heap[b.players[1]], heap[b.players[2]])
        /\ battles' = [battles EXCEPT ![k] = Stopped([@ EXCEPT !.since = 0], "normal")]
        /\ Advance
        /\ UNCHANGED <<players, heap, status, births, said, heals, history>>

\* Using a player after its object was freed is undefined.  What the build does
\* is to read and write the memory as it is now, above, or to end here.
Crash(k) ==
    LET b == battles[k]
    IN  /\ \/ Updating(k) /\ Due(b) /\ \E i \in 1..2 : Dangling(b.players[i])
           \/ /\ Polling
              /\ Len(b.verdicts) < MaxEscapes
              /\ \E n \in Names : \E w \in Entered(n) :
                    \A m \in Names : w.players[m] # b.players[2]
        /\ status' = "crashed"
        /\ UNCHANGED <<players, heap, battles, events, cur, births, said, heals,
                       history>>

UpdateBattle == \E k \in DOMAIN battles :
                   SkipBattle(k) \/ WaitBattle(k) \/ Hit(k) \/ EndBattle(k)

Next ==
    \/ \E n \in Names :
          \/ Lookup(n)
          \/ Logout(n)
          \/ Buy(n)
          \/ CannotAfford(n)
          \/ QueryEvent(n)
          \/ Say(n)
          \/ Fuck(n)
          \/ Resurrect(n)
          \/ \E target \in Names : StartBattle(n, target) \/ RefuseBattle(n, target)
    \/ \E k \in DOMAIN battles : Crash(k) \/ \E n \in Names : Escape(n, k)
    \/ Tick
    \/ UpdateBattle

Spec == Init /\ [][Next]_vars

\* The main loop never stops ticking, and a client that runs queries for events
\* again as soon as it has been answered (schedule_continuous_query_event).
Fairness ==
    /\ WF_vars(Tick)
    /\ WF_vars(UpdateBattle)
    /\ \A n \in Attended : SF_vars(QueryEvent(n) /\ players[n] # None)

FairSpec == Spec /\ Fairness

----------------------------------------------------------------------------
(***************************************************************************)
(* Properties.                                                             *)
(***************************************************************************)
EventType ==
    [kind : {"battle", "broadcast", "cure", "escaped", "fuck", "game-end",
             "health-drop", "lost"},
     about : Names, number : Nat]

PlayerType ==
    [name : Names, health : Nat, money : Nat, strikes : Nat \X Nat,
     defense : Nat, untold : Nat]

BattleType ==
    [players : Seq(Addr), ended : BOOLEAN, turn : 0..1, since : 0..(Interval - 1),
     sender : Names, receiver : Names, verdicts : Seq({"normal", "escaping"})]

\* Health and money never become negative, a battle never waits longer than
\* its interval, and a "none" event never stays in a queue, where it would be
\* delivered late and in front of a real one.
TypeOK ==
    /\ players \in [Names -> Addr \cup {None}]
    /\ heap \in [Addr -> PlayerType]
    /\ battles \in Seq(BattleType)
    /\ \A k \in DOMAIN battles : Len(battles[k].players) = 2
    /\ DOMAIN events \subseteq Names
    /\ \A n \in DOMAIN events : events[n] \in Seq(EventType)
    /\ cur \in 0..Len(battles)
    /\ status \in {"running", "crashed"}
    /\ births \in Nat /\ said \in Nat /\ heals \in Nat
    /\ heard \in [Names -> Nat]
    /\ shown \in [Names -> Int]
    /\ left \subseteq Names

\* What player n will be shown when it has been given all that waits for it.
Pending(n) == Sum([i \in DOMAIN Queue(n) |-> Effect(Queue(n)[i], n)], Len(Queue(n)))

\* The events are the whole story of a player's health: what it has been shown
\* and what waits in its queue is exactly what its health differs by from what
\* it got without an event.  No killing blow is told as more than was left
\* (Battle::update announces what take_damage returns), no hit is told twice,
\* late or to others only, and no battle that is over or has been taken over by
\* reused memory hits it silently.  A player who has logged out and in again is
\* left out: battles may still hit the memory of its earlier life and tell it so.
HealthIsTold ==
    \A n \in Names \ left :
        players[n] # None =>
            heap[players[n]].health = heap[players[n]].untold + shown[n] + Pending(n)

\* Nobody is told of a hit that did nothing: a hit comes only when both players
\* are alive, and whatever is drawn for a strike, a critical one or not, is more
\* than any defense (player.cpp:46-47 would make it zero).
EveryHitHurts ==
    \A n \in DOMAIN events : \A i \in DOMAIN events[n] :
        events[n][i].kind = "health-drop" => events[n][i].number > 0

\* While player n has a queue, the broadcasts in it are the latest ones, in the
\* order they were said, and together with those n has been given since its
\* first one they miss none: logging out and in, other players' events and the
\* creation of queues on demand lose and reorder nothing.
BroadcastsInOrder ==
    \A n \in DOMAIN events :
        LET waiting == {i \in DOMAIN events[n] : events[n][i].kind = "broadcast"}
            number(i) == events[n][i].number
        IN  /\ \A i, j \in waiting : i < j => number(i) < number(j)
            /\ \A i \in waiting : heard[n] < number(i) /\ number(i) <= said
            /\ \A x \in 1..said :
                  \/ heard[n] > 0 /\ heard[n] < x
                  \/ \E i \in waiting : number(i) < x
                  => \E i \in waiting : number(i) = x

\* A battle comes to its normal end at most once and never after an escape,
\* however late an escape arrives: game-end is sent once, and who lost is never
\* announced for a battle that has been left.
OneNormalEnd ==
    \A k \in DOMAIN battles :
        \A i \in DOMAIN battles[k].verdicts :
            battles[k].verdicts[i] = "normal" => i = 1

\* Battle k as its two players see it.
HasBattle(k) == k \in DOMAIN battles

DuelStage(k) ==
    IF ~HasBattle(k) THEN "none" ELSE IF battles[k].ended THEN "over" ELSE "running"

DuelHealth(k) ==
    [f \in 1..2 |-> IF HasBattle(k) THEN heap[battles[k].players[f]].health ELSE 0]

Fight(k) == INSTANCE Duel WITH
    stage  <- DuelStage(k),
    turn   <- IF HasBattle(k) THEN battles[k].turn ELSE 0,
    waited <- IF HasBattle(k) THEN battles[k].since ELSE 0,
    health <- DuelHealth(k)

\* Every battle is a duel, whatever commands come between the ticks, whoever
\* leaves, and whatever other battles its players are in: the blows alternate,
\* come once an interval and hit the opponent only, and what is over stays over.
\* (This is \A k \in 1..MaxBattles : Fight(k)!Spec with the quantifier inside.)
BattlesAreDuels ==
    /\ \A k \in 1..MaxBattles : Fight(k)!Init
    /\ [][\A k \in 1..MaxBattles : [Fight(k)!Next]_(Fight(k)!duel)]_vars

\* "First sender, second receiver" (battle.h:27): as long as a battle runs, its
\* pointers are those of the player who started it and the one challenged.
SenderAndReceiverStay ==
    \A k \in DOMAIN battles :
        LET b == battles[k]
        IN  ~b.ended => /\ players[b.sender] = b.players[1]
                        /\ players[b.receiver] = b.players[2]

\* With both main loops running and heals not going on for ever, every battle
\* ends: a player dies, or the sender escapes.
BattleEnds ==
    \A k \in 1..MaxBattles :
        Len(battles) >= k ~> \/ Len(battles) >= k /\ battles[k].ended
                             \/ status = "crashed"

\* A broadcast that waits in the queue of a player is given to it, if it stays
\* logged in and its client keeps running, whatever else is pushed in the meantime.
BroadcastsArrive ==
    \A n \in Attended, x \in 1..MaxSays :
        (\E i \in DOMAIN Queue(n) :
             /\ Queue(n)[i].kind = "broadcast"
             /\ Queue(n)[i].number = x)
           ~> heard[n] >= x \/ players[n] = None \/ status = "crashed"
=============================================================================
