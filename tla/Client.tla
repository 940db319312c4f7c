------------------------------- MODULE Client -------------------------------
(***************************************************************************)
(* The client's state machine (src/src/client/application.cpp) against the *)
(* server it talks to: one client, the channel that RpcChannel describes,  *)
(* and what session-service.cpp, server-command-executor.cpp and           *)
(* battle.cpp do for its requests and its battles.                         *)
(*                                                                         *)
(* Application::tick polls for replies, each of which runs one callback,   *)
(* and then draws a frame, in which at most one button can be pressed.     *)
(* Commands and events that only display something, and the lists of       *)
(* players and goods, are left out: any item or player may be clicked.     *)
(***************************************************************************)
EXTENDS Integers, Sequences, FiniteSets, SequencesExt, Sums

CONSTANTS StartHealth,   \* of the player and of its foe
          Damage,        \* what a hit may cost
          ResurrectHeal, \* what resurrect heals
          Kits, KitHeal, \* how many first aid kits the money buys; their effect
          EscapeRounds,  \* hits after which the client offers to escape
          MaxPending,    \* bound on the requests not yet answered at a frame
          MaxBattles, MaxHeals \* bounds on battles and clicks on resurrect

ASSUME HealthAssumption ==
    /\ {StartHealth, ResurrectHeal, KitHeal} \subseteq Nat
    /\ Damage \subseteq Nat \ {0}

ASSUME BoundsAssumption ==
    {Kits, EscapeRounds, MaxPending, MaxBattles, MaxHeals} \subseteq Nat

VARIABLES state, you, battleId, rounds, \* _state, health of _you, _battle_id,
                                        \* _battled_rounds
          phase,    \* of the process: "open", "closing" after the loop, "gone"
          requests, replies, \* on their way, oldest first
          present,  \* whether the server has a player of this name
          health,   \* of the player and the foe, on the server
          battles, events, \* of the server: all battles, this player's queue
          kits,     \* goods bought
          heals     \* how often resurrect was pressed, by either player

client == <<state, you, battleId, rounds>>
server == <<present, health, battles, events, kits>>
vars == <<client, phase, requests, replies, server, heals>>

Sides == {"me", "foe"}
Other(side) == IF side = "me" THEN "foe" ELSE "me"

\* A command, a reply or an event: its name, whom it is about, a number in it.
Message(kind, about, number) == [kind |-> kind, about |-> about, number |-> number]
Command(kind) == Message(kind, "me", 0)

LoggedIn == state \notin {"unlogged_in", "logging"}

----------------------------------------------------------------------------
Init ==
    /\ state = "unlogged_in"
    /\ you = 0 /\ battleId = 0 /\ rounds = 0
    /\ phase = "open"
    /\ requests = <<>> /\ replies = <<>>
    /\ present = FALSE
    /\ health = [s \in Sides |-> StartHealth]
    /\ battles = <<>> /\ events = <<>>
    /\ kits = 0 /\ heals = 0

(***************************************************************************)
(* Frames: Application::update and render.                                 *)
(***************************************************************************)
Login ==
    /\ state = "unlogged_in" /\ phase = "open"
    /\ requests' = Append(requests, Command("login"))
    /\ state' = "logging"
    /\ UNCHANGED <<you, battleId, rounds, phase, replies, server, heals>>

\* A frame of a client that is logged in asks for the player's state and then
\* sends what the button that was pressed sends.
Draw(commands) ==
    /\ LoggedIn /\ phase = "open"
    /\ Len(requests) + Len(replies) < MaxPending
    /\ requests' = Append(requests, Command("sync")) \o commands
    /\ UNCHANGED <<you, battleId, phase, replies, server>>

\* What a frame does to the state without the player: an ended battle is over.
HandleEnded ==
    /\ state' = IF state = "ended" THEN "greeting" ELSE state
    /\ rounds' = IF state = "ended" THEN 0 ELSE rounds

IdleFrame ==
    /\ Draw(<<>>)
    /\ HandleEnded
    /\ UNCHANGED heals

ClickResurrect ==
    /\ you = 0
    /\ heals < MaxHeals /\ heals' = heals + 1
    /\ Draw(<<Command("resurrect")>>)
    /\ HandleEnded

ClickStartBattle ==
    /\ state = "greeting" /\ state' = "starting_battle"
    /\ Draw(<<>>)
    /\ UNCHANGED <<rounds, heals>>

ClickGoBack ==
    /\ state = "starting_battle" /\ state' = "greeting"
    /\ Draw(<<>>)
    /\ UNCHANGED <<rounds, heals>>

ClickBuy ==
    /\ state = "greeting"
    /\ Draw(<<Command("buy")>>)
    /\ UNCHANGED <<state, rounds, heals>>

\* The state changes with the reply only: the foe may be clicked again before.
ClickFoe ==
    /\ state = "starting_battle"
    /\ Draw(<<Command("battle")>>)
    /\ UNCHANGED <<state, rounds, heals>>

ClickEscape ==
    /\ state = "battling" /\ rounds >= EscapeRounds
    /\ Draw(<<Message("escape", "me", battleId)>>)
    /\ UNCHANGED <<state, rounds, heals>>

Frame == \/ Login \/ IdleFrame
         \/ ClickResurrect \/ ClickStartBattle \/ ClickGoBack
         \/ ClickBuy \/ ClickFoe \/ ClickEscape

\* Mutant: frames are drawn, and requests sent, behind the logout.
CloseLater ==
    /\ phase = "open" /\ LoggedIn
    /\ requests' = Append(requests, Command("logout"))
    /\ UNCHANGED <<client, phase, replies, server, heals>>

\* The window was closed: run() leaves its loop, logs out and polls once more.
Close ==
    /\ phase = "open" /\ LoggedIn
    /\ phase' = "closing"
    /\ requests' = Append(requests, Command("logout"))
    /\ UNCHANGED <<client, replies, server, heals>>

\* The process ends with what the kernel has taken of its requests on their way.
Exit ==
    /\ phase = "closing" \/ (phase = "open" /\ ~LoggedIn)
    /\ phase' = "gone"
    /\ \E n \in 0..Len(requests) : requests' = SubSeq(requests, 1, n)
    /\ replies' = <<>>
    /\ UNCHANGED <<client, server, heals>>

----------------------------------------------------------------------------
(***************************************************************************)
(* Replies: the callbacks given to async_request, and process_event.       *)
(***************************************************************************)
Receive(kinds) ==
    /\ phase # "gone"
    /\ replies # <<>>
    /\ Head(replies).kind \in kinds
    /\ replies' = Tail(replies)
    /\ UNCHANGED <<phase, server, heals>>

QueryAgain == requests' = Append(requests, Command("query-event"))

ReceiveLogin ==
    /\ Receive({"login"})
    /\ you' = Head(replies).number
    /\ QueryAgain
    /\ state' = "greeting"
    /\ UNCHANGED <<battleId, rounds>>

ReceiveSync ==
    /\ Receive({"sync"})
    /\ you' = Head(replies).number
    /\ UNCHANGED <<state, battleId, rounds, requests>>

\* Mutant: a query that brought nothing is not repeated.
ReceiveOtherAndWait ==
    /\ Receive({"none", "shown"})
    /\ IF Head(replies).kind = "none" THEN UNCHANGED requests ELSE QueryAgain
    /\ UNCHANGED client

\* "none" and the events that are only shown: broadcast, battle, fuck, message.
ReceiveOther ==
    /\ Receive({"none", "shown"})
    /\ QueryAgain
    /\ UNCHANGED client

ReceiveCure ==
    /\ Receive({"cure"})
    /\ you' = you + Head(replies).number
    /\ QueryAgain
    /\ UNCHANGED <<state, battleId, rounds>>

\* Mutant: the event about the foe is taken for the player's own.
ReceiveHealthDropOfFoe ==
    /\ Receive({"health-drop"})
    /\ LET drop == Head(replies).number
       IN  you' = IF Head(replies).about = "foe"
                  THEN IF drop < you THEN you - drop ELSE 0
                  ELSE you
    /\ rounds' = rounds + 1
    /\ QueryAgain
    /\ UNCHANGED <<state, battleId>>

\* Mutant: the copy loses the whole drop, although a sync may have counted it.
ReceiveHealthDropUnclamped ==
    /\ Receive({"health-drop"})
    /\ you' = IF Head(replies).about = "me" THEN you - Head(replies).number ELSE you
    /\ rounds' = rounds + 1
    /\ QueryAgain
    /\ UNCHANGED <<state, battleId>>

\* The rounds count the hits on either player, in any battle.
ReceiveHealthDrop ==
    /\ Receive({"health-drop"})
    /\ LET drop == Head(replies).number
       IN  you' = IF Head(replies).about = "me"
                  THEN IF drop < you THEN you - drop ELSE 0
                  ELSE you
    /\ rounds' = rounds + 1
    /\ QueryAgain
    /\ UNCHANGED <<state, battleId>>

\* The event does not say which battle has ended.
ReceiveGameEnd ==
    /\ Receive({"game-end"})
    /\ state' = "ended"
    /\ QueryAgain
    /\ UNCHANGED <<you, battleId, rounds>>

\* Mutant: the state follows the click, whatever the server answers.
ReceiveRefusedAnyway ==
    /\ Receive({"refused", "done"})
    /\ state' = IF state = "starting_battle" THEN "battling" ELSE state
    /\ UNCHANGED <<you, battleId, rounds, requests>>

\* The "error" replies to battle and buy, and "ok" to buy, resurrect and logout.
ReceiveDone ==
    /\ Receive({"refused", "done"})
    /\ UNCHANGED <<client, requests>>

ReceiveBattle ==
    /\ Receive({"battle"})
    /\ battleId' = Head(replies).number
    /\ state' = "battling"
    /\ UNCHANGED <<you, rounds, requests>>

\* Mutant: the state does not change when the server has stopped the battle.
ReceiveEscapedStays ==
    /\ Receive({"escaped"})
    /\ UNCHANGED <<client, requests>>

ReceiveEscaped ==
    /\ Receive({"escaped"})
    /\ state' = "ended"
    /\ UNCHANGED <<you, battleId, rounds, requests>>

Poll == \/ ReceiveLogin \/ ReceiveSync \/ ReceiveOther \/ ReceiveCure
        \/ ReceiveHealthDrop \/ ReceiveGameEnd
        \/ ReceiveDone \/ ReceiveBattle \/ ReceiveEscaped

----------------------------------------------------------------------------
(***************************************************************************)
(* The server: one request at a time, in the order they were issued.       *)
(* Handling one creates the player if the server has none of its name.     *)
(***************************************************************************)
Entered == [health EXCEPT !["me"] = IF present THEN @ ELSE StartHealth]

Handle(kind) ==
    /\ requests # <<>>
    /\ Head(requests).kind = kind
    /\ requests' = Tail(requests)
    /\ UNCHANGED <<client, phase, heals>>

Reply(m) == replies' = IF phase = "gone" THEN <<>> ELSE Append(replies, m)

HandleLookup ==
    \E kind \in {"login", "sync"} :
        /\ Handle(kind)
        /\ present' = TRUE
        /\ health' = Entered
        /\ Reply(Message(kind, "me", health'["me"]))
        /\ UNCHANGED <<battles, events, kits>>

\* Mutant: the newest event is taken, not the oldest.
HandleQueryNewest ==
    /\ Handle("query-event")
    /\ present' = TRUE
    /\ health' = Entered
    /\ Reply(IF events = <<>> THEN Command("none") ELSE Last(events))
    /\ events' = IF events = <<>> THEN <<>> ELSE Front(events)
    /\ UNCHANGED <<battles, kits>>

HandleQuery ==
    /\ Handle("query-event")
    /\ present' = TRUE
    /\ health' = Entered
    /\ Reply(IF events = <<>> THEN Command("none") ELSE Head(events))
    /\ events' = IF events = <<>> THEN <<>> ELSE Tail(events)
    /\ UNCHANGED <<battles, kits>>

NewBattle(from) == [from |-> from, ended |-> FALSE, hits |-> 0]

HandleBattle ==
    /\ Handle("battle")
    /\ Len(battles) < MaxBattles
    /\ battles' = Append(battles, NewBattle("me"))
    /\ Reply(Message("battle", "me", Len(battles)))
    /\ UNCHANGED <<present, health, events, kits>>

\* The player clicked may have left since the players were listed.
RefuseBattle ==
    /\ Handle("battle")
    /\ Reply(Command("refused"))
    /\ UNCHANGED server

HandleEscape ==
    /\ Handle("escape")
    /\ LET k == Head(requests).number + 1
       IN  /\ k \in DOMAIN battles \* else _battles.at throws and ends the server
           /\ battles' = [battles EXCEPT ![k].ended = TRUE]
    /\ Reply(Message("escaped", "me", Head(requests).number))
    /\ UNCHANGED <<present, health, events, kits>>

HandleResurrect ==
    /\ Handle("resurrect")
    /\ health' = [health EXCEPT !["me"] = @ + ResurrectHeal]
    /\ Reply(Command("done"))
    /\ UNCHANGED <<present, battles, events, kits>>

HandleBuy ==
    /\ Handle("buy")
    /\ IF kits < Kits
       THEN /\ kits' = kits + 1
            /\ health' = [health EXCEPT !["me"] = @ + KitHeal]
            /\ events' = Append(events, Message("cure", "me", KitHeal))
            /\ Reply(Command("done"))
       ELSE /\ Reply(Command("refused"))
            /\ UNCHANGED <<kits, health, events>>
    /\ UNCHANGED <<present, battles>>

HandleLogout ==
    /\ Handle("logout")
    /\ present' = FALSE
    /\ Reply(Command("done"))
    /\ UNCHANGED <<health, battles, events, kits>>

Serve == \/ HandleLookup \/ HandleQuery \/ HandleBattle \/ RefuseBattle
         \/ HandleEscape \/ HandleResurrect \/ HandleBuy \/ HandleLogout

----------------------------------------------------------------------------
(***************************************************************************)
(* The server's ticks and the foe.  Battles of a player who has left, and  *)
(* of one whose client has gone, are not followed here (GameServer does).  *)
(***************************************************************************)
InGame == present /\ phase # "gone"

Tell(e) == events' = Append(events, e)

\* Server::run_main_game_loop updates this battle, and its interval is over.
Due(k) == InGame /\ ~battles[k].ended

\* The sender has the first blow.
Target(b) == IF b.hits % 2 = 0 THEN Other(b.from) ELSE b.from

Hit(k) ==
    LET target == Target(battles[k])
    IN  /\ Due(k)
        /\ \A s \in Sides : health[s] # 0
        /\ \E d \in Damage :
              LET drop == IF d < health[target] THEN d ELSE health[target]
              IN  /\ health' = [health EXCEPT ![target] = @ - drop]
                  /\ Tell(Message("health-drop", target, drop))
        /\ battles' = [battles EXCEPT ![k].hits = @ + 1]
        /\ UNCHANGED <<client, phase, requests, replies, present, kits, heals>>

\* Mutant: the sender is not told when it is the one who lost.
EndBattleTellsWinner(k) ==
    /\ Due(k)
    /\ \E s \in Sides : health[s] = 0
    /\ battles' = [battles EXCEPT ![k].ended = TRUE]
    /\ Tell(IF battles[k].from = "me" /\ health["me"] # 0
            THEN Message("game-end", "foe", k - 1) ELSE Command("shown"))
    /\ UNCHANGED <<client, phase, requests, replies, present, health, kits, heals>>

\* Mutant: the receiver is sent game-end as well, not a message.
EndBattleTellsBoth(k) ==
    /\ Due(k)
    /\ \E s \in Sides : health[s] = 0
    /\ battles' = [battles EXCEPT ![k].ended = TRUE]
    /\ Tell(Message("game-end", IF health["me"] = 0 THEN "me" ELSE "foe", k - 1))
    /\ UNCHANGED <<client, phase, requests, replies, present, health, kits, heals>>

\* Battle::stop sends game-end to the sender and a message to the receiver.
\* The event's loser and battle are history; the client is not sent them.
EndBattle(k) ==
    /\ Due(k)
    /\ \E s \in Sides : health[s] = 0
    /\ battles' = [battles EXCEPT ![k].ended = TRUE]
    /\ Tell(IF battles[k].from = "me"
            THEN Message("game-end", IF health["me"] = 0 THEN "me" ELSE "foe", k - 1)
            ELSE Command("shown"))
    /\ UNCHANGED <<client, phase, requests, replies, present, health, kits, heals>>

FoeStarts ==
    /\ InGame /\ Len(battles) < MaxBattles
    /\ battles' = Append(battles, NewBattle("foe"))
    /\ Tell(Command("shown"))
    /\ UNCHANGED <<client, phase, requests, replies, present, health, kits, heals>>

FoeEscapes(k) ==
    /\ Due(k) /\ battles[k].from = "foe"
    /\ battles' = [battles EXCEPT ![k].ended = TRUE]
    /\ Tell(Command("shown"))
    /\ UNCHANGED <<client, phase, requests, replies, present, health, kits, heals>>

FoeResurrects ==
    /\ InGame
    /\ heals < MaxHeals
    /\ heals' = heals + 1
    /\ health' = [health EXCEPT !["foe"] = @ + ResurrectHeal]
    /\ UNCHANGED <<client, phase, requests, replies, present, battles, events, kits>>

UpdateBattle(k) == Hit(k) \/ EndBattle(k)

Next == \/ Frame \/ Close \/ Exit
        \/ Poll \/ Serve
        \/ \E k \in DOMAIN battles : UpdateBattle(k) \/ FoeEscapes(k)
        \/ FoeStarts \/ FoeResurrects

Spec == Init /\ [][Next]_vars

\* Both processes go round their loops; nobody has to click anything.
Fairness ==
    /\ WF_vars(Poll)
    /\ WF_vars(Serve)
    /\ \A k \in 1..MaxBattles : WF_vars(k \in DOMAIN battles /\ UpdateBattle(k))

FairSpec == Spec /\ Fairness

----------------------------------------------------------------------------
(***************************************************************************)
(* Properties.                                                             *)
(***************************************************************************)
States == {"unlogged_in", "logging", "greeting", "starting_battle", "battling",
           "ended"}
Commands == {"login", "sync", "query-event", "battle", "escape", "resurrect",
             "buy", "logout"}
EventKinds == {"none", "shown", "cure", "health-drop", "game-end"}
ReplyKinds == EventKinds \cup {"login", "sync", "battle", "escaped", "refused", "done"}
MessageOf(kinds) == [kind : kinds, about : Sides, number : Nat]

\* Health never becomes negative on either side, only the server's queue holds
\* events, and "none" is never queued.
TypeOK ==
    /\ state \in States
    /\ {you, battleId, rounds, kits, heals} \subseteq Nat
    /\ phase \in {"open", "closing", "gone"}
    /\ requests \in Seq(MessageOf(Commands))
    /\ replies \in Seq(MessageOf(ReplyKinds))
    /\ present \in BOOLEAN
    /\ health \in [Sides -> Nat]
    /\ battles \in Seq([from : Sides, ended : BOOLEAN, hits : Nat])
    /\ events \in Seq(MessageOf(EventKinds \ {"none"}))

Has(seq, kind, number) == \E i \in DOMAIN seq : /\ seq[i].kind = kind
                                              /\ seq[i].number = number

Count(seq, kinds) == Cardinality({i \in DOMAIN seq : seq[i].kind \in kinds})

\* Once logged in the client always has exactly one query-event on its way:
\* schedule_continuous_query_event neither dries up, so that events would never
\* be shown, nor is started twice, so that two streams of events would race.
OneQueryPending ==
    phase # "gone" =>
        Count(requests, {"query-event"}) + Count(replies, EventKinds)
            = IF LoggedIn THEN 1 ELSE 0

\* Nothing but the query for events is sent behind the logout, neither on its
\* way nor when the server has already forgotten the player: any other command
\* would create the player anew (handle_command), and a query still may.
OnlyQueriesAfterLogout ==
    /\ \A i, j \in DOMAIN requests :
          i < j /\ requests[i].kind = "logout" => requests[j].kind = "query-event"
    /\ LoggedIn /\ ~present =>
          \A i \in DOMAIN requests : requests[i].kind = "query-event"

\* Whatever is clicked while replies are on their way, an escape names a battle
\* which exists, otherwise _battles.at would throw in the server, and which this
\* client has started.
EscapeKnowsBattle ==
    \A i \in DOMAIN requests :
        requests[i].kind = "escape" =>
            LET k == requests[i].number + 1
            IN  k \in DOMAIN battles /\ battles[k].from = "me"

\* While the client shows a battle, that battle is running or what will end the
\* view is on its way: game-end in the queue or in a reply, or the answer to an
\* escape.  So no order of answers leaves it in a battle that is over.
BattlingIsReal ==
    state = "battling" /\ phase # "gone" =>
        /\ battleId + 1 \in DOMAIN battles
        /\ battles[battleId + 1].ended =>
              \/ Has(replies, "escaped", battleId)
              \/ Has(replies \o events, "game-end", battleId)

Own == {k \in DOMAIN battles : battles[k].from = "me"}

\* The other direction: neither the end of a battle, nor an escape, nor an event
\* of a battle the foe has started closes the view of a battle that goes on, as
\* long as the client has started only one.  With two it happens: game-end does
\* not say which battle has ended, and the one that runs cannot be left any more.
LeavesOnlyItsOwnBattle ==
    [][state = "battling" /\ state' # "battling" =>
          battles[battleId + 1].ended \/ Cardinality(Own) > 1]_vars

DropOf(m) == IF m.kind = "health-drop" /\ m.about = "me" THEN m.number ELSE 0

Drops(seq) == Sum([i \in DOMAIN seq |-> DropOf(seq[i])], Len(seq))

\* A sync may already include what a health-drop or cure behind it reports, and
\* both change the client's copy.  It still never shows more health than the
\* player has, except for drops not yet received and for kits counted twice.
NeverTooHealthy ==
    LoggedIn /\ phase = "open" =>
        you <= health["me"] + Drops(replies) + Drops(events) + kits * KitHeal

\* The verdict is computed from the client's copy: a player who was dead when
\* its battle ended is told so, if nothing was bought and nobody resurrected.
LoserIsTold ==
    /\ phase = "open" /\ kits = 0 /\ heals = 0
    /\ replies # <<>>
    /\ Head(replies).kind = "game-end" /\ Head(replies).about = "me"
    => you = 0

\* The client leaves every battle it has shown, although nobody clicks anything.
BattlingEnds == state = "battling" ~> state # "battling" \/ phase # "open"

\* rules.md:7 "After both 10 round of hits, each player can choose to escape."
EscapeAfterTenRounds ==
    \A i \in DOMAIN requests :
        requests[i].kind = "escape" => battles[requests[i].number + 1].hits >= 10
=============================================================================
