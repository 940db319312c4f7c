---------------------------- MODULE ClientProofs ----------------------------
(***************************************************************************)
(* Proofs about Client, for any amounts of health, damage and kits and any *)
(* number of requests on their way.                                        *)
(***************************************************************************)
EXTENDS Client, SequenceTheorems, FiniteSetTheorems, TLAPS

AnyMessage == MessageOf(Commands \cup ReplyKinds)

----------------------------------------------------------------------------
(***************************************************************************)
(* Queues: what adding at the end and taking from the front do to each     *)
(* position, and to the number of elements of some kind.                   *)
(***************************************************************************)
Added(s, t, m) ==
    /\ Len(t) = Len(s) + 1
    /\ \A i \in 1..Len(s) : t[i] = s[i]
    /\ t[Len(s) + 1] = m

Shifted(s, t) ==
    /\ Len(s) # 0
    /\ Len(t) = Len(s) - 1
    /\ \A i \in 1..Len(t) : t[i] = s[i + 1]

LEMMA AppendAdds ==
    ASSUME NEW S, NEW s \in Seq(S), NEW m \in S
    PROVE  Append(s, m) \in Seq(S) /\ Added(s, Append(s, m), m)
BY AppendProperties, LenProperties DEF Added

LEMMA TailShifts ==
    ASSUME NEW S, NEW s \in Seq(S), s # <<>>
    PROVE  /\ Tail(s) \in Seq(S) /\ Shifted(s, Tail(s))
           /\ Head(s) = s[1] /\ Head(s) \in S
<1>1. Len(s) # 0 /\ Head(s) = s[1]
  BY EmptySeq
<1> QED
  BY <1>1, HeadTailProperties DEF Shifted

\* A frame appends its sync and at most one command.
LEMMA ConcatAdds ==
    ASSUME NEW S, NEW s \in Seq(S), NEW m \in S
    PROVE  s \o <<>> = s /\ s \o <<m>> = Append(s, m)
<1>1. s \o <<>> = s
  BY ConcatEmptySeq
<1>2. <<m>> \in Seq(S) /\ Len(<<m>>) = 1 /\ <<m>>[1] = m
  OBVIOUS
<1>3. Append(s, m) \in Seq(S) /\ Added(s, Append(s, m), m)
  BY AppendAdds
<1>4. Len(s) \in Nat
  BY LenProperties
<1> DEFINE t == s \o <<m>>
           u == Append(s, m)
<1>5. /\ t \in Seq(S) /\ Len(t) = Len(s) + 1
      /\ \A i \in 1..Len(s) + 1 : t[i] = IF i <= Len(s) THEN s[i] ELSE <<m>>[i - Len(s)]
  BY <1>2, ConcatProperties
<1>6. ASSUME NEW i \in 1..Len(t)
      PROVE  t[i] = u[i]
  BY <1>2, <1>3, <1>4, <1>5 DEF Added
<1>7. Len(t) = Len(u) /\ u \in Seq(S)
  BY <1>3, <1>5 DEF Added
<1> HIDE DEF t, u
<1>8. t = u
  BY <1>5, <1>6, <1>7, SeqEqual
<1> QED
  BY <1>1, <1>8 DEF t, u

----------------------------------------------------------------------------
(***************************************************************************)
(* Types.                                                                  *)
(***************************************************************************)
LEMMA CommandTypes ==
    /\ \A kind \in Commands : Command(kind) \in MessageOf(Commands)
    /\ \A kind \in ReplyKinds : Command(kind) \in MessageOf(ReplyKinds)
    /\ Command("shown") \in MessageOf(EventKinds \ {"none"})
BY DEF Command, Message, MessageOf, Commands, ReplyKinds, EventKinds, Sides

LEMMA MessageType ==
    ASSUME NEW K, NEW kind \in K, NEW about \in Sides, NEW number \in Nat
    PROVE  Message(kind, about, number) \in MessageOf(K)
BY DEF Message, MessageOf

LEMMA EventIsReply ==
    MessageOf(EventKinds \ {"none"}) \subseteq MessageOf(ReplyKinds)
BY DEF MessageOf, ReplyKinds

LEMMA InitType == Init => TypeOK
<1> SUFFICES ASSUME Init PROVE TypeOK
  OBVIOUS
<1>1. state \in States /\ phase \in {"open", "closing", "gone"} /\ present \in BOOLEAN
  BY DEF Init, States
<1>2. {you, battleId, rounds, kits, heals} \subseteq Nat
  BY DEF Init
<1>3. requests = <<>> /\ replies = <<>> /\ battles = <<>> /\ events = <<>>
  BY DEF Init
<1>4. health \in [Sides -> Nat]
  BY HealthAssumption DEF Init
<1> QED
  BY <1>1, <1>2, <1>3, <1>4, EmptySeq DEF TypeOK

\* What a frame appends to the requests.
LEMMA DrawType ==
    ASSUME TypeOK, NEW c \in MessageOf(Commands)
    PROVE  /\ Append(requests, Command("sync")) \in Seq(MessageOf(Commands))
           /\ Append(requests, Command("sync")) \o <<>> = Append(requests, Command("sync"))
           /\ Append(requests, Command("sync")) \o <<c>>
                = Append(Append(requests, Command("sync")), c)
           /\ Append(Append(requests, Command("sync")), c) \in Seq(MessageOf(Commands))
<1>1. requests \in Seq(MessageOf(Commands)) /\ Command("sync") \in MessageOf(Commands)
  BY CommandTypes DEF TypeOK, Commands
<1> DEFINE r == Append(requests, Command("sync"))
<1>2. r \in Seq(MessageOf(Commands))
  BY <1>1, AppendAdds
<1> HIDE DEF r
<1>3. r \o <<>> = r /\ r \o <<c>> = Append(r, c) /\ Append(r, c) \in Seq(MessageOf(Commands))
  BY <1>2, AppendAdds, ConcatAdds
<1> QED
  BY <1>2, <1>3 DEF r

ClientOK ==
    /\ state \in States /\ you \in Nat /\ battleId \in Nat /\ rounds \in Nat
    /\ phase \in {"open", "closing", "gone"} /\ heals \in Nat
QueuesOK ==
    /\ requests \in Seq(MessageOf(Commands)) /\ replies \in Seq(MessageOf(ReplyKinds))
ServerOK ==
    /\ present \in BOOLEAN /\ health \in [Sides -> Nat] /\ kits \in Nat
    /\ battles \in Seq([from : Sides, ended : BOOLEAN, hits : Nat])
    /\ events \in Seq(MessageOf(EventKinds \ {"none"}))

LEMMA TypeParts ==
    /\ TypeOK <=> ClientOK /\ QueuesOK /\ ServerOK
    /\ TypeOK' <=> ClientOK' /\ QueuesOK' /\ ServerOK'
BY DEF TypeOK, ClientOK, QueuesOK, ServerOK

\* The requests behind a frame: as many as before, the sync and the button's.
FrameSends ==
    \/ requests' = Append(requests, Command("sync"))
    \/ \E c \in {Command("resurrect"), Command("buy"), Command("battle"),
                 Message("escape", "me", battleId)} :
          /\ requests' = Append(Append(requests, Command("sync")), c)
          /\ c.kind = "escape" => state = "battling"
          /\ c.kind = "resurrect" => heals' = heals + 1

LEMMA FrameShape ==
    ASSUME TypeOK, Frame, ~Login
    PROVE  /\ LoggedIn /\ phase = "open"
           /\ FrameSends
           /\ UNCHANGED <<you, battleId, phase, replies, server>>
           /\ state' \in {state, "greeting", "starting_battle"}
           /\ state' # state => state \in {"ended", "greeting", "starting_battle"}
           /\ rounds' \in {rounds, 0}
           /\ heals' \in {heals, heals + 1}
<1> DEFINE r == Append(requests, Command("sync"))
<1>0. \A c \in MessageOf(Commands) : r \o <<>> = r /\ r \o <<c>> = Append(r, c)
  BY DrawType
<1>1. \A kind \in Commands : Command(kind) \in MessageOf(Commands)
  BY CommandTypes
<1>2. Message("escape", "me", battleId) \in MessageOf(Commands)
  BY MessageType DEF TypeOK, Commands, Sides
<1>3. \A kind : Command(kind).kind = kind
  BY DEF Command, Message
<1>4. r \o <<>> = r
  BY <1>0, <1>2
<1> USE DEF LoggedIn, Draw, HandleEnded
<1>5. CASE IdleFrame
  BY <1>4, <1>5 DEF IdleFrame, FrameSends
<1>6. CASE ClickResurrect
  <2>1. "resurrect" \in Commands
    BY DEF Commands
  <2> QED
    BY <1>6, <1>0, <1>1, <1>3, <2>1 DEF ClickResurrect, FrameSends
<1>7. CASE ClickStartBattle
  BY <1>4, <1>7 DEF ClickStartBattle, FrameSends
<1>8. CASE ClickGoBack
  BY <1>4, <1>8 DEF ClickGoBack, FrameSends
<1>9. CASE ClickBuy
  <2>1. "buy" \in Commands
    BY DEF Commands
  <2> QED
    BY <1>9, <1>0, <1>1, <1>3, <2>1 DEF ClickBuy, FrameSends
<1>10. CASE ClickFoe
  <2>1. "battle" \in Commands
    BY DEF Commands
  <2> QED
    BY <1>10, <1>0, <1>1, <1>3, <2>1 DEF ClickFoe, FrameSends
<1>11. CASE ClickEscape
  BY <1>11, <1>0, <1>2 DEF ClickEscape, FrameSends, Message
<1> QED
  BY <1>5, <1>6, <1>7, <1>8, <1>9, <1>10, <1>11 DEF Frame

LEMMA FrameType ==
    ASSUME TypeOK, Frame
    PROVE  TypeOK'
<1> USE TypeParts
<1>1. Commands = Commands /\ \A kind \in Commands : Command(kind) \in MessageOf(Commands)
  BY CommandTypes
<1>2. CASE Login
  <2>1. requests' \in Seq(MessageOf(Commands))
    <3>1. "login" \in Commands
      BY DEF Commands
    <3> QED
      BY <1>2, <1>1, <3>1, AppendAdds DEF Login, QueuesOK
  <2> QED
    BY <1>2, <2>1 DEF Login, ClientOK, QueuesOK, ServerOK, server, States
<1>3. CASE ~Login
  <2>1. /\ FrameSends
        /\ UNCHANGED <<you, battleId, phase, replies, server>>
        /\ state' \in {state, "greeting", "starting_battle"}
        /\ rounds' \in {rounds, 0}
        /\ heals' \in {heals, heals + 1}
    BY <1>3, FrameShape
  <2>2. requests' \in Seq(MessageOf(Commands))
    <3>1. Message("escape", "me", battleId) \in MessageOf(Commands)
      BY MessageType DEF TypeOK, Commands, Sides
    <3>2. {Command("resurrect"), Command("buy"), Command("battle")} \subseteq MessageOf(Commands)
      BY <1>1 DEF Commands
    <3> QED
      BY <2>1, <3>1, <3>2, DrawType DEF FrameSends
  <2>3. ServerOK' /\ QueuesOK'
    BY <2>1, <2>2 DEF ServerOK, QueuesOK, server
  <2>4. ClientOK'
    BY <2>1 DEF ClientOK, States
  <2> QED
    BY <2>3, <2>4
<1> QED
  BY <1>2, <1>3

\* A reply that is polled leaves the queue; the events ask for the next one.
LEMMA PollShape ==
    ASSUME TypeOK, Poll
    PROVE  /\ phase # "gone" /\ replies # <<>> /\ replies' = Tail(replies)
           /\ replies' \in Seq(MessageOf(ReplyKinds)) /\ Shifted(replies, replies')
           /\ Head(replies) = replies[1] /\ Head(replies) \in MessageOf(ReplyKinds)
           /\ UNCHANGED <<phase, server, heals>>
           /\ IF Head(replies).kind \in EventKinds \cup {"login"}
              THEN requests' = Append(requests, Command("query-event"))
              ELSE requests' = requests
<1>1. phase # "gone" /\ replies # <<>> /\ replies' = Tail(replies)
      /\ UNCHANGED <<phase, server, heals>>
  BY DEF Poll, Receive, ReceiveLogin, ReceiveSync, ReceiveOther, ReceiveCure,
         ReceiveHealthDrop, ReceiveGameEnd, ReceiveDone, ReceiveBattle, ReceiveEscaped
<1>2. replies \in Seq(MessageOf(ReplyKinds))
  BY DEF TypeOK
<1>3. IF Head(replies).kind \in EventKinds \cup {"login"}
      THEN requests' = Append(requests, Command("query-event"))
      ELSE requests' = requests
  BY DEF Poll, Receive, ReceiveLogin, ReceiveSync, ReceiveOther, ReceiveCure,
         ReceiveHealthDrop, ReceiveGameEnd, ReceiveDone, ReceiveBattle, ReceiveEscaped,
         QueryAgain, EventKinds, client
<1> QED
  BY <1>1, <1>2, <1>3, TailShifts

LEMMA PollType ==
    ASSUME TypeOK, Poll
    PROVE  TypeOK'
<1> USE TypeParts
<1>1. /\ replies' \in Seq(MessageOf(ReplyKinds))
      /\ Head(replies) \in MessageOf(ReplyKinds)
      /\ UNCHANGED <<phase, server, heals>>
      /\ requests' \in {requests, Append(requests, Command("query-event"))}
  BY PollShape
<1>2. QueuesOK'
  <2>1. Command("query-event") \in MessageOf(Commands)
    BY CommandTypes DEF Commands
  <2> QED
    BY <1>1, <2>1, AppendAdds DEF QueuesOK
<1>3. ServerOK'
  BY <1>1 DEF ServerOK, server
<1>4. Head(replies).number \in Nat
  BY <1>1 DEF MessageOf
<1>5. ClientOK'
  <2> USE <1>1, <1>4 DEF ClientOK, States
  <2>1. CASE ReceiveLogin
    BY <2>1 DEF ReceiveLogin
  <2>2. CASE ReceiveSync
    BY <2>2 DEF ReceiveSync
  <2>3. CASE ReceiveOther
    BY <2>3 DEF ReceiveOther, client
  <2>4. CASE ReceiveCure
    BY <2>4 DEF ReceiveCure
  <2>5. CASE ReceiveHealthDrop
    BY <2>5 DEF ReceiveHealthDrop
  <2>6. CASE ReceiveGameEnd
    BY <2>6 DEF ReceiveGameEnd
  <2>7. CASE ReceiveDone
    BY <2>7 DEF ReceiveDone, client
  <2>8. CASE ReceiveBattle
    BY <2>8 DEF ReceiveBattle
  <2>9. CASE ReceiveEscaped
    BY <2>9 DEF ReceiveEscaped
  <2> QED
    BY <2>1, <2>2, <2>3, <2>4, <2>5, <2>6, <2>7, <2>8, <2>9 DEF Poll
<1> QED
  BY <1>2, <1>3, <1>5

\* Serving takes the oldest request and leaves the client's side alone.
LEMMA HandleShape ==
    ASSUME TypeOK, NEW kind, Handle(kind)
    PROVE  /\ requests # <<>>
           /\ requests' \in Seq(MessageOf(Commands)) /\ Shifted(requests, requests')
           /\ Head(requests) = requests[1] /\ Head(requests) \in MessageOf(Commands)
           /\ requests[1].kind = kind
           /\ UNCHANGED <<client, phase, heals>>
<1>1. requests # <<>> /\ Head(requests).kind = kind /\ requests' = Tail(requests)
      /\ UNCHANGED <<client, phase, heals>>
  BY DEF Handle
<1>2. requests \in Seq(MessageOf(Commands))
  BY DEF TypeOK
<1> QED
  BY <1>1, <1>2, TailShifts

LEMMA ReplyShape ==
    ASSUME TypeOK, NEW m \in MessageOf(ReplyKinds), Reply(m)
    PROVE  /\ replies' \in Seq(MessageOf(ReplyKinds))
           /\ phase = "gone" => replies' = <<>>
           /\ phase # "gone" => Added(replies, replies', m)
<1>1. replies \in Seq(MessageOf(ReplyKinds))
  BY DEF TypeOK
<1> QED
  BY <1>1, AppendAdds, EmptySeq DEF Reply

LEMMA EnteredType ==
    ASSUME ServerOK
    PROVE  Entered \in [Sides -> Nat] /\ Entered["me"] \in Nat
BY HealthAssumption DEF ServerOK, Entered, Sides

\* What handling each request answers, and what it does on the server.
Served(c, m) ==
    \/ /\ c.kind \in {"login", "sync"}
       /\ m = Message(c.kind, "me", health'["me"])
       /\ present' = TRUE /\ health' = Entered
       /\ UNCHANGED <<battles, events, kits>>
    \/ /\ c.kind = "query-event"
       /\ present' = TRUE /\ health' = Entered
       /\ \/ events = <<>> /\ m = Command("none") /\ events' = events
          \/ events # <<>> /\ m = events[1] /\ events' = Tail(events)
             /\ Shifted(events, events') /\ m.kind \in EventKinds \ {"none"}
       /\ UNCHANGED <<battles, kits>>
    \/ /\ c.kind = "battle"
       /\ battles' = Append(battles, NewBattle("me"))
       /\ m = Message("battle", "me", Len(battles))
       /\ UNCHANGED <<present, health, events, kits>>
    \/ /\ c.kind = "escape"
       /\ c.number + 1 \in DOMAIN battles
       /\ battles' = [battles EXCEPT ![c.number + 1].ended = TRUE]
       /\ m = Message("escaped", "me", c.number)
       /\ UNCHANGED <<present, health, events, kits>>
    \/ /\ c.kind = "resurrect"
       /\ health' = [health EXCEPT !["me"] = @ + ResurrectHeal]
       /\ m = Command("done")
       /\ UNCHANGED <<present, battles, events, kits>>
    \/ /\ c.kind = "buy"
       /\ kits' = kits + 1
       /\ health' = [health EXCEPT !["me"] = @ + KitHeal]
       /\ events' = Append(events, Message("cure", "me", KitHeal))
       /\ m = Command("done")
       /\ UNCHANGED <<present, battles>>
    \/ /\ c.kind \in {"battle", "buy"}
       /\ m = Command("refused")
       /\ UNCHANGED server
    \/ /\ c.kind = "logout"
       /\ present' = FALSE
       /\ m = Command("done")
       /\ UNCHANGED <<health, battles, events, kits>>

LEMMA ServeShape ==
    ASSUME TypeOK, Serve
    PROVE  \E m \in MessageOf(ReplyKinds) : Reply(m) /\ Served(Head(requests), m)
<1> USE DEF Handle
<1>1. \A kind \in ReplyKinds : Command(kind) \in MessageOf(ReplyKinds)
  BY CommandTypes
<1>2. {"none", "refused", "done", "login", "sync", "battle", "escaped"} \subseteq ReplyKinds
      /\ "me" \in Sides
  BY DEF ReplyKinds, EventKinds, Sides
<1>3. ServerOK /\ QueuesOK
  BY TypeParts
<1>4. CASE HandleLookup
  <2>1. PICK kind \in {"login", "sync"} :
          /\ Handle(kind) /\ present' = TRUE /\ health' = Entered
          /\ Reply(Message(kind, "me", health'["me"]))
          /\ UNCHANGED <<battles, events, kits>>
    BY <1>4 DEF HandleLookup
  <2>2. health'["me"] \in Nat
    BY <2>1, <1>3, EnteredType
  <2>3. Message(kind, "me", health'["me"]) \in MessageOf(ReplyKinds)
    BY <2>2, <1>2, MessageType
  <2> QED
    BY <2>1, <2>3 DEF Served
<1>5. CASE HandleQuery
  <2>1. CASE events = <<>>
    <3>1. Reply(Command("none"))
      BY <2>1, <1>5 DEF HandleQuery
    <3> QED
      BY <3>1, <2>1, <1>5, <1>1, <1>2 DEF HandleQuery, Served
  <2>2. CASE events # <<>>
    <3>1. /\ Shifted(events, Tail(events)) /\ Head(events) = events[1]
          /\ Head(events) \in MessageOf(EventKinds \ {"none"})
      BY <2>2, <1>3, TailShifts DEF ServerOK
    <3>2. Head(events) \in MessageOf(ReplyKinds) /\ Head(events).kind \in EventKinds \ {"none"}
      BY <3>1, EventIsReply DEF MessageOf
    <3>3. Reply(Head(events)) /\ events' = Tail(events)
      BY <2>2, <1>5 DEF HandleQuery
    <3> QED
      BY <3>1, <3>2, <3>3, <2>2, <1>5 DEF HandleQuery, Served
  <2> QED
    BY <2>1, <2>2
<1>6. CASE HandleBattle
  <2>1. Message("battle", "me", Len(battles)) \in MessageOf(ReplyKinds)
    BY <1>2, <1>3, MessageType, LenProperties DEF ServerOK
  <2> QED
    BY <2>1, <1>6 DEF HandleBattle, Served
<1>7. CASE RefuseBattle
  BY <1>7, <1>1, <1>2 DEF RefuseBattle, Served
<1>8. CASE HandleEscape
  <2>1. Head(requests) \in MessageOf(Commands)
    BY <1>8, HandleShape DEF HandleEscape
  <2>2. Head(requests).number \in Nat
    BY <2>1 DEF MessageOf
  <2>3. Message("escaped", "me", Head(requests).number) \in MessageOf(ReplyKinds)
    BY <1>2, <2>2, MessageType
  <2> QED
    BY <2>3, <1>8 DEF HandleEscape, Served
<1>9. CASE HandleResurrect
  BY <1>9, <1>1, <1>2 DEF HandleResurrect, Served
<1>10. CASE HandleBuy
  <2>1. CASE kits < Kits
    BY <2>1, <1>10, <1>1, <1>2 DEF HandleBuy, Served
  <2>2. CASE ~(kits < Kits)
    BY <2>2, <1>10, <1>1, <1>2 DEF HandleBuy, Served, server
  <2> QED
    BY <2>1, <2>2
<1>11. CASE HandleLogout
  BY <1>11, <1>1, <1>2 DEF HandleLogout, Served
<1> QED
  BY <1>4, <1>5, <1>6, <1>7, <1>8, <1>9, <1>10, <1>11 DEF Serve

LEMMA ServeFrame ==
    ASSUME TypeOK, Serve
    PROVE  /\ requests # <<>>
           /\ requests' \in Seq(MessageOf(Commands)) /\ Shifted(requests, requests')
           /\ Head(requests) = requests[1] /\ Head(requests) \in MessageOf(Commands)
           /\ UNCHANGED <<client, phase, heals>>
<1>1. \E kind : Handle(kind)
  BY DEF Serve, HandleLookup, HandleQuery, HandleBattle, RefuseBattle, HandleEscape,
         HandleResurrect, HandleBuy, HandleLogout
<1> QED
  BY <1>1, HandleShape

BattleType == [from : Sides, ended : BOOLEAN, hits : Nat]

LEMMA NewBattleType ==
    \A side \in Sides : NewBattle(side) \in BattleType
BY DEF NewBattle, BattleType

LEMMA BattleEndedType ==
    ASSUME NEW bs \in Seq(BattleType), NEW k \in DOMAIN bs
    PROVE  [bs EXCEPT ![k].ended = TRUE] \in Seq(BattleType)
<1>1. k \in 1..Len(bs) /\ bs[k] \in BattleType
  BY LenProperties, ElementOfSeq
<1>2. [bs[k] EXCEPT !.ended = TRUE] \in BattleType
  BY <1>1 DEF BattleType
<1> QED
  BY <1>1, <1>2, ExceptSeq

LEMMA HealthAssigned ==
    ASSUME NEW h \in [Sides -> Nat], NEW side \in Sides, NEW n \in Nat
    PROVE  [h EXCEPT ![side] = n] \in [Sides -> Nat]
OBVIOUS

LEMMA HealthRaised ==
    ASSUME NEW h \in [Sides -> Nat], NEW side \in Sides, NEW n \in Nat
    PROVE  [h EXCEPT ![side] = @ + n] \in [Sides -> Nat]
<1>1. h[side] + n \in Nat
  OBVIOUS
<1> QED
  BY <1>1

LEMMA ServeType ==
    ASSUME TypeOK, Serve
    PROVE  TypeOK'
<1> USE TypeParts
<1>1. PICK m \in MessageOf(ReplyKinds) : Reply(m) /\ Served(Head(requests), m)
  BY ServeShape
<1>2. QueuesOK'
  BY <1>1, ReplyShape, ServeFrame DEF QueuesOK
<1>3. ClientOK'
  BY ServeFrame DEF ClientOK, client
<1>4. ServerOK'
  <2> DEFINE c == Head(requests)
  <2>0. ServerOK /\ battles \in Seq(BattleType) /\ "me" \in Sides
    BY DEF ServerOK, BattleType, Sides
  <2>1. ASSUME Served(c, m) PROVE present' \in BOOLEAN /\ kits' \in Nat
    <3>1. present' \in {TRUE, FALSE, present}
      BY <2>1, Zenon DEF Served, server
    <3>2. kits' \in {kits, kits + 1}
      BY <2>1, Zenon DEF Served, server
    <3>3. present \in BOOLEAN /\ kits \in Nat
      BY DEF ServerOK
    <3>4. present' \in BOOLEAN
      BY <3>1, <3>3, Zenon
    <3> QED
      BY <3>2, <3>3, <3>4
  <2>2. ASSUME Served(c, m) PROVE health' \in [Sides -> Nat]
    <3>1. ResurrectHeal \in Nat /\ KitHeal \in Nat
      BY HealthAssumption
    <3>2. Entered \in [Sides -> Nat]
      BY EnteredType
    <3>3. /\ [health EXCEPT !["me"] = @ + ResurrectHeal] \in [Sides -> Nat]
          /\ [health EXCEPT !["me"] = @ + KitHeal] \in [Sides -> Nat]
      BY <3>1, <2>0, HealthRaised DEF ServerOK
    <3> QED
      BY <2>2, <3>2, <3>3 DEF Served, ServerOK, server
  <2>3. ASSUME Served(c, m) PROVE battles' \in Seq(BattleType)
    <3>1. Append(battles, NewBattle("me")) \in Seq(BattleType)
      BY <2>0, NewBattleType, AppendAdds
    <3> QED
      BY <2>0, <2>3, <3>1, BattleEndedType DEF Served, server
  <2>4. events' \in Seq(MessageOf(EventKinds \ {"none"}))
    <3>1. events \in Seq(MessageOf(EventKinds \ {"none"}))
      BY DEF ServerOK
    <3>2. Message("cure", "me", KitHeal) \in MessageOf(EventKinds \ {"none"})
      BY <2>0, HealthAssumption, MessageType DEF EventKinds
    <3>3. \/ events' = events
          \/ events # <<>> /\ events' = Tail(events)
          \/ events' = Append(events, Message("cure", "me", KitHeal))
      BY <1>1, Zenon DEF Served, server
    <3> QED
      BY <3>1, <3>2, <3>3, AppendAdds, TailShifts
  <2> QED
    BY <1>1, <2>1, <2>2, <2>3, <2>4 DEF ServerOK, BattleType
<1> QED
  BY <1>2, <1>3, <1>4

\* What a tick of the server tells the player, and what it does.
Ticked(e) ==
    \/ /\ e.kind = "health-drop"
       /\ \A s \in Sides : health[s] # 0
       /\ e.number <= health[e.about]
       /\ health' = [health EXCEPT ![e.about] = @ - e.number]
       /\ \E k \in DOMAIN battles : battles' = [battles EXCEPT ![k].hits = @ + 1]
       /\ heals' = heals
    \/ /\ \E k \in DOMAIN battles :
             /\ battles' = [battles EXCEPT ![k].ended = TRUE]
             /\ battles[k].from = "me" => /\ e.kind = "game-end" /\ e.number = k - 1
                                          /\ e.about = "me" => health["me"] = 0
             /\ battles[k].from # "me" => e.kind = "shown"
       /\ UNCHANGED <<health, heals>>
    \/ /\ e.kind = "shown"
       /\ battles' = Append(battles, NewBattle("foe"))
       /\ UNCHANGED <<health, heals>>

Tick == \/ \E k \in DOMAIN battles : UpdateBattle(k) \/ FoeEscapes(k)
        \/ FoeStarts \/ FoeResurrects

LEMMA HitShape ==
    ASSUME TypeOK, NEW k \in DOMAIN battles, Hit(k)
    PROVE  \E e \in MessageOf(EventKinds \ {"none"}) :
              events' = Append(events, e) /\ Ticked(e)
<1> DEFINE target == Target(battles[k])
<1>1. PICK d \in Damage :
        LET drop == IF d < health[target] THEN d ELSE health[target]
        IN  /\ health' = [health EXCEPT ![target] = @ - drop]
            /\ Tell(Message("health-drop", target, drop))
  BY DEF Hit
<1> DEFINE drop == IF d < health[target] THEN d ELSE health[target]
           e == Message("health-drop", target, drop)
<1>2. battles \in Seq(BattleType) /\ health \in [Sides -> Nat]
  BY DEF TypeOK, BattleType
<1>3. battles[k] \in BattleType
  BY <1>2, LenProperties, ElementOfSeq
<1>4. target \in Sides
  BY <1>3 DEF Target, Other, Sides, BattleType
<1>5. drop \in Nat /\ drop <= health[target]
  <2> HIDE DEF target
  <2> QED
    BY <1>2, <1>4, HealthAssumption
<1>6. "health-drop" \in EventKinds \ {"none"}
  BY DEF EventKinds
<1>7. /\ e \in MessageOf(EventKinds \ {"none"})
      /\ e.kind = "health-drop" /\ e.about = target /\ e.number = drop
  <2> HIDE DEF target, drop
  <2> QED
    BY <1>4, <1>5, <1>6, MessageType DEF Message
<1>8. health' = [health EXCEPT ![target] = @ - drop] /\ Tell(e)
  BY <1>1
<1>9. /\ \A s \in Sides : health[s] # 0
      /\ battles' = [battles EXCEPT ![k].hits = @ + 1] /\ heals' = heals
  BY DEF Hit
<1> HIDE DEF e, drop, target
<1> QED
  BY <1>5, <1>7, <1>8, <1>9, Zenon DEF Ticked, Tell

LEMMA TickShape ==
    ASSUME TypeOK, Tick
    PROVE  /\ present /\ phase # "gone"
           /\ UNCHANGED <<client, phase, requests, replies, present, kits>>
           /\ \/ /\ UNCHANGED <<battles, events>>
                 /\ heals' = heals + 1
                 /\ health' = [health EXCEPT !["foe"] = @ + ResurrectHeal]
              \/ \E e \in MessageOf(EventKinds \ {"none"}) :
                    events' = Append(events, e) /\ Ticked(e)
<1>1. Command("shown") \in MessageOf(EventKinds \ {"none"}) /\ Command("shown").kind = "shown"
  BY CommandTypes DEF Command, Message
<1>2. /\ present /\ phase # "gone"
      /\ UNCHANGED <<client, phase, requests, replies, present, kits>>
  BY DEF Tick, UpdateBattle, Hit, EndBattle, FoeEscapes, FoeStarts, FoeResurrects, Due, InGame
<1>3. ASSUME NEW k \in DOMAIN battles, EndBattle(k)
      PROVE  \E e \in MessageOf(EventKinds \ {"none"}) :
                events' = Append(events, e) /\ Ticked(e)
  <2> DEFINE side == IF health["me"] = 0 THEN "me" ELSE "foe"
             e == IF battles[k].from = "me" THEN Message("game-end", side, k - 1)
                  ELSE Command("shown")
  <2>1. k - 1 \in Nat
    <3>1. k \in 1..Len(battles) /\ Len(battles) \in Nat
      BY LenProperties DEF TypeOK
    <3> QED
      BY <3>1
  <2>2. side \in Sides /\ "game-end" \in EventKinds \ {"none"}
    BY DEF Sides, EventKinds
  <2>3. Message("game-end", side, k - 1) \in MessageOf(EventKinds \ {"none"})
    <3> HIDE DEF side
    <3> QED
      BY <2>1, <2>2, MessageType
  <2>4. e \in MessageOf(EventKinds \ {"none"})
    BY <2>3, <1>1
  <2>5. events' = Append(events, e)
    BY <1>3 DEF EndBattle, Tell
  <2>6. /\ battles' = [battles EXCEPT ![k].ended = TRUE]
        /\ UNCHANGED <<health, heals>>
    BY <1>3 DEF EndBattle
  <2>7. battles[k].from = "me" => /\ e.kind = "game-end" /\ e.number = k - 1
                                  /\ e.about = "me" => health["me"] = 0
    BY DEF Message
  <2>8. battles[k].from # "me" => e.kind = "shown"
    BY <1>1
  <2>9. Ticked(e)
    <3> HIDE DEF e
    <3> QED
      BY <2>6, <2>7, <2>8 DEF Ticked
  <2> QED
    BY <2>4, <2>5, <2>9
<1>4. ASSUME NEW k \in DOMAIN battles, FoeEscapes(k)
      PROVE  \E e \in MessageOf(EventKinds \ {"none"}) :
                events' = Append(events, e) /\ Ticked(e)
  <2>1. battles[k].from # "me"
    BY <1>4 DEF FoeEscapes
  <2> QED
    BY <1>4, <1>1, <2>1 DEF FoeEscapes, Ticked, Tell
<1>5. CASE FoeStarts
  BY <1>5, <1>1, <1>2 DEF FoeStarts, Ticked, Tell
<1>6. CASE FoeResurrects
  BY <1>6, <1>2 DEF FoeResurrects
<1> QED
  BY <1>2, <1>3, <1>4, <1>5, <1>6, HitShape DEF Tick, UpdateBattle

LEMMA BattleHitType ==
    ASSUME NEW bs \in Seq(BattleType), NEW k \in DOMAIN bs
    PROVE  [bs EXCEPT ![k].hits = @ + 1] \in Seq(BattleType)
<1>1. k \in 1..Len(bs) /\ bs[k] \in BattleType
  BY LenProperties, ElementOfSeq
<1>2. bs[k].hits + 1 \in Nat
  BY <1>1 DEF BattleType
<1>3. [bs[k] EXCEPT !.hits = bs[k].hits + 1] \in BattleType
  BY <1>1, <1>2 DEF BattleType
<1> QED
  BY <1>1, <1>3, ExceptSeq

LEMMA TickType ==
    ASSUME TypeOK, Tick
    PROVE  TypeOK'
<1> USE TypeParts
<1>1. /\ UNCHANGED <<client, phase, requests, replies, present, kits>>
      /\ \/ /\ UNCHANGED <<battles, events>>
            /\ heals' = heals + 1
            /\ health' = [health EXCEPT !["foe"] = @ + ResurrectHeal]
         \/ \E e \in MessageOf(EventKinds \ {"none"}) :
               events' = Append(events, e) /\ Ticked(e)
  BY TickShape
<1>2. QueuesOK'
  BY <1>1 DEF QueuesOK
<1>3. ClientOK'
  <2>1. heals' \in {heals, heals + 1}
    BY <1>1 DEF Ticked
  <2> QED
    BY <1>1, <2>1 DEF ClientOK, client
<1>4. ServerOK'
  <2>0. ServerOK /\ battles \in Seq(BattleType) /\ "foe" \in Sides
    BY DEF ServerOK, BattleType, Sides
  <2>1. CASE UNCHANGED <<battles, events>>
             /\ health' = [health EXCEPT !["foe"] = @ + ResurrectHeal]
    <3>1. health' \in [Sides -> Nat]
      BY <2>0, <2>1, HealthRaised, HealthAssumption DEF ServerOK
    <3> QED
      BY <3>1, <2>1, <1>1 DEF ServerOK
  <2>2. ASSUME NEW e \in MessageOf(EventKinds \ {"none"}),
               events' = Append(events, e), Ticked(e)
        PROVE  ServerOK'
    <3>1. events' \in Seq(MessageOf(EventKinds \ {"none"}))
      BY <2>0, <2>2, AppendAdds DEF ServerOK
    <3>2. battles' \in Seq(BattleType)
      <4>1. Append(battles, NewBattle("foe")) \in Seq(BattleType)
        BY <2>0, NewBattleType, AppendAdds
      <4>2. ASSUME NEW k \in DOMAIN battles
            PROVE  /\ [battles EXCEPT ![k].hits = @ + 1] \in Seq(BattleType)
                   /\ [battles EXCEPT ![k].ended = TRUE] \in Seq(BattleType)
        BY <2>0, BattleEndedType, BattleHitType
      <4>3. \/ battles' = Append(battles, NewBattle("foe"))
            \/ \E k \in DOMAIN battles : \/ battles' = [battles EXCEPT ![k].hits = @ + 1]
                                        \/ battles' = [battles EXCEPT ![k].ended = TRUE]
        BY <2>2, Zenon DEF Ticked
      <4> QED
        BY <4>1, <4>2, <4>3, Zenon
    <3>3. health' \in [Sides -> Nat]
      <4>1. e.about \in Sides /\ e.number \in Nat
        BY DEF MessageOf
      <4>2. CASE UNCHANGED health
        BY <4>2, <2>0 DEF ServerOK
      <4>3. CASE e.number <= health[e.about]
                 /\ health' = [health EXCEPT ![e.about] = @ - e.number]
        <5>1. health \in [Sides -> Nat]
          BY <2>0 DEF ServerOK
        <5>2. health[e.about] - e.number \in Nat
          BY <5>1, <4>1, <4>3
        <5> QED
          BY <5>1, <5>2, <4>1, <4>3
      <4> QED
        BY <2>2, <4>2, <4>3 DEF Ticked
    <3> QED
      BY <3>1, <3>2, <3>3, <1>1, <2>0 DEF ServerOK, BattleType
  <2> QED
    BY <1>1, <2>1, <2>2
<1> QED
  BY <1>2, <1>3, <1>4

LEMMA CloseExitShape ==
    ASSUME TypeOK, Close \/ Exit
    PROVE  \/ /\ phase = "open" /\ LoggedIn /\ phase' = "closing"
              /\ requests' = Append(requests, Command("logout"))
              /\ UNCHANGED <<client, replies, server, heals>>
              /\ requests' \in Seq(MessageOf(Commands))
              /\ Command("logout").kind = "logout"
           \/ /\ phase' = "gone" /\ replies' = <<>>
              /\ phase = "closing" \/ ~LoggedIn
              /\ UNCHANGED <<client, server, heals>>
              /\ requests' \in Seq(MessageOf(Commands))
              /\ Len(requests') <= Len(requests)
              /\ \A i \in 1..Len(requests') : requests'[i] = requests[i]
<1>1. CASE Close
  <2>1. requests \in Seq(MessageOf(Commands)) /\ Command("logout") \in MessageOf(Commands)
    BY CommandTypes DEF TypeOK, Commands
  <2> QED
    BY <1>1, <2>1, AppendAdds DEF Close, Command, Message
<1>2. CASE Exit
  <2>1. PICK n \in 0..Len(requests) : requests' = SubSeq(requests, 1, n)
    BY <1>2 DEF Exit
  <2>2. requests \in Seq(MessageOf(Commands)) /\ Len(requests) \in Nat
    BY LenProperties DEF TypeOK
  <2>3. \A i \in 1..n : requests[i] \in MessageOf(Commands)
    BY <2>2, ElementOfSeq
  <2>4. 1 \in Int /\ n \in Int /\ n <= Len(requests) /\ n - 1 + 1 = n
    BY <2>2
  <2>5. /\ requests' \in Seq(MessageOf(Commands))
        /\ Len(requests') = IF 1 <= n THEN n ELSE 0
        /\ \A i \in 1..n : requests'[i] = requests[1 + i - 1]
    BY <2>1, <2>3, <2>4, SubSeqProperties
  <2>6. Len(requests') = n
    BY <2>5, <2>2
  <2>7. \A i \in 1..n : requests'[i] = requests[i]
    BY <2>5
  <2> QED
    BY <1>2, <2>4, <2>5, <2>6, <2>7 DEF Exit
<1> QED
  BY <1>1, <1>2

LEMMA NextCases == Next <=> Frame \/ Close \/ Exit \/ Poll \/ Serve \/ Tick
BY DEF Next, Tick

LEMMA TypeStep ==
    ASSUME TypeOK, [Next]_vars
    PROVE  TypeOK'
<1>1. CASE UNCHANGED vars
  BY <1>1 DEF vars, client, server, TypeOK
<1>2. CASE Close \/ Exit
  <2>1. /\ requests' \in Seq(MessageOf(Commands)) /\ phase' \in {"closing", "gone"}
        /\ replies' = replies \/ replies' = <<>>
        /\ UNCHANGED <<client, server, heals>>
    BY <1>2, CloseExitShape
  <2>2. ClientOK' /\ QueuesOK' /\ ServerOK'
    BY <2>1, TypeParts, EmptySeq DEF ClientOK, QueuesOK, ServerOK, client, server
  <2> QED
    BY <2>2, TypeParts
<1> QED
  BY <1>1, <1>2, FrameType, PollType, ServeType, TickType, NextCases

\* Neither copy of the health becomes negative, however the callbacks, the
\* server and the foe interleave, and no queue ever holds a message that its
\* receiver does not know.
THEOREM TypeCorrect == Spec => []TypeOK
<1>1. Init => TypeOK
  BY InitType
<1>2. TypeOK /\ [Next]_vars => TypeOK'
  BY TypeStep
<1> QED
  BY <1>1, <1>2, PTL DEF Spec

----------------------------------------------------------------------------
(***************************************************************************)
(* The queues, position by position.                                       *)
(***************************************************************************)
LEMMA LengthTypes ==
    ASSUME TypeOK
    PROVE  Len(requests) \in Nat /\ Len(replies) \in Nat /\ Len(events) \in Nat
BY LenProperties DEF TypeOK

LEMMA LoginAdds ==
    ASSUME TypeOK, Login
    PROVE  /\ requests' \in Seq(MessageOf(Commands))
           /\ Added(requests, requests', Command("login"))
           /\ state = "unlogged_in" /\ phase = "open" /\ state' = "logging"
           /\ UNCHANGED <<you, battleId, rounds, phase, replies, server, heals>>
<1>1. requests \in Seq(MessageOf(Commands)) /\ Command("login") \in MessageOf(Commands)
  BY CommandTypes DEF TypeOK, Commands
<1> QED
  BY <1>1, AppendAdds DEF Login

\* What a button sends: its kind, and what an escape or resurrect rests on.
ButtonCommand(c) ==
    /\ c \in MessageOf(Commands)
    /\ c.kind \in {"resurrect", "buy", "battle", "escape"}
    /\ c.kind = "escape" => state = "battling" /\ c.number = battleId
    /\ c.kind = "resurrect" => heals' = heals + 1

LEMMA FrameAdds ==
    ASSUME TypeOK, Frame, ~Login
    PROVE  \E r \in Seq(MessageOf(Commands)) :
              /\ Added(requests, r, Command("sync"))
              /\ \/ requests' = r
                 \/ \E c : ButtonCommand(c) /\ Added(r, requests', c)
<1> DEFINE r == Append(requests, Command("sync"))
<1>1. requests \in Seq(MessageOf(Commands)) /\ Command("sync") \in MessageOf(Commands)
  BY CommandTypes DEF TypeOK, Commands
<1>2. r \in Seq(MessageOf(Commands)) /\ Added(requests, r, Command("sync"))
  BY <1>1, AppendAdds
<1>3. FrameSends
  BY FrameShape
<1>4. CASE requests' = r
  BY <1>2, <1>4
<1>5. ASSUME NEW c \in {Command("resurrect"), Command("buy"), Command("battle"),
                        Message("escape", "me", battleId)},
             requests' = Append(r, c),
             c.kind = "escape" => state = "battling",
             c.kind = "resurrect" => heals' = heals + 1
      PROVE  ButtonCommand(c) /\ Added(r, requests', c)
  <2>1. c \in MessageOf(Commands)
    <3>1. Message("escape", "me", battleId) \in MessageOf(Commands)
      BY MessageType DEF TypeOK, Commands, Sides
    <3> QED
      BY <1>5, <3>1, CommandTypes DEF Commands
  <2>2. /\ c.kind \in {"resurrect", "buy", "battle", "escape"}
        /\ c.kind = "escape" => c.number = battleId
    BY <1>5 DEF Command, Message
  <2>3. Added(r, requests', c)
    BY <1>2, <1>5, <2>1, AppendAdds
  <2> QED
    BY <1>5, <2>1, <2>2, <2>3 DEF ButtonCommand
<1> QED
  BY <1>2, <1>3, <1>4, <1>5 DEF FrameSends

\* The requests behind a frame, position by position.
LEMMA FrameElements ==
    ASSUME TypeOK, Frame, ~Login
    PROVE  /\ Len(requests') \in Nat /\ Len(requests') >= Len(requests)
           /\ \A i \in 1..Len(requests) : requests'[i] = requests[i]
           /\ \A i \in (Len(requests) + 1)..Len(requests') :
                 requests'[i].kind = "sync" \/ ButtonCommand(requests'[i])
<1>1. PICK r \in Seq(MessageOf(Commands)) :
        /\ Added(requests, r, Command("sync"))
        /\ \/ requests' = r
           \/ \E c : ButtonCommand(c) /\ Added(r, requests', c)
  BY FrameAdds
<1>2. Command("sync").kind = "sync"
  BY DEF Command, Message
<1>3. Len(requests) \in Nat
  BY LengthTypes
<1>4. CASE requests' = r
  BY <1>1, <1>2, <1>3, <1>4 DEF Added
<1>5. ASSUME NEW c, ButtonCommand(c), Added(r, requests', c)
      PROVE  /\ Len(requests') = Len(requests) + 2
             /\ \A i \in 1..Len(requests) : requests'[i] = requests[i]
             /\ requests'[Len(requests) + 1].kind = "sync"
             /\ requests'[Len(requests) + 2] = c
  <2>1. Len(r) = Len(requests) + 1 /\ Len(requests') = Len(r) + 1
        /\ requests'[Len(r) + 1] = c /\ r[Len(requests) + 1] = Command("sync")
        /\ (\A i \in 1..Len(requests) : r[i] = requests[i])
        /\ (\A i \in 1..Len(r) : requests'[i] = r[i])
    BY <1>1, <1>5, Zenon DEF Added
  <2> QED
    BY <2>1, <1>2, <1>3
<1>6. ASSUME NEW c, ButtonCommand(c), Added(r, requests', c),
             NEW i \in (Len(requests) + 1)..Len(requests')
      PROVE  requests'[i].kind = "sync" \/ ButtonCommand(requests'[i])
  <2>1. /\ Len(requests') = Len(requests) + 2
        /\ requests'[Len(requests) + 1].kind = "sync"
        /\ requests'[Len(requests) + 2] = c
    BY <1>5, <1>6
  <2>2. i = Len(requests) + 1 \/ i = Len(requests) + 2
    BY <2>1, <1>3, <1>6
  <2> QED
    BY <2>1, <2>2, <1>6
<1> QED
  BY <1>1, <1>3, <1>4, <1>5, <1>6

\* A poll sends at most the next query.
LEMMA PollAdds ==
    ASSUME TypeOK, Poll
    PROVE  /\ Command("query-event").kind = "query-event"
           /\ IF replies[1].kind \in EventKinds \cup {"login"}
              THEN Added(requests, requests', Command("query-event"))
              ELSE requests' = requests
<1>1. requests \in Seq(MessageOf(Commands)) /\ Command("query-event") \in MessageOf(Commands)
  BY CommandTypes DEF TypeOK, Commands
<1> QED
  BY <1>1, PollShape, AppendAdds DEF Command, Message

\* A reply goes behind those on their way, unless the client has gone.
LEMMA ServeAdds ==
    ASSUME TypeOK, Serve
    PROVE  \E m \in MessageOf(ReplyKinds) :
              /\ phase = "gone" => Len(replies') = 0
              /\ phase # "gone" => Added(replies, replies', m)
              /\ Served(requests[1], m)
BY ServeShape, ServeFrame, ReplyShape, EmptySeq

\* What the server tells the player goes behind the other events.
LEMMA TickAdds ==
    ASSUME TypeOK, NEW e \in MessageOf(EventKinds \ {"none"}), events' = Append(events, e)
    PROVE  Added(events, events', e)
BY AppendAdds DEF TypeOK

----------------------------------------------------------------------------
(***************************************************************************)
(* Logging in and out.                                                     *)
(***************************************************************************)
Nothing(s) == Len(s) = 0
All(s, kinds) == \A i \in 1..Len(s) : s[i].kind \in kinds
Without(s, kind) == \A i \in 1..Len(s) : s[i].kind # kind

\* Before the login is answered nothing else is on its way, and the server has
\* the player as soon as it has answered.
LoginInv ==
    /\ ~LoggedIn => phase # "closing"
    /\ state = "unlogged_in" => Nothing(requests) /\ Nothing(replies)
    /\ state = "logging" =>
          /\ All(requests, {"login"}) /\ All(replies, {"login"})
          /\ Len(requests) + Len(replies) <= 1
          /\ ~Nothing(replies) => present
    /\ LoggedIn => Without(requests, "login") /\ Without(replies, "login")
    /\ phase = "gone" => Nothing(replies)
    /\ LoggedIn /\ phase = "open" => present
    /\ ~LoggedIn /\ ~present => Nothing(events)

LogoutInv ==
    /\ phase = "open" => Without(requests, "logout")
    /\ \A i, j \in 1..Len(requests) :
          i < j /\ requests[i].kind = "logout" => requests[j].kind = "query-event"
    /\ LoggedIn /\ ~present => All(requests, {"query-event"})

\* What polling does to the client's state, by the kind of the reply.
LEMMA PollState ==
    ASSUME TypeOK, Poll
    PROVE  /\ replies[1].kind = "login" => state' = "greeting"
           /\ replies[1].kind \in {"game-end", "escaped"} => state' = "ended"
           /\ replies[1].kind = "battle" => /\ state' = "battling"
                                            /\ battleId' = replies[1].number
           /\ replies[1].kind \notin {"login", "game-end", "escaped", "battle"} => state' = state
           /\ replies[1].kind # "battle" => battleId' = battleId
           /\ replies[1].kind \in ReplyKinds
<1>1. Head(replies) = replies[1] /\ replies[1].kind \in ReplyKinds
  BY PollShape DEF MessageOf
<1> QED
  BY <1>1 DEF Poll, Receive, ReceiveLogin, ReceiveSync, ReceiveOther, ReceiveCure,
         ReceiveHealthDrop, ReceiveGameEnd, ReceiveDone, ReceiveBattle, ReceiveEscaped, client

LEMMA ServedKinds ==
    ASSUME NEW c, NEW m, Served(c, m)
    PROVE  /\ m.kind = "login" <=> c.kind = "login"
           /\ c.kind \in {"login", "sync", "query-event"} => present' = TRUE
           /\ c.kind = "logout" => present' = FALSE
           /\ c.kind \notin {"login", "sync", "query-event", "logout"} => present' = present
           /\ c.kind \in {"login", "sync", "logout", "resurrect"} => events' = events
           /\ c.kind \in Commands
           /\ c.kind = "query-event" <=> m.kind \in EventKinds
BY DEF Served, Message, Command, EventKinds, server, Commands

LEMMA TailKinds ==
    ASSUME NEW s, NEW t, Shifted(s, t), Len(s) \in Nat
    PROVE  /\ \A kinds : All(s, kinds) => All(t, kinds)
           /\ \A kind : Without(s, kind) => Without(t, kind)
           /\ s[1] \in {s[i] : i \in 1..Len(s)}
<1>1. \A i \in 1..Len(t) : i + 1 \in 1..Len(s) /\ t[i] = s[i + 1]
  BY DEF Shifted
<1>2. 1 \in 1..Len(s)
  BY DEF Shifted
<1> QED
  BY <1>1, <1>2 DEF All, Without

LEMMA AddedKinds ==
    ASSUME NEW s, NEW t, NEW m, Added(s, t, m), Len(s) \in Nat
    PROVE  /\ \A kinds : All(s, kinds) /\ m.kind \in kinds => All(t, kinds)
           /\ \A kind : Without(s, kind) /\ m.kind # kind => Without(t, kind)
<1>1. \A i \in 1..Len(t) : (i \in 1..Len(s) /\ t[i] = s[i]) \/ t[i] = m
  BY DEF Added
<1> QED
  BY <1>1 DEF All, Without

LEMMA LoginInit == Init => LoginInv /\ LogoutInv
<1> SUFFICES ASSUME Init PROVE LoginInv /\ LogoutInv
  OBVIOUS
<1>1. Len(requests) = 0 /\ Len(replies) = 0 /\ Len(events) = 0
  BY DEF Init
<1> QED
  BY <1>1 DEF Init, LoginInv, LogoutInv, Nothing, All, Without, LoggedIn

LEMMA LoginByFrame ==
    ASSUME TypeOK, LoginInv, LogoutInv, Frame
    PROVE  LoginInv' /\ LogoutInv'
<1>1. CASE Login
  <2>1. /\ Added(requests, requests', Command("login"))
        /\ state = "unlogged_in" /\ phase = "open" /\ state' = "logging"
        /\ UNCHANGED <<phase, replies, present, events>>
    BY <1>1, LoginAdds DEF server
  <2>2. Len(requests) = 0 /\ Len(replies) = 0 /\ (~present => Len(events) = 0)
    BY <2>1 DEF LoginInv, LoggedIn, Nothing
  <2>3. Len(requests') = 1 /\ requests'[1].kind = "login"
    BY <2>1, <2>2 DEF Added, Command, Message
  <2> QED
    BY <2>1, <2>2, <2>3 DEF LoginInv, LogoutInv, LoggedIn, Nothing, All, Without
<1>2. CASE ~Login
  <2>1. /\ LoggedIn /\ LoggedIn' /\ phase = "open"
        /\ UNCHANGED <<phase, replies, present, events>>
    BY <1>2, FrameShape DEF server, LoggedIn
  <2>2. /\ Len(requests') \in Nat /\ Len(requests') >= Len(requests)
        /\ Len(requests) \in Nat
        /\ \A i \in 1..Len(requests) : requests'[i] = requests[i]
        /\ \A i \in (Len(requests) + 1)..Len(requests') :
              requests'[i].kind \in {"sync", "resurrect", "buy", "battle", "escape"}
    BY <1>2, FrameElements, LengthTypes DEF ButtonCommand
  <2>3. present /\ Without(requests, "logout") /\ Without(requests, "login")
        /\ Without(replies, "login")
    BY <2>1 DEF LoginInv, LogoutInv
  <2>4. \A i \in 1..Len(requests') : requests'[i].kind \notin {"login", "logout"}
    BY <2>2, <2>3 DEF Without
  <2> QED
    BY <2>1, <2>3, <2>4 DEF LoginInv, LogoutInv, LoggedIn, Without
<1> QED
  BY <1>1, <1>2

LEMMA LoginByCloseExit ==
    ASSUME TypeOK, LoginInv, LogoutInv, Close \/ Exit
    PROVE  LoginInv' /\ LogoutInv'
<1>0. Len(requests) \in Nat /\ Len(requests') \in Nat
  BY LengthTypes, CloseExitShape, LenProperties
<1>1. CASE phase = "open" /\ LoggedIn /\ phase' = "closing"
           /\ requests' = Append(requests, Command("logout"))
           /\ UNCHANGED <<client, replies, server, heals>>
  <2>1. UNCHANGED <<state, replies, present, events>>
    BY <1>1 DEF client, server
  <2>2. present /\ Without(requests, "logout") /\ Without(requests, "login")
        /\ Without(replies, "login")
    BY <1>1 DEF LoginInv, LogoutInv
  <2>3. Added(requests, requests', Command("logout")) /\ Command("logout").kind = "logout"
    <3>1. requests \in Seq(MessageOf(Commands)) /\ Command("logout") \in MessageOf(Commands)
      BY CommandTypes DEF TypeOK, Commands
    <3> QED
      BY <1>1, <3>1, AppendAdds DEF Command, Message
  <2>4. Without(requests', "login")
    BY <1>0, <2>2, <2>3, AddedKinds
  <2>5. \A i \in 1..Len(requests') : requests'[i].kind = "logout" => i = Len(requests')
    BY <1>0, <2>2, <2>3 DEF Without, Added
  <2> QED
    BY <1>0, <1>1, <2>1, <2>2, <2>4, <2>5 DEF LoginInv, LogoutInv, LoggedIn, Without
<1>2. CASE /\ phase' = "gone" /\ replies' = <<>>
           /\ UNCHANGED <<client, server, heals>>
           /\ Len(requests') <= Len(requests)
           /\ \A i \in 1..Len(requests') : requests'[i] = requests[i]
  <2>1. UNCHANGED <<state, present, events>> /\ Len(replies') = 0
    BY <1>2 DEF client, server
  <2>2. \A i \in 1..Len(requests') : i \in 1..Len(requests) /\ requests'[i] = requests[i]
    BY <1>0, <1>2
  <2>3. LoginInv'
    <3>1. All(requests, {"login"}) => All(requests', {"login"})
      BY <2>2 DEF All
    <3>2. Without(requests, "login") => Without(requests', "login")
      BY <2>2 DEF Without
    <3>3. Nothing(requests) => Nothing(requests')
      BY <1>0, <1>2 DEF Nothing
    <3>4. Len(requests) + Len(replies) <= 1 => Len(requests') + Len(replies') <= 1
      BY <1>0, <1>2, <2>1, LengthTypes
    <3>5. /\ Nothing(replies') /\ All(replies', {"login"}) /\ Without(replies', "login")
          /\ phase' = "gone"
      BY <1>2, <2>1 DEF Nothing, All, Without
    <3> QED
      BY <2>1, <3>1, <3>2, <3>3, <3>4, <3>5, Zenon DEF LoginInv, LoggedIn, Nothing
  <2>4. LogoutInv'
    BY <1>2, <2>1, <2>2 DEF LogoutInv, LoggedIn, All
  <2> QED
    BY <2>3, <2>4
<1> QED
  BY <1>1, <1>2, CloseExitShape

LEMMA LoginByPoll ==
    ASSUME TypeOK, LoginInv, LogoutInv, Poll
    PROVE  LoginInv' /\ LogoutInv'
<1> DEFINE h == replies[1]
<1>0. /\ Len(requests) \in Nat /\ Len(replies) \in Nat
      /\ phase # "gone" /\ Shifted(replies, replies')
      /\ UNCHANGED <<phase, present, events>>
  BY LengthTypes, PollShape DEF server
<1>1. Len(replies) # 0 /\ Len(replies') = Len(replies) - 1
  BY <1>0 DEF Shifted
<1>2. /\ \A kind : Without(replies, kind) => Without(replies', kind)
      /\ 1 \in 1..Len(replies)
  BY <1>0, <1>1, TailKinds
<1>3. CASE state = "logging"
  <2>1. h.kind = "login" /\ Len(requests) = 0 /\ Len(replies) = 1 /\ present
    <3>1. Len(requests) + Len(replies) <= 1 /\ All(replies, {"login"}) /\ present
      BY <1>1, <1>3, Zenon DEF LoginInv, Nothing
    <3> QED
      BY <3>1, <1>0, <1>1, <1>2 DEF All
  <2>2. state' = "greeting" /\ Added(requests, requests', Command("query-event"))
        /\ Command("query-event").kind = "query-event"
    BY <2>1, PollState, PollAdds
  <2>3. Len(requests') = 1 /\ requests'[1].kind = "query-event" /\ Len(replies') = 0
    BY <2>1, <2>2, <1>1 DEF Added
  <2> QED
    BY <2>1, <2>2, <2>3, <1>0 DEF LoginInv, LogoutInv, LoggedIn, Nothing, All, Without
<1>4. CASE state # "logging"
  <2>1. LoggedIn
    BY <1>1, <1>4 DEF LoginInv, LoggedIn, Nothing
  <2>2. Without(requests, "login") /\ Without(replies, "login")
    BY <2>1 DEF LoginInv
  <2>3. h.kind # "login" /\ Without(replies', "login")
    BY <2>2, <1>2 DEF Without
  <2>4. LoggedIn'
    BY <2>1, <2>3, PollState DEF LoggedIn
  <2>5. \/ requests' = requests
        \/ Added(requests, requests', Command("query-event"))
    BY PollAdds
  <2>6. Command("query-event").kind = "query-event"
    BY PollAdds
  <2>7. /\ Without(requests', "login")
        /\ Without(requests, "logout") => Without(requests', "logout")
        /\ All(requests, {"query-event"}) => All(requests', {"query-event"})
    BY <2>2, <2>5, <2>6, <1>0, AddedKinds
  <2>8. \A i \in 1..Len(requests') :
           \/ i \in 1..Len(requests) /\ requests'[i] = requests[i]
           \/ i = Len(requests') /\ requests'[i].kind = "query-event"
    <3>1. Added(requests, requests', Command("query-event")) =>
            /\ Len(requests') = Len(requests) + 1
            /\ \A i \in 1..Len(requests) : requests'[i] = requests[i]
            /\ requests'[Len(requests')].kind = "query-event"
      BY <2>6 DEF Added
    <3> SUFFICES ASSUME NEW i \in 1..Len(requests')
                 PROVE  \/ i \in 1..Len(requests) /\ requests'[i] = requests[i]
                        \/ i = Len(requests') /\ requests'[i].kind = "query-event"
      OBVIOUS
    <3>2. CASE requests' = requests
      BY <3>2, Zenon
    <3>3. CASE Added(requests, requests', Command("query-event"))
      <4>1. i \in 1..Len(requests) \/ i = Len(requests')
        BY <3>1, <3>3, <1>0
      <4> QED
        BY <3>1, <3>3, <4>1
    <3> QED
      BY <3>2, <3>3, <2>5
  <2>9. LoginInv'
    BY <1>0, <2>1, <2>3, <2>4, <2>7 DEF LoginInv, LoggedIn
  <2>10. ASSUME NEW i \in 1..Len(requests'), NEW j \in 1..Len(requests'),
                i < j, requests'[i].kind = "logout"
         PROVE  requests'[j].kind = "query-event"
    <3>0. Len(requests') \in Nat
      BY <1>0, <2>5 DEF Added
    <3>1. i \in 1..Len(requests) /\ requests'[i] = requests[i]
      BY <2>8, <2>10
    <3> QED
      BY <3>0, <3>1, <2>8, <2>10 DEF LogoutInv
  <2> QED
    BY <1>0, <2>1, <2>7, <2>9, <2>10 DEF LogoutInv
<1> QED
  BY <1>3, <1>4

LEMMA LoginByServe ==
    ASSUME TypeOK, LoginInv, LogoutInv, Serve
    PROVE  LoginInv' /\ LogoutInv'
<1> DEFINE c == requests[1]
<1>0. /\ Len(requests) \in Nat /\ Len(replies) \in Nat /\ Len(events) \in Nat
      /\ Shifted(requests, requests')
      /\ UNCHANGED <<state, phase>>
  BY LengthTypes, ServeFrame DEF client
<1>1. PICK m \in MessageOf(ReplyKinds) :
        /\ phase = "gone" => Len(replies') = 0
        /\ phase # "gone" => Added(replies, replies', m)
        /\ Served(c, m)
  BY ServeAdds
<1>2. /\ m.kind = "login" <=> c.kind = "login"
      /\ c.kind \in {"login", "sync", "query-event"} => present' = TRUE
      /\ c.kind = "logout" => present' = FALSE
      /\ c.kind \notin {"login", "sync", "query-event", "logout"} => present' = present
      /\ c.kind = "login" => events' = events
  BY <1>1, ServedKinds
<1>3. Len(requests) # 0 /\ Len(requests') = Len(requests) - 1 /\ 1 \in 1..Len(requests)
      /\ \A i \in 1..Len(requests') : requests'[i] = requests[i + 1] /\ i + 1 \in 1..Len(requests)
  BY <1>0 DEF Shifted
<1>4. CASE ~LoggedIn
  <2>1. state = "logging"
    BY <1>3, <1>4 DEF LoginInv, LoggedIn, Nothing
  <2>2. Len(requests) + Len(replies) <= 1 /\ All(requests, {"login"}) /\ phase # "closing"
    BY <1>4, <2>1 DEF LoginInv
  <2>3. c.kind = "login" /\ Len(requests) = 1 /\ Len(replies) = 0
    BY <2>2, <1>0, <1>3 DEF All
  <2>4. m.kind = "login" /\ present' = TRUE
    BY <2>3, <1>2
  <2>5. Len(requests') = 0 /\ Len(replies') <= 1 /\ Len(replies') \in Nat
        /\ All(replies', {"login"})
    <3>1. CASE phase = "gone"
      BY <3>1, <2>3, <1>1, <1>3 DEF All
    <3>2. CASE phase # "gone"
      <4>1. Added(replies, replies', m)
        BY <3>2, <1>1
      <4>2. Len(replies') = 1 /\ replies'[1] = m
        BY <4>1, <2>3 DEF Added
      <4> QED
        BY <4>2, <2>3, <2>4, <1>3 DEF All
    <3> QED
      BY <3>1, <3>2
  <2>6. All(requests', {"login"})
    BY <2>5 DEF All
  <2> QED
    BY <2>1, <2>2, <2>4, <2>5, <2>6, <1>0, <1>1, <1>4
    DEF LoginInv, LogoutInv, LoggedIn, Nothing, Without
<1>5. CASE LoggedIn
  <2>1. Without(requests, "login") /\ Without(replies, "login")
    BY <1>5 DEF LoginInv
  <2>2. c.kind # "login" /\ m.kind # "login"
    BY <2>1, <1>2, <1>3 DEF Without
  <2>3. Without(requests', "login") /\ Without(replies', "login")
    <3>1. Without(requests', "login")
      BY <2>1, <1>3 DEF Without
    <3>2. CASE phase = "gone"
      BY <3>1, <3>2, <1>1 DEF Without
    <3>3. CASE phase # "gone"
      BY <3>1, <3>3, <2>1, <2>2, <1>0, <1>1, AddedKinds
    <3> QED
      BY <3>1, <3>2, <3>3
  <2>4. phase = "open" => c.kind # "logout"
    BY <1>3 DEF LogoutInv, Without
  <2>5. LoginInv'
    BY <1>0, <1>1, <1>2, <1>5, <2>3, <2>4 DEF LoginInv, LoggedIn, Nothing
  <2>6. phase = "open" => Without(requests', "logout")
    BY <1>3 DEF LogoutInv, Without
  <2>7. \A i, j \in 1..Len(requests') :
           i < j /\ requests'[i].kind = "logout" => requests'[j].kind = "query-event"
    BY <1>0, <1>3 DEF LogoutInv
  <2>8. ~present' => All(requests', {"query-event"})
    <3> SUFFICES ASSUME ~present' PROVE All(requests', {"query-event"})
      OBVIOUS
    <3>1. CASE c.kind = "logout"
      BY <3>1, <1>0, <1>3 DEF LogoutInv, All
    <3>2. CASE c.kind # "logout"
      <4>1. ~present
        BY <3>2, <1>2
      <4> QED
        BY <4>1, <1>3, <1>5 DEF LogoutInv, All
    <3> QED
      BY <3>1, <3>2
  <2> QED
    BY <1>0, <2>5, <2>6, <2>7, <2>8 DEF LogoutInv
<1> QED
  BY <1>4, <1>5

LEMMA LoginStep ==
    ASSUME TypeOK, LoginInv, LogoutInv, [Next]_vars
    PROVE  LoginInv' /\ LogoutInv'
<1>1. CASE UNCHANGED <<state, phase, requests, replies, present>> /\ (present \/ events' = events)
  BY <1>1 DEF LoginInv, LogoutInv, LoggedIn, Nothing, All, Without
<1>2. CASE UNCHANGED vars
  BY <1>1, <1>2 DEF vars, client, server
<1>3. CASE Tick
  BY <1>1, <1>3, TickShape DEF client
<1> QED
  BY <1>2, <1>3, LoginByFrame, LoginByCloseExit, LoginByPoll, LoginByServe, NextCases

\* Application::run: behind the logout only the queries that other callbacks
\* repeat are sent, so no command but a query can create the player anew.
THEOREM QueriesOnlyAfterLogout == Spec => []OnlyQueriesAfterLogout
<1> DEFINE I == TypeOK /\ LoginInv /\ LogoutInv
<1>1. Init => I
  BY InitType, LoginInit
<1>2. I /\ [Next]_vars => I'
  BY TypeStep, LoginStep
<1>3. I => OnlyQueriesAfterLogout
  <2> SUFFICES ASSUME I PROVE OnlyQueriesAfterLogout
    OBVIOUS
  <2>1. DOMAIN requests = 1..Len(requests)
    BY LenProperties DEF TypeOK
  <2> QED
    BY <2>1 DEF LogoutInv, OnlyQueriesAfterLogout, All
<1> HIDE DEF I
<1> QED
  BY <1>1, <1>2, <1>3, PTL DEF Spec

----------------------------------------------------------------------------
(***************************************************************************)
(* Counting the elements of some kinds.                                    *)
(***************************************************************************)
Positions(s, kinds) == {i \in DOMAIN s : s[i].kind \in kinds}

One(m, kinds) == IF m.kind \in kinds THEN 1 ELSE 0

LEMMA PositionsFinite ==
    ASSUME NEW S, NEW s \in Seq(S), NEW kinds
    PROVE  IsFiniteSet(Positions(s, kinds)) /\ Count(s, kinds) \in Nat
<1>1. DOMAIN s = 1..Len(s) /\ Len(s) \in Nat
  BY LenProperties
<1>2. IsFiniteSet(1..Len(s)) /\ Positions(s, kinds) \in SUBSET (1..Len(s))
  BY <1>1, FS_Interval DEF Positions
<1>3. IsFiniteSet(Positions(s, kinds))
  BY <1>2, FS_Subset
<1> QED
  BY <1>3, FS_CardinalityType DEF Count, Positions

LEMMA CountAdded ==
    ASSUME NEW S, NEW s \in Seq(S), NEW t \in Seq(S), NEW m, Added(s, t, m), NEW kinds
    PROVE  Count(t, kinds) = Count(s, kinds) + One(m, kinds)
<1>1. /\ DOMAIN s = 1..Len(s) /\ Len(s) \in Nat
      /\ DOMAIN t = 1..(Len(s) + 1)
      /\ \A i \in 1..Len(s) : t[i] = s[i]
      /\ t[Len(s) + 1] = m
  BY LenProperties DEF Added
<1>2. IsFiniteSet(Positions(s, kinds)) /\ Count(s, kinds) \in Nat
  BY PositionsFinite
<1>3. Len(s) + 1 \notin Positions(s, kinds)
  BY <1>1 DEF Positions
<1>4. CASE m.kind \in kinds
  <2>1. Positions(t, kinds) = Positions(s, kinds) \cup {Len(s) + 1}
    BY <1>1, <1>4 DEF Positions
  <2>2. Cardinality(Positions(t, kinds)) = Cardinality(Positions(s, kinds)) + 1
    BY <1>2, <1>3, <2>1, FS_AddElement
  <2> QED
    BY <1>4, <2>2 DEF Count, Positions, One
<1>5. CASE m.kind \notin kinds
  <2>1. Positions(t, kinds) = Positions(s, kinds)
    BY <1>1, <1>5 DEF Positions
  <2>2. Count(t, kinds) = Count(s, kinds)
    BY <2>1 DEF Count, Positions
  <2> QED
    BY <1>2, <1>5, <2>2 DEF One
<1> QED
  BY <1>4, <1>5

LEMMA CountShifted ==
    ASSUME NEW S, NEW s \in Seq(S), NEW t \in Seq(S), Shifted(s, t), NEW kinds
    PROVE  Count(s, kinds) = Count(t, kinds) + One(s[1], kinds)
<1>1. /\ DOMAIN s = 1..Len(s) /\ Len(s) \in Nat /\ Len(s) # 0
      /\ DOMAIN t = 1..(Len(s) - 1)
      /\ \A i \in 1..(Len(s) - 1) : t[i] = s[i + 1]
  BY LenProperties DEF Shifted
<1>2. IsFiniteSet(Positions(t, kinds)) /\ Count(t, kinds) \in Nat
  BY PositionsFinite
<1> DEFINE Rest == {i \in 2..Len(s) : s[i].kind \in kinds}
           f == [j \in Positions(t, kinds) |-> j + 1]
<1>3. \A j \in Positions(t, kinds) : j \in Nat /\ j + 1 \in Rest
  BY <1>1 DEF Positions
<1>4. \A i \in Rest : i - 1 \in Positions(t, kinds) /\ (i - 1) + 1 = i
  BY <1>1 DEF Positions
<1>5. f \in [Positions(t, kinds) -> Rest] /\ \A j \in Positions(t, kinds) : f[j] = j + 1
  BY <1>3
<1>6. f \in Bijection(Positions(t, kinds), Rest)
  <2>1. DOMAIN f = Positions(t, kinds)
    OBVIOUS
  <2> HIDE DEF f, Rest
  <2>2. \A a, b \in DOMAIN f : f[a] = f[b] => a = b
    BY <1>3, <1>5, <2>1
  <2>3. \A i \in Rest : \E j \in Positions(t, kinds) : f[j] = i
    BY <1>4, <1>5
  <2> QED
    BY <1>5, <2>2, <2>3 DEF Bijection, Injection, Surjection, IsInjective
<1>7. IsFiniteSet(Rest) /\ Cardinality(Rest) = Cardinality(Positions(t, kinds))
  <2>1. ExistsBijection(Positions(t, kinds), Rest)
    BY <1>6 DEF ExistsBijection
  <2> HIDE DEF Rest
  <2> QED
    BY <1>2, <2>1, FS_Bijection
<1>8. Cardinality(Rest) = Count(t, kinds)
  BY <1>7 DEF Count, Positions
<1>9. 1 \notin Rest
  OBVIOUS
<1>10. CASE s[1].kind \in kinds
  <2>1. Positions(s, kinds) = Rest \cup {1}
    BY <1>1, <1>10 DEF Positions
  <2>2. Cardinality(Positions(s, kinds)) = Cardinality(Rest) + 1
    <3> HIDE DEF Rest
    <3> QED
      BY <1>7, <1>9, <2>1, FS_AddElement
  <2> QED
    BY <1>8, <1>10, <2>2 DEF Count, Positions, One
<1>11. CASE s[1].kind \notin kinds
  <2>1. Positions(s, kinds) = Rest
    BY <1>1, <1>11 DEF Positions
  <2>2. Count(s, kinds) = Cardinality(Rest)
    BY <2>1 DEF Count, Positions
  <2> QED
    BY <1>2, <1>8, <1>11, <2>2 DEF One
<1> QED
  BY <1>10, <1>11

LEMMA CountNone ==
    ASSUME NEW s, NEW kinds, \A i \in DOMAIN s : s[i].kind \notin kinds
    PROVE  Count(s, kinds) = 0
<1>1. {i \in DOMAIN s : s[i].kind \in kinds} = {}
  OBVIOUS
<1> QED
  BY <1>1, FS_EmptySet DEF Count

LEMMA QueryCounts ==
    ASSUME TypeOK
    PROVE  Count(requests, {"query-event"}) \in Nat /\ Count(replies, EventKinds) \in Nat
BY PositionsFinite DEF TypeOK

LEMMA QueryStep ==
    ASSUME TypeOK, TypeOK', LoginInv, OneQueryPending, [Next]_vars
    PROVE  OneQueryPending'
<1> DEFINE Q(s) == Count(s, {"query-event"})
           E(s) == Count(s, EventKinds)
<1>0. /\ requests \in Seq(MessageOf(Commands)) /\ replies \in Seq(MessageOf(ReplyKinds))
      /\ requests' \in Seq(MessageOf(Commands)) /\ replies' \in Seq(MessageOf(ReplyKinds))
      /\ Q(requests) \in Nat /\ E(replies) \in Nat
      /\ DOMAIN requests = 1..Len(requests) /\ DOMAIN replies = 1..Len(replies)
  BY QueryCounts, LenProperties DEF TypeOK
<1>1. CASE UNCHANGED <<state, phase, requests, replies>>
  BY <1>1 DEF OneQueryPending, LoggedIn
<1>2. CASE Login
  <2>1. /\ Added(requests, requests', Command("login"))
        /\ Command("login").kind = "login"
        /\ state = "unlogged_in" /\ phase = "open" /\ state' = "logging"
        /\ UNCHANGED <<phase, replies>>
    BY <1>2, LoginAdds DEF Command, Message
  <2>2. Q(requests') = Q(requests) + 0
    BY <1>0, <2>1, CountAdded DEF One
  <2>3. Q(requests) + E(replies) = 0
    BY <2>1 DEF OneQueryPending, LoggedIn
  <2> QED
    BY <1>0, <2>1, <2>2, <2>3 DEF OneQueryPending, LoggedIn
<1>3. CASE Frame /\ ~Login
  <2>1. PICK r \in Seq(MessageOf(Commands)) :
          /\ Added(requests, r, Command("sync"))
          /\ \/ requests' = r
             \/ \E c : ButtonCommand(c) /\ Added(r, requests', c)
    BY <1>3, FrameAdds
  <2>2. Q(r) = Q(requests) + 0
    <3>1. One(Command("sync"), {"query-event"}) = 0
      BY DEF Command, Message, One
    <3>2. Q(r) = Q(requests) + One(Command("sync"), {"query-event"})
      BY <1>0, <2>1, CountAdded
    <3> QED
      BY <3>1, <3>2
  <2>3. Q(requests') = Q(requests)
    <3>1. Q(r) = Q(requests)
      BY <1>0, <2>2
    <3>2. ASSUME NEW c, ButtonCommand(c), Added(r, requests', c)
          PROVE  Q(requests') = Q(r) + 0
      <4>1. One(c, {"query-event"}) = 0
        BY <3>2 DEF ButtonCommand, One
      <4>2. Q(requests') = Q(r) + One(c, {"query-event"})
        BY <1>0, <3>2, CountAdded
      <4> QED
        BY <4>1, <4>2
    <3> QED
      BY <1>0, <2>1, <3>1, <3>2
  <2>4. LoggedIn /\ LoggedIn' /\ UNCHANGED <<phase, replies>>
    BY <1>3, FrameShape DEF LoggedIn
  <2> HIDE DEF Q, E
  <2>5. Q(requests') = Q(requests) /\ E(replies') = E(replies)
    BY <2>3, <2>4
  <2> QED
    BY <2>4, <2>5 DEF OneQueryPending, Q, E
<1>4. CASE Close \/ Exit
  <2>1. CASE phase' = "gone"
    BY <2>1 DEF OneQueryPending
  <2>2. CASE phase' # "gone"
    <3>1. /\ phase = "open" /\ LoggedIn /\ requests' = Append(requests, Command("logout"))
          /\ UNCHANGED <<client, replies>> /\ Command("logout").kind = "logout"
      BY <1>4, <2>2, CloseExitShape
    <3>2. Command("logout") \in MessageOf(Commands)
      BY CommandTypes DEF Commands
    <3>3. Q(requests') = Q(requests) + 0
      <4>1. Added(requests, requests', Command("logout"))
        BY <1>0, <3>1, <3>2, AppendAdds
      <4>2. Q(requests') = Q(requests) + One(Command("logout"), {"query-event"})
        BY <1>0, <4>1, CountAdded
      <4> QED
        BY <3>1, <4>2 DEF One
    <3> QED
      BY <1>0, <3>1, <3>3 DEF OneQueryPending, LoggedIn, client
  <2> QED
    BY <2>1, <2>2
<1>5. CASE Poll
  <2> DEFINE h == replies[1]
  <2>1. /\ Shifted(replies, replies') /\ phase # "gone" /\ phase' = phase
        /\ Command("query-event").kind = "query-event"
        /\ IF h.kind \in EventKinds \cup {"login"}
           THEN Added(requests, requests', Command("query-event"))
           ELSE requests' = requests
    BY <1>5, PollShape, PollAdds
  <2>2. E(replies) = E(replies') + One(h, EventKinds)
    BY <1>0, <2>1, CountShifted
  <2>3. Q(requests') = Q(requests) + (IF h.kind \in EventKinds \cup {"login"} THEN 1 ELSE 0)
    <3>1. CASE h.kind \in EventKinds \cup {"login"}
      <4>1. Q(requests') = Q(requests) + One(Command("query-event"), {"query-event"})
        BY <1>0, <2>1, <3>1, CountAdded
      <4> QED
        BY <3>1, <4>1, <2>1 DEF One
    <3>2. CASE h.kind \notin EventKinds \cup {"login"}
      <4> HIDE DEF Q
      <4> QED
        BY <1>0, <2>1, <3>2
    <3> QED
      BY <3>1, <3>2
  <2>4. "login" \notin EventKinds
    BY DEF EventKinds
  <2>5. Len(replies) # 0 /\ Len(replies) \in Nat
    BY <2>1, LengthTypes DEF Shifted
  <2>6. CASE LoggedIn
    <3>1. h.kind # "login"
      BY <2>5, <2>6 DEF LoginInv, Without
    <3>2. LoggedIn'
      BY <3>1, <2>6, <1>5, PollState DEF LoggedIn
    <3>3. Q(requests) + E(replies) = 1
      BY <2>1, <2>6 DEF OneQueryPending
    <3>4. Q(requests') + E(replies') = 1
      <4>1. E(replies') \in Nat
        BY <1>0, PositionsFinite
      <4> HIDE DEF Q, E
      <4> QED
        BY <1>0, <2>2, <2>3, <3>1, <3>3, <4>1 DEF One
    <3> QED
      BY <3>2, <3>4, <2>1 DEF OneQueryPending
  <2>7. CASE ~LoggedIn
    <3>1. state = "logging" /\ h.kind = "login"
      BY <2>5, <2>7 DEF LoginInv, LoggedIn, Nothing, All
    <3>2. LoggedIn'
      BY <3>1, <1>5, PollState DEF LoggedIn
    <3>3. Q(requests) + E(replies) = 0
      BY <2>1, <2>7 DEF OneQueryPending
    <3>4. Q(requests') + E(replies') = 1
      <4>1. E(replies') \in Nat
        BY <1>0, PositionsFinite
      <4> HIDE DEF Q, E
      <4> QED
        BY <1>0, <2>2, <2>3, <2>4, <3>1, <3>3, <4>1 DEF One
    <3> QED
      BY <3>2, <3>4, <2>1 DEF OneQueryPending
  <2> QED
    BY <2>6, <2>7
<1>6. CASE Serve
  <2>1. /\ Shifted(requests, requests') /\ UNCHANGED <<state, phase>>
    BY <1>6, ServeFrame DEF client
  <2>2. CASE phase = "gone"
    BY <2>1, <2>2 DEF OneQueryPending
  <2>3. CASE phase # "gone"
    <3>1. PICK m \in MessageOf(ReplyKinds) :
            Added(replies, replies', m) /\ Served(requests[1], m)
      BY <1>6, <2>3, ServeAdds
    <3>2. requests[1].kind = "query-event" <=> m.kind \in EventKinds
      BY <3>1, ServedKinds
    <3>3. Q(requests) = Q(requests') + One(requests[1], {"query-event"})
      BY <1>0, <2>1, CountShifted
    <3>4. E(replies') = E(replies) + One(m, EventKinds)
      BY <1>0, <3>1, CountAdded
    <3>5. One(m, EventKinds) = One(requests[1], {"query-event"})
          /\ One(m, EventKinds) \in {0, 1}
      BY <3>2 DEF One
    <3>6. Q(requests') \in Nat
      BY <1>0, PositionsFinite
    <3>7. Q(requests') + E(replies') = Q(requests) + E(replies)
      <4> HIDE DEF Q, E
      <4> QED
        BY <1>0, <3>3, <3>4, <3>5, <3>6
    <3> HIDE DEF Q, E
    <3> QED
      BY <2>1, <3>7 DEF OneQueryPending, LoggedIn, Q, E
  <2> QED
    BY <2>2, <2>3
<1>7. CASE Tick
  BY <1>1, <1>7, TickShape DEF client
<1>8. CASE UNCHANGED vars
  BY <1>1, <1>8 DEF vars, client
<1> QED
  BY <1>2, <1>3, <1>4, <1>5, <1>6, <1>7, <1>8, NextCases

\* schedule_continuous_query_event keeps exactly one query on its way while the
\* client is logged in: requests and replies that are events always count one.
THEOREM QueriesNeitherDryUpNorDouble == Spec => []OneQueryPending
<1> DEFINE I == TypeOK /\ LoginInv /\ LogoutInv /\ OneQueryPending
<1>1. Init => I
  <2> SUFFICES ASSUME Init PROVE OneQueryPending
    BY InitType, LoginInit
  <2>1. requests = <<>> /\ replies = <<>> /\ state = "unlogged_in" /\ DOMAIN <<>> = {}
    BY DEF Init
  <2>2. Count(requests, {"query-event"}) = 0 /\ Count(replies, EventKinds) = 0
    BY <2>1, CountNone
  <2> QED
    BY <2>1, <2>2 DEF OneQueryPending, LoggedIn
<1>2. I /\ [Next]_vars => I'
  BY TypeStep, LoginStep, QueryStep
<1>3. I => OneQueryPending
  OBVIOUS
<1> HIDE DEF I
<1> QED
  BY <1>1, <1>2, <1>3, PTL DEF Spec

----------------------------------------------------------------------------
(***************************************************************************)
(* Battles: what a step does to each of them.                              *)
(***************************************************************************)
LEMMA BattleAppended ==
    ASSUME NEW bs \in Seq(BattleType), NEW side \in Sides
    PROVE  LET t == Append(bs, NewBattle(side))
           IN  /\ Len(bs) + 1 \in DOMAIN t
               /\ t[Len(bs) + 1].from = side /\ ~t[Len(bs) + 1].ended
               /\ \A k \in DOMAIN bs : k \in DOMAIN t /\ t[k] = bs[k]
<1> DEFINE t == Append(bs, NewBattle(side))
<1>1. NewBattle(side) \in BattleType
  BY NewBattleType
<1>2. t \in Seq(BattleType) /\ Added(bs, t, NewBattle(side))
  BY <1>1, AppendAdds
<1>3. DOMAIN bs = 1..Len(bs) /\ Len(bs) \in Nat /\ DOMAIN t = 1..Len(t)
  BY <1>2, LenProperties
<1>4. NewBattle(side).from = side /\ ~NewBattle(side).ended
  BY DEF NewBattle
<1> HIDE DEF t
<1> QED
  BY <1>2, <1>3, <1>4 DEF Added, t

LEMMA BattleEnded ==
    ASSUME NEW bs \in Seq(BattleType), NEW k \in DOMAIN bs
    PROVE  LET t == [bs EXCEPT ![k].ended = TRUE]
           IN  /\ DOMAIN t = DOMAIN bs
               /\ t[k].ended /\ t[k].from = bs[k].from
               /\ \A j \in DOMAIN bs : j # k => t[j] = bs[j]
<1>1. k \in 1..Len(bs) /\ bs[k] \in BattleType
  BY LenProperties, ElementOfSeq
<1>2. [bs[k] EXCEPT !.ended = TRUE].ended /\ [bs[k] EXCEPT !.ended = TRUE].from = bs[k].from
  BY <1>1 DEF BattleType
<1> QED
  BY <1>2

LEMMA BattleHit ==
    ASSUME NEW bs \in Seq(BattleType), NEW k \in DOMAIN bs
    PROVE  LET t == [bs EXCEPT ![k].hits = @ + 1]
           IN  /\ DOMAIN t = DOMAIN bs
               /\ \A j \in DOMAIN bs : t[j].ended = bs[j].ended /\ t[j].from = bs[j].from
<1>1. k \in 1..Len(bs) /\ bs[k] \in BattleType
  BY LenProperties, ElementOfSeq
<1> DEFINE b == [bs[k] EXCEPT !.hits = bs[k].hits + 1]
<1>2. b.ended = bs[k].ended /\ b.from = bs[k].from
  BY <1>1 DEF BattleType
<1>3. [bs EXCEPT ![k].hits = @ + 1] = [bs EXCEPT ![k] = b]
  OBVIOUS
<1> HIDE DEF b
<1> QED
  BY <1>2, <1>3

\* A step keeps every battle and who started it, and none that is over goes on.
Grown ==
    \A k \in DOMAIN battles :
        /\ k \in DOMAIN battles' /\ battles'[k].from = battles[k].from
        /\ battles[k].ended => battles'[k].ended

NewlyEnded(k) == k \in DOMAIN battles /\ battles'[k].ended /\ ~battles[k].ended

LEMMA ServeBattles ==
    ASSUME TypeOK, NEW c, NEW m, Served(c, m)
    PROVE  /\ Grown
           /\ \A k : NewlyEnded(k) => /\ k = c.number + 1
                                      /\ m = Message("escaped", "me", c.number)
           /\ m.kind = "battle" => /\ m.number + 1 \in DOMAIN battles'
                                   /\ battles'[m.number + 1].from = "me"
                                   /\ ~battles'[m.number + 1].ended
           /\ m.kind = "escaped" => /\ c.kind = "escape" /\ m.number = c.number
                                    /\ battles'[c.number + 1].ended
           /\ m.kind = "game-end" => events # <<>> /\ m = events[1]
           /\ m.kind \in {"battle", "escaped"} => events' = events
<1>0. battles \in Seq(BattleType) /\ "me" \in Sides
  BY DEF TypeOK, BattleType, Sides
<1>1. CASE battles' = battles /\ m.kind \notin {"battle", "escaped", "game-end"}
  BY <1>1 DEF Grown, NewlyEnded
<1>2. CASE battles' = battles /\ events # <<>> /\ m = events[1]
           /\ m.kind \notin {"battle", "escaped"}
  BY <1>2 DEF Grown, NewlyEnded
<1>3. CASE /\ battles' = Append(battles, NewBattle("me"))
           /\ m = Message("battle", "me", Len(battles))
           /\ events' = events
  <2>1. m.kind = "battle" /\ m.number = Len(battles)
    BY <1>3 DEF Message
  <2>2. /\ Len(battles) + 1 \in DOMAIN battles'
        /\ battles'[Len(battles) + 1].from = "me" /\ ~battles'[Len(battles) + 1].ended
        /\ \A k \in DOMAIN battles : k \in DOMAIN battles' /\ battles'[k] = battles[k]
    BY <1>0, <1>3, BattleAppended
  <2> QED
    BY <1>3, <2>1, <2>2, Zenon DEF Grown, NewlyEnded
<1>4. CASE /\ c.kind = "escape"
           /\ c.number + 1 \in DOMAIN battles
           /\ battles' = [battles EXCEPT ![c.number + 1].ended = TRUE]
           /\ m = Message("escaped", "me", c.number)
           /\ events' = events
  <2>1. m.kind = "escaped" /\ m.number = c.number
    BY <1>4 DEF Message
  <2>2. /\ DOMAIN battles' = DOMAIN battles
        /\ battles'[c.number + 1].ended
        /\ battles'[c.number + 1].from = battles[c.number + 1].from
        /\ \A j \in DOMAIN battles : j # c.number + 1 => battles'[j] = battles[j]
    BY <1>0, <1>4, BattleEnded
  <2> QED
    BY <1>4, <2>1, <2>2, Zenon DEF Grown, NewlyEnded
<1>5. \/ battles' = battles /\ m.kind \notin {"battle", "escaped", "game-end"}
      \/ /\ battles' = battles /\ events # <<>> /\ m = events[1]
         /\ m.kind \notin {"battle", "escaped"}
      \/ /\ battles' = Append(battles, NewBattle("me"))
         /\ m = Message("battle", "me", Len(battles))
         /\ events' = events
      \/ /\ c.kind = "escape"
         /\ c.number + 1 \in DOMAIN battles
         /\ battles' = [battles EXCEPT ![c.number + 1].ended = TRUE]
         /\ m = Message("escaped", "me", c.number)
         /\ events' = events
  BY DEF Served, Message, Command, EventKinds, server
<1> QED
  BY <1>1, <1>2, <1>3, <1>4, <1>5

LEMMA TickBattles ==
    ASSUME TypeOK, NEW e \in MessageOf(EventKinds \ {"none"}), Ticked(e)
    PROVE  /\ Grown
           /\ \A k : NewlyEnded(k) /\ battles[k].from = "me" =>
                        e.kind = "game-end" /\ e.number = k - 1
           /\ e.kind = "game-end" => /\ e.number + 1 \in DOMAIN battles'
                                     /\ battles'[e.number + 1].from = "me"
                                     /\ battles'[e.number + 1].ended
<1>0. battles \in Seq(BattleType) /\ "foe" \in Sides
  BY DEF TypeOK, BattleType, Sides
<1>1. CASE e.kind = "health-drop"
           /\ \E k \in DOMAIN battles : battles' = [battles EXCEPT ![k].hits = @ + 1]
  <2>1. /\ DOMAIN battles' = DOMAIN battles
        /\ \A j \in DOMAIN battles : battles'[j].ended = battles[j].ended
                                       /\ battles'[j].from = battles[j].from
    BY <1>0, <1>1, BattleHit
  <2> QED
    BY <1>1, <2>1 DEF Grown, NewlyEnded
<1>2. ASSUME NEW k \in DOMAIN battles,
             battles' = [battles EXCEPT ![k].ended = TRUE],
             battles[k].from = "me" => e.kind = "game-end" /\ e.number = k - 1,
             battles[k].from # "me" => e.kind = "shown"
      PROVE  /\ Grown
             /\ \A j : NewlyEnded(j) /\ battles[j].from = "me" =>
                          e.kind = "game-end" /\ e.number = j - 1
             /\ e.kind = "game-end" => /\ e.number + 1 \in DOMAIN battles'
                                       /\ battles'[e.number + 1].from = "me"
                                       /\ battles'[e.number + 1].ended
  <2>1. /\ DOMAIN battles' = DOMAIN battles
        /\ battles'[k].ended /\ battles'[k].from = battles[k].from
        /\ \A j \in DOMAIN battles : j # k => battles'[j] = battles[j]
    BY <1>0, <1>2, BattleEnded
  <2>2. k - 1 + 1 = k
    BY <1>0, LenProperties
  <2>3. Grown
    BY <2>1, Zenon DEF Grown
  <2>4. \A j : NewlyEnded(j) => j = k
    BY <2>1, Zenon DEF NewlyEnded
  <2>5. e.kind = "game-end" => battles[k].from = "me" /\ e.number + 1 = k
    BY <1>2, <2>2
  <2> QED
    BY <1>2, <2>1, <2>3, <2>4, <2>5, Zenon
<1>3. CASE e.kind = "shown" /\ battles' = Append(battles, NewBattle("foe"))
  <2>1. \A k \in DOMAIN battles : k \in DOMAIN battles' /\ battles'[k] = battles[k]
    BY <1>0, <1>3, BattleAppended
  <2> QED
    BY <1>3, <2>1 DEF Grown, NewlyEnded
<1> QED
  BY <1>1, <1>2, <1>3 DEF Ticked

Known(bs, n) == n + 1 \in DOMAIN bs /\ bs[n + 1].from = "me"
Over(bs, n) == Known(bs, n) /\ bs[n + 1].ended

\* Whatever names a battle names one that this client has started, and what
\* closes the view of a battle speaks of one that is over.
KnownInv ==
    /\ \A i \in 1..Len(requests) : requests[i].kind = "escape" => Known(battles, requests[i].number)
    /\ \A i \in 1..Len(replies) :
          /\ replies[i].kind = "battle" => Known(battles, replies[i].number)
          /\ replies[i].kind \in {"escaped", "game-end"} => Over(battles, replies[i].number)
    /\ \A i \in 1..Len(events) : events[i].kind = "game-end" => Over(battles, events[i].number)
    /\ state = "battling" => Known(battles, battleId)

LEMMA GrownKnows ==
    ASSUME Grown
    PROVE  \A n : (Known(battles, n) => Known(battles', n)) /\ (Over(battles, n) => Over(battles', n))
BY DEF Grown, Known, Over

LEMMA SameKnows ==
    ASSUME battles' = battles
    PROVE  \A n : (Known(battles', n) <=> Known(battles, n)) /\ (Over(battles', n) <=> Over(battles, n))
BY DEF Known, Over

LEMMA KnownByClient ==
    ASSUME TypeOK, LoginInv, KnownInv, Frame \/ Close \/ Exit \/ Poll
    PROVE  KnownInv'
<1>0. /\ Len(requests) \in Nat /\ Len(replies) \in Nat
      /\ UNCHANGED <<battles, events>>
  <2>1. UNCHANGED <<battles, events>>
    BY LoginAdds, FrameShape, CloseExitShape, PollShape DEF server
  <2> QED
    BY <2>1, LengthTypes
<1>1. \A n : (Known(battles', n) <=> Known(battles, n)) /\ (Over(battles', n) <=> Over(battles, n))
  BY <1>0, SameKnows
<1>2. ASSUME \A i \in 1..Len(requests') :
                requests'[i].kind = "escape" => Known(battles, requests'[i].number),
             \A i \in 1..Len(replies') :
                \E j \in 1..Len(replies) : replies'[i] = replies[j],
             state' = "battling" => Known(battles, battleId')
      PROVE  KnownInv'
  <2>1. \A i \in 1..Len(replies') :
          /\ replies'[i].kind = "battle" => Known(battles, replies'[i].number)
          /\ replies'[i].kind \in {"escaped", "game-end"} => Over(battles, replies'[i].number)
    BY <1>2 DEF KnownInv
  <2>2. \A i \in 1..Len(events) : events[i].kind = "game-end" => Over(battles, events[i].number)
    BY DEF KnownInv
  <2> QED
    BY <1>0, <1>1, <1>2, <2>1, <2>2, Zenon DEF KnownInv
<1>3. CASE Login
  <2>1. /\ Added(requests, requests', Command("login")) /\ Command("login").kind = "login"
        /\ state' = "logging" /\ replies' = replies
    BY <1>3, LoginAdds DEF Command, Message
  <2>2. \A i \in 1..Len(requests') : requests'[i].kind = "escape" => Known(battles, requests'[i].number)
    BY <1>0, <2>1 DEF Added, KnownInv
  <2> QED
    BY <1>2, <2>1, <2>2
<1>4. CASE Frame /\ ~Login
  <2>1. /\ state' = "battling" => state = "battling"
        /\ battleId' = battleId /\ replies' = replies
    BY <1>4, FrameShape
  <2>2. ASSUME NEW i \in 1..Len(requests'), requests'[i].kind = "escape"
        PROVE  Known(battles, requests'[i].number)
    <3>1. CASE i \in 1..Len(requests)
      BY <3>1, <2>2, <1>4, FrameElements DEF KnownInv
    <3>2. CASE i \in (Len(requests) + 1)..Len(requests')
      <4>1. ButtonCommand(requests'[i])
        BY <3>2, <2>2, <1>4, FrameElements
      <4> QED
        BY <4>1, <2>2 DEF ButtonCommand, KnownInv
    <3>3. Len(requests') \in Nat
      BY <1>4, FrameElements
    <3> QED
      BY <3>1, <3>2, <3>3, <1>0
  <2>3. state = "battling" => Known(battles, battleId)
    BY DEF KnownInv
  <2>4. state' = "battling" => Known(battles, battleId')
    BY <2>1, <2>3
  <2> QED
    BY <1>2, <2>1, <2>2, <2>4
<1>5. CASE Close \/ Exit
  <2>1. /\ state' = state /\ battleId' = battleId
        /\ replies' = replies \/ Len(replies') = 0
        /\ requests' \in Seq(MessageOf(Commands))
    BY <1>5, CloseExitShape, EmptySeq DEF client
  <2>2. \A i \in 1..Len(requests') :
          requests'[i].kind = "escape" =>
             \E j \in 1..Len(requests) : requests'[i] = requests[j]
    <3>1. CASE requests' = Append(requests, Command("logout"))
      <4>1. requests \in Seq(MessageOf(Commands)) /\ Command("logout") \in MessageOf(Commands)
        BY CommandTypes DEF TypeOK, Commands
      <4>2. Added(requests, requests', Command("logout")) /\ Command("logout").kind = "logout"
        BY <3>1, <4>1, AppendAdds DEF Command, Message
      <4>3. \A i \in 1..Len(requests') : i \in 1..Len(requests) \/ i = Len(requests) + 1
        BY <4>2, <1>0 DEF Added
      <4> QED
        BY <4>2, <4>3 DEF Added
    <3>2. CASE /\ Len(requests') <= Len(requests)
               /\ \A i \in 1..Len(requests') : requests'[i] = requests[i]
      <4>1. Len(requests') \in Nat
        BY <2>1, LenProperties
      <4>2. \A i \in 1..Len(requests') : i \in 1..Len(requests)
        BY <3>2, <4>1, <1>0
      <4> QED
        BY <3>2, <4>2
    <3> QED
      BY <3>1, <3>2, <1>5, CloseExitShape
  <2>3. \A i \in 1..Len(requests') : requests'[i].kind = "escape" => Known(battles, requests'[i].number)
    BY <2>2 DEF KnownInv
  <2>4. \A i \in 1..Len(replies') : \E j \in 1..Len(replies) : replies'[i] = replies[j]
    BY <2>1
  <2>5. state' = "battling" => Known(battles, battleId')
    BY <2>1 DEF KnownInv
  <2> QED
    BY <1>2, <2>3, <2>4, <2>5
<1>6. CASE Poll
  <2>1. /\ Shifted(replies, replies')
        /\ Command("query-event").kind = "query-event"
        /\ \/ Added(requests, requests', Command("query-event"))
           \/ requests' = requests
    BY <1>6, PollShape, PollAdds
  <2>2. \A i \in 1..Len(requests') : requests'[i].kind = "escape" => Known(battles, requests'[i].number)
    <3>1. \A i \in 1..Len(requests) : requests[i].kind = "escape" => Known(battles, requests[i].number)
      BY DEF KnownInv
    <3>2. CASE requests' = requests
      BY <3>1, <3>2
    <3>3. CASE Added(requests, requests', Command("query-event"))
      <4>1. \A i \in 1..Len(requests') : i \in 1..Len(requests) \/ i = Len(requests) + 1
        BY <3>3, <1>0 DEF Added
      <4> QED
        BY <2>1, <3>1, <3>3, <4>1 DEF Added
    <3> QED
      BY <3>2, <3>3, <2>1
  <2>3. \A i \in 1..Len(replies') : \E j \in 1..Len(replies) : replies'[i] = replies[j]
    <3>1. \A i \in 1..Len(replies') : i + 1 \in 1..Len(replies) /\ replies'[i] = replies[i + 1]
      BY <2>1, <1>0 DEF Shifted
    <3> QED
      BY <3>1
  <2>4. state' = "battling" => Known(battles, battleId')
    <3>1. 1 \in 1..Len(replies)
      BY <2>1, <1>0 DEF Shifted
    <3>2. replies[1].kind = "battle" => Known(battles, replies[1].number)
      BY <3>1 DEF KnownInv
    <3>3. state = "battling" => Known(battles, battleId)
      BY DEF KnownInv
    <3> QED
      BY <1>6, <3>2, <3>3, PollState
  <2> QED
    BY <1>2, <2>2, <2>3, <2>4
<1> QED
  BY <1>3, <1>4, <1>5, <1>6

LEMMA KnownByServe ==
    ASSUME TypeOK, KnownInv, Serve
    PROVE  KnownInv'
<1> DEFINE c == requests[1]
<1>0. /\ Len(requests) \in Nat /\ Len(replies) \in Nat /\ Len(events) \in Nat
      /\ Shifted(requests, requests')
      /\ UNCHANGED <<state, battleId, phase>>
  BY LengthTypes, ServeFrame DEF client
<1>1. PICK m \in MessageOf(ReplyKinds) :
        /\ phase = "gone" => Len(replies') = 0
        /\ phase # "gone" => Added(replies, replies', m)
        /\ Served(c, m)
  BY ServeAdds
<1>2. Grown
  BY <1>1, ServeBattles
<1>3. \A n : (Known(battles, n) => Known(battles', n)) /\ (Over(battles, n) => Over(battles', n))
  BY <1>2, GrownKnows
<1>4. \A i \in 1..Len(requests') : requests'[i] = requests[i + 1] /\ i + 1 \in 1..Len(requests)
  BY <1>0 DEF Shifted
<1>5. 1 \in 1..Len(requests)
  BY <1>0 DEF Shifted
<1>6. /\ m.kind = "battle" => Known(battles', m.number)
      /\ m.kind = "escaped" => Over(battles', m.number)
      /\ m.kind = "game-end" => Over(battles', m.number)
  <2>1. m.kind = "battle" => Known(battles', m.number)
    BY <1>1, ServeBattles DEF Known
  <2>2. m.kind = "escaped" => Over(battles', m.number)
    <3> SUFFICES ASSUME m.kind = "escaped" PROVE Over(battles', m.number)
      OBVIOUS
    <3>1. c.kind = "escape" /\ m.number = c.number /\ battles'[c.number + 1].ended
      BY <1>1, ServeBattles
    <3>2. Known(battles, c.number)
      BY <1>5, <3>1 DEF KnownInv
    <3>3. Known(battles', c.number)
      BY <1>3, <3>2
    <3> QED
      BY <3>1, <3>3 DEF Over
  <2>3. m.kind = "game-end" => Over(battles', m.number)
    <3> SUFFICES ASSUME m.kind = "game-end" PROVE Over(battles', m.number)
      OBVIOUS
    <3>1. events # <<>> /\ m = events[1]
      BY <1>1, ServeBattles
    <3>2. 1 \in 1..Len(events)
      BY <3>1, <1>0, EmptySeq DEF TypeOK
    <3>3. Over(battles, m.number)
      BY <3>1, <3>2 DEF KnownInv
    <3> QED
      BY <1>3, <3>3
  <2> QED
    BY <2>1, <2>2, <2>3
<1>7. \A i \in 1..Len(requests') :
        requests'[i].kind = "escape" => Known(battles', requests'[i].number)
  BY <1>3, <1>4 DEF KnownInv
<1>8. \A i \in 1..Len(replies') :
        /\ replies'[i].kind = "battle" => Known(battles', replies'[i].number)
        /\ replies'[i].kind \in {"escaped", "game-end"} => Over(battles', replies'[i].number)
  <2>1. CASE phase = "gone"
    BY <2>1, <1>1
  <2>2. CASE phase # "gone"
    <3>1. \A i \in 1..Len(replies') :
            \/ i \in 1..Len(replies) /\ replies'[i] = replies[i]
            \/ replies'[i] = m
      BY <1>0, <1>1, <2>2 DEF Added
    <3>2. \A i \in 1..Len(replies) :
            /\ replies[i].kind = "battle" => Known(battles', replies[i].number)
            /\ replies[i].kind \in {"escaped", "game-end"} => Over(battles', replies[i].number)
      BY <1>3 DEF KnownInv
    <3> QED
      BY <1>6, <3>1, <3>2
  <2> QED
    BY <2>1, <2>2
<1>9. \A i \in 1..Len(events') : events'[i].kind = "game-end" => Over(battles', events'[i].number)
  <2>0. \A i \in 1..Len(events) : events[i].kind = "game-end" => Over(battles', events[i].number)
    BY <1>3 DEF KnownInv
  <2>1. CASE events' = events
    BY <2>0, <2>1
  <2>2. CASE Shifted(events, events')
    <3>1. \A i \in 1..Len(events') : i + 1 \in 1..Len(events) /\ events'[i] = events[i + 1]
      BY <2>2, <1>0 DEF Shifted
    <3> QED
      BY <2>0, <3>1
  <2>3. CASE events' = Append(events, Message("cure", "me", KitHeal))
    <3>1. Message("cure", "me", KitHeal) \in MessageOf(EventKinds \ {"none"})
      BY HealthAssumption, MessageType DEF EventKinds, Sides
    <3>2. /\ Added(events, events', Message("cure", "me", KitHeal))
          /\ Message("cure", "me", KitHeal).kind = "cure"
      BY <2>3, <3>1, TickAdds DEF Message
    <3>3. \A i \in 1..Len(events') : i \in 1..Len(events) \/ i = Len(events) + 1
      BY <3>2, <1>0 DEF Added
    <3> QED
      BY <2>0, <3>2, <3>3 DEF Added
  <2> QED
    BY <1>1, <2>1, <2>2, <2>3 DEF Served, server
<1>10. state' = "battling" => Known(battles', battleId')
  BY <1>0, <1>3 DEF KnownInv
<1> QED
  BY <1>7, <1>8, <1>9, <1>10 DEF KnownInv

LEMMA KnownByTick ==
    ASSUME TypeOK, KnownInv, Tick
    PROVE  KnownInv'
<1>0. UNCHANGED <<state, battleId, requests, replies>> /\ Len(events) \in Nat
  BY LengthTypes, TickShape DEF client
<1>1. CASE UNCHANGED <<battles, events>>
  BY <1>0, <1>1 DEF KnownInv, Known, Over
<1>2. ASSUME NEW e \in MessageOf(EventKinds \ {"none"}),
             events' = Append(events, e), Ticked(e)
      PROVE  KnownInv'
  <2>1. \A n : /\ Known(battles, n) => Known(battles', n)
               /\ Over(battles, n) => Over(battles', n)
    BY <1>2, TickBattles, GrownKnows
  <2>2. e.kind = "game-end" => Over(battles', e.number)
    BY <1>2, TickBattles DEF Over, Known
  <2>3. Added(events, events', e)
    BY <1>2, TickAdds
  <2>4. \A i \in 1..Len(events') : events'[i].kind = "game-end" => Over(battles', events'[i].number)
    <3>1. \A i \in 1..Len(events') : \/ i \in 1..Len(events) /\ events'[i] = events[i]
                                     \/ events'[i] = e
      BY <2>3, <1>0 DEF Added
    <3>2. \A i \in 1..Len(events) : events[i].kind = "game-end" => Over(battles', events[i].number)
      BY <2>1 DEF KnownInv
    <3> QED
      BY <2>2, <3>1, <3>2
  <2>5. /\ \A i \in 1..Len(requests) :
              requests[i].kind = "escape" => Known(battles', requests[i].number)
        /\ \A i \in 1..Len(replies) :
              /\ replies[i].kind = "battle" => Known(battles', replies[i].number)
              /\ replies[i].kind \in {"escaped", "game-end"} => Over(battles', replies[i].number)
        /\ state = "battling" => Known(battles', battleId)
    BY <2>1 DEF KnownInv
  <2> QED
    BY <1>0, <2>4, <2>5 DEF KnownInv
<1> QED
  BY <1>1, <1>2, TickShape

LEMMA KnownStep ==
    ASSUME TypeOK, LoginInv, KnownInv, [Next]_vars
    PROVE  KnownInv'
<1>1. CASE UNCHANGED vars
  BY <1>1 DEF vars, client, server, KnownInv, Known, Over
<1> QED
  BY <1>1, KnownByClient, KnownByServe, KnownByTick, NextCases

LEMMA KnownInit == Init => KnownInv
<1> SUFFICES ASSUME Init PROVE KnownInv
  OBVIOUS
<1>1. Len(requests) = 0 /\ Len(replies) = 0 /\ Len(events) = 0 /\ state = "unlogged_in"
  BY DEF Init
<1> QED
  BY <1>1 DEF KnownInv

ClientInv == TypeOK /\ LoginInv /\ LogoutInv /\ KnownInv

\* Application's states and what is on its way fit together: before the login is
\* answered nothing else is sent, behind a logout only queries are, and a battle
\* that is shown, escaped from or announced as over is one this client has started.
\* The theorems below rest on it.
THEOREM ClientInvariant == Spec => []ClientInv
<1>1. Init => ClientInv
  BY InitType, LoginInit, KnownInit DEF ClientInv
<1>2. ClientInv /\ [Next]_vars => ClientInv'
  BY TypeStep, LoginStep, KnownStep DEF ClientInv
<1> QED
  BY <1>1, <1>2, PTL DEF Spec

\* _battles.at never throws for an escape: every escape on its way names a battle
\* that the server has and that this client has started.
THEOREM EscapesNameKnownBattles == Spec => []EscapeKnowsBattle
<1>1. ClientInv => EscapeKnowsBattle
  <2> SUFFICES ASSUME ClientInv PROVE EscapeKnowsBattle
    OBVIOUS
  <2>1. DOMAIN requests = 1..Len(requests)
    BY LenProperties DEF TypeOK, ClientInv
  <2> QED
    BY <2>1 DEF ClientInv, KnownInv, Known, EscapeKnowsBattle
<1> QED
  BY <1>1, ClientInvariant, PTL

\* A client that has started one battle only leaves the view of a battle when
\* that battle is over, whichever event or reply makes it leave.
THEOREM OnlyEndedBattlesAreLeft == Spec => LeavesOnlyItsOwnBattle
<1>1. ClientInv /\ [Next]_vars =>
        [state = "battling" /\ state' # "battling" =>
           battles[battleId + 1].ended \/ Cardinality(Own) > 1]_vars
  <2> SUFFICES ASSUME ClientInv, [Next]_vars, state = "battling", state' # "battling"
               PROVE  battles[battleId + 1].ended \/ Cardinality(Own) > 1
    OBVIOUS
  <2>0. TypeOK /\ LoginInv /\ KnownInv /\ LoggedIn
    BY DEF ClientInv, LoggedIn
  <2>1. Poll
    <3>1. ~Login /\ ~(UNCHANGED vars)
      BY DEF Login, vars, client
    <3>2. CASE Frame
      BY <3>1, <3>2, <2>0, FrameShape
    <3>3. CASE Close \/ Exit \/ Serve \/ Tick
      BY <3>3, <2>0, CloseExitShape, ServeFrame, TickShape DEF client
    <3> QED
      BY <3>1, <3>2, <3>3, NextCases
  <2> DEFINE h == replies[1]
  <2>2. 1 \in 1..Len(replies)
    BY <2>0, <2>1, PollShape, LengthTypes DEF Shifted
  <2>3. h.kind \in {"game-end", "escaped"}
    <3>1. h.kind # "login"
      BY <2>0, <2>2 DEF LoginInv, Without
    <3> QED
      BY <3>1, <2>0, <2>1, PollState
  <2>4. Over(battles, h.number) /\ Known(battles, battleId)
    BY <2>0, <2>2, <2>3 DEF KnownInv
  <2>5. CASE h.number = battleId
    BY <2>4, <2>5 DEF Over
  <2>6. CASE h.number # battleId
    <3> DEFINE a == h.number + 1
               b == battleId + 1
    <3>1. a \in Own /\ b \in Own
      BY <2>4 DEF Over, Known, Own
    <3>2. a # b
      <4>1. h \in MessageOf(ReplyKinds) /\ battleId \in Nat
        BY <2>0, <2>2, ElementOfSeq DEF TypeOK
      <4>2. h.number \in Nat
        BY <4>1 DEF MessageOf
      <4> QED
        BY <2>6, <4>1, <4>2
    <3>3. IsFiniteSet(Own)
      <4>1. DOMAIN battles = 1..Len(battles) /\ Len(battles) \in Nat
        BY <2>0, LenProperties DEF TypeOK
      <4>2. IsFiniteSet(1..Len(battles)) /\ Own \in SUBSET (1..Len(battles))
        BY <4>1, FS_Interval DEF Own
      <4> QED
        BY <4>2, FS_Subset
    <3> HIDE DEF a, b
    <3>4. IsFiniteSet({a} \cup {b}) /\ Cardinality({a} \cup {b}) = 2
      <4>1. IsFiniteSet({a}) /\ Cardinality({a}) = 1
        BY FS_Singleton
      <4>2. b \notin {a}
        BY <3>2
      <4> QED
        BY <4>1, <4>2, FS_AddElement
    <3>5. Cardinality({a} \cup {b}) <= Cardinality(Own) /\ Cardinality(Own) \in Nat
      <4>1. {a} \cup {b} \in SUBSET Own
        BY <3>1
      <4> QED
        BY <3>3, <4>1, FS_Subset, FS_CardinalityType
    <3> QED
      BY <3>4, <3>5
  <2> QED
    BY <2>5, <2>6
<1> QED
  BY <1>1, ClientInvariant, PTL DEF Spec, LeavesOnlyItsOwnBattle

----------------------------------------------------------------------------
(***************************************************************************)
(* What will end the view of a battle that is over stays on its way, and   *)
(* behind the reply that opens the view.                                   *)
(***************************************************************************)
Closes(m, n) == m.kind \in {"escaped", "game-end"} /\ m.number = n

Closed(reps, evs, from, n) ==
    \/ \E j \in from..Len(reps) : Closes(reps[j], n)
    \/ \E j \in 1..Len(evs) : Closes(evs[j], n)

ClosedInv ==
    /\ \A i \in 1..Len(replies) :
          replies[i].kind = "battle" /\ battles[replies[i].number + 1].ended =>
             Closed(replies, events, i + 1, replies[i].number)
    /\ phase # "gone" /\ state = "battling" /\ battles[battleId + 1].ended =>
          Closed(replies, events, 1, battleId)

\* The server moves the oldest event to the end of the replies.
LEMMA ClosedMoves ==
    ASSUME NEW reps, NEW evs, NEW reps2, NEW evs2, NEW m, NEW n,
           Len(reps) \in Nat, Len(evs) \in Nat, NEW from \in 1..(Len(reps) + 1),
           Closed(reps, evs, from, n), Added(reps, reps2, m),
           \/ evs2 = evs
           \/ \E e : Added(evs, evs2, e)
           \/ m = evs[1] /\ Shifted(evs, evs2)
    PROVE  Closed(reps2, evs2, from, n)
<1>1. Len(reps2) = Len(reps) + 1 /\ reps2[Len(reps) + 1] = m
      /\ \A i \in 1..Len(reps) : reps2[i] = reps[i]
  BY DEF Added
<1>2. ASSUME NEW j \in from..Len(reps), Closes(reps[j], n)
      PROVE  Closed(reps2, evs2, from, n)
  <2>1. j \in from..Len(reps2) /\ reps2[j] = reps[j]
    BY <1>1
  <2> QED
    BY <1>2, <2>1 DEF Closed
<1>3. ASSUME NEW j \in 1..Len(evs), Closes(evs[j], n)
      PROVE  Closed(reps2, evs2, from, n)
  <2>1. CASE evs2 = evs
    BY <1>3, <2>1 DEF Closed
  <2>2. ASSUME NEW e, Added(evs, evs2, e)
        PROVE  Closed(reps2, evs2, from, n)
    <3>1. j \in 1..Len(evs2) /\ evs2[j] = evs[j]
      BY <2>2 DEF Added
    <3> QED
      BY <1>3, <3>1 DEF Closed
  <2>3. CASE m = evs[1] /\ Shifted(evs, evs2)
    <3>1. CASE j = 1
      <4>1. Len(reps) + 1 \in from..Len(reps2) /\ Closes(reps2[Len(reps) + 1], n)
        BY <1>1, <1>3, <2>3, <3>1
      <4> QED
        BY <4>1 DEF Closed
    <3>2. CASE j # 1
      <4>1. j - 1 \in 1..Len(evs2) /\ evs2[j - 1] = evs[(j - 1) + 1] /\ (j - 1) + 1 = j
        BY <2>3, <3>2 DEF Shifted
      <4>2. Closes(evs2[j - 1], n)
        BY <4>1, <1>3
      <4> QED
        BY <4>1, <4>2 DEF Closed
    <3> QED
      BY <3>1, <3>2
  <2> QED
    BY <2>1, <2>2, <2>3
<1> QED
  BY <1>2, <1>3 DEF Closed

\* A poll takes the first reply.
LEMMA ClosedPolled ==
    ASSUME NEW reps, NEW evs, NEW reps2, NEW n, Len(reps) \in Nat, Shifted(reps, reps2),
           NEW from \in 1..Len(reps), Closed(reps, evs, from + 1, n)
    PROVE  Closed(reps2, evs, from, n)
<1>1. Len(reps2) = Len(reps) - 1 /\ \A i \in 1..Len(reps2) : reps2[i] = reps[i + 1]
  BY DEF Shifted
<1>2. ASSUME NEW j \in (from + 1)..Len(reps), Closes(reps[j], n)
      PROVE  Closed(reps2, evs, from, n)
  <2>1. j - 1 \in from..Len(reps2) /\ reps2[j - 1] = reps[(j - 1) + 1] /\ (j - 1) + 1 = j
    BY <1>1
  <2>2. Closes(reps2[j - 1], n)
    BY <2>1, <1>2
  <2> QED
    BY <2>1, <2>2 DEF Closed
<1> QED
  BY <1>2 DEF Closed

LEMMA ClosedByPoll ==
    ASSUME TypeOK, LoginInv, ClosedInv, Poll
    PROVE  ClosedInv'
<1> DEFINE h == replies[1]
<1>0. /\ Len(replies) \in Nat /\ Shifted(replies, replies') /\ phase # "gone"
      /\ UNCHANGED <<phase, battles, events>>
  BY LengthTypes, PollShape DEF server
<1>1. /\ Len(replies') = Len(replies) - 1 /\ 1 \in 1..Len(replies)
      /\ \A i \in 1..Len(replies') : replies'[i] = replies[i + 1] /\ i + 1 \in 1..Len(replies)
  BY <1>0 DEF Shifted
<1>2. ASSUME NEW i \in 1..Len(replies'), replies'[i].kind = "battle",
             battles[replies'[i].number + 1].ended
      PROVE  Closed(replies', events, i + 1, replies'[i].number)
  <2>1. Closed(replies, events, (i + 1) + 1, replies'[i].number)
    BY <1>1, <1>2 DEF ClosedInv
  <2>2. i + 1 \in 1..Len(replies)
    BY <1>1
  <2> QED
    BY <1>0, <2>1, <2>2, ClosedPolled
<1>3. ASSUME state' = "battling", battles[battleId' + 1].ended
      PROVE  Closed(replies', events, 1, battleId')
  <2>1. CASE h.kind = "battle"
    <3>1. battleId' = h.number
      BY <2>1, PollState
    <3>2. Closed(replies, events, 1 + 1, battleId')
      BY <1>1, <1>3, <2>1, <3>1 DEF ClosedInv
    <3> QED
      BY <1>0, <1>1, <3>2, ClosedPolled
  <2>2. CASE h.kind # "battle"
    <3>1. h.kind \notin {"escaped", "game-end"} /\ state = "battling" /\ battleId' = battleId
      BY <1>3, <2>2, PollState
    <3>2. Closed(replies, events, 1, battleId)
      BY <1>0, <1>3, <3>1 DEF ClosedInv
    <3>3. Closed(replies, events, 1 + 1, battleId)
      <4>1. ~Closes(h, battleId)
        BY <3>1 DEF Closes
      <4>2. \A j \in 1..Len(replies) : j = 1 \/ j \in (1 + 1)..Len(replies)
        BY <1>0
      <4> QED
        BY <3>2, <4>1, <4>2 DEF Closed
    <3> QED
      BY <1>0, <1>1, <3>1, <3>3, ClosedPolled
  <2> QED
    BY <2>1, <2>2
<1> QED
  BY <1>0, <1>2, <1>3 DEF ClosedInv

LEMMA ClosedByServe ==
    ASSUME TypeOK, LoginInv, KnownInv, ClosedInv, Serve
    PROVE  ClosedInv'
<1> DEFINE c == requests[1]
<1>0. /\ Len(requests) \in Nat /\ Len(replies) \in Nat /\ Len(events) \in Nat
      /\ UNCHANGED <<state, battleId, phase>>
  BY LengthTypes, ServeFrame DEF client
<1>1. PICK m \in MessageOf(ReplyKinds) :
        /\ phase = "gone" => Len(replies') = 0
        /\ phase # "gone" => Added(replies, replies', m)
        /\ Served(c, m)
  BY ServeAdds
<1>2. CASE phase = "gone"
  <2>1. Len(replies') = 0 /\ phase' = "gone"
    BY <1>0, <1>1, <1>2
  <2> QED
    BY <2>1 DEF ClosedInv
<1>3. CASE phase # "gone"
  <2>0. Added(replies, replies', m)
    BY <1>1, <1>3
  <2>1. \/ events' = events
        \/ \E e : Added(events, events', e)
        \/ m = events[1] /\ Shifted(events, events')
    <3>1. events' = Append(events, Message("cure", "me", KitHeal))
            => Added(events, events', Message("cure", "me", KitHeal))
      BY HealthAssumption, MessageType, TickAdds DEF EventKinds, Sides
    <3> QED
      BY <1>1, <3>1 DEF Served, server
  <2>2. ASSUME NEW n \in Nat, NEW from \in 1..(Len(replies) + 1), battles'[n + 1].ended,
               Known(battles, n),
               battles[n + 1].ended => Closed(replies, events, from, n)
        PROVE  Closed(replies', events', from, n)
    <3>1. CASE battles[n + 1].ended
      BY <1>0, <2>0, <2>1, <2>2, <3>1, ClosedMoves
    <3>2. CASE ~battles[n + 1].ended
      <4>1. NewlyEnded(n + 1)
        BY <2>2, <3>2 DEF Known, NewlyEnded
      <4>2. n + 1 = c.number + 1 /\ m = Message("escaped", "me", c.number)
        BY <4>1, <1>1, ServeBattles
      <4>3. c.number \in Nat
        BY ServeFrame DEF MessageOf
      <4>4. m.kind = "escaped" /\ m.number = c.number
        BY <4>2 DEF Message
      <4>5. m.number = n
        BY <4>2, <4>3, <4>4
      <4>6. Closes(replies'[Len(replies) + 1], n) /\ Len(replies) + 1 \in from..Len(replies')
        BY <1>0, <2>0, <4>4, <4>5 DEF Closes, Added
      <4> QED
        BY <4>6 DEF Closed
    <3> QED
      BY <3>1, <3>2
  <2>3. ASSUME NEW i \in 1..Len(replies'), replies'[i].kind = "battle",
               battles'[replies'[i].number + 1].ended
        PROVE  Closed(replies', events', i + 1, replies'[i].number)
    <3>1. CASE i \in 1..Len(replies)
      <4>1. replies'[i] = replies[i] /\ i + 1 \in 1..(Len(replies) + 1)
        BY <1>0, <2>0, <3>1 DEF Added
      <4>2. Known(battles, replies[i].number)
        BY <2>3, <3>1, <4>1 DEF KnownInv
      <4>3. battles[replies[i].number + 1].ended
              => Closed(replies, events, i + 1, replies[i].number)
        BY <2>3, <3>1, <4>1 DEF ClosedInv
      <4>4. replies[i] \in MessageOf(ReplyKinds)
        BY <3>1, ElementOfSeq DEF TypeOK
      <4>5. replies[i].number \in Nat
        BY <4>4 DEF MessageOf
      <4> QED
        BY <2>2, <2>3, <4>1, <4>2, <4>3, <4>5
    <3>2. CASE i \notin 1..Len(replies)
      <4>1. replies'[i] = m
        BY <1>0, <2>0, <3>2 DEF Added
      <4> QED
        BY <4>1, <2>3, <1>1, ServeBattles
    <3> QED
      BY <3>1, <3>2
  <2>4. ASSUME state = "battling", battles'[battleId + 1].ended
        PROVE  Closed(replies', events', 1, battleId)
    <3>1. Known(battles, battleId)
      BY <2>4 DEF KnownInv
    <3>2. battles[battleId + 1].ended => Closed(replies, events, 1, battleId)
      BY <1>3, <2>4 DEF ClosedInv
    <3>3. 1 \in 1..(Len(replies) + 1) /\ battleId \in Nat
      BY <1>0 DEF TypeOK
    <3> QED
      BY <2>2, <2>4, <3>1, <3>2, <3>3
  <2> QED
    BY <1>0, <2>3, <2>4 DEF ClosedInv
<1> QED
  BY <1>2, <1>3

LEMMA ClosedByTick ==
    ASSUME TypeOK, KnownInv, ClosedInv, Tick
    PROVE  ClosedInv'
<1>0. /\ UNCHANGED <<state, battleId, phase, replies>> /\ phase # "gone"
      /\ Len(events) \in Nat /\ Len(replies) \in Nat
  BY LengthTypes, TickShape DEF client
<1>1. CASE UNCHANGED <<battles, events>>
  BY <1>0, <1>1 DEF ClosedInv
<1>2. ASSUME NEW e \in MessageOf(EventKinds \ {"none"}),
             events' = Append(events, e), Ticked(e)
      PROVE  ClosedInv'
  <2>1. Added(events, events', e)
    BY <1>2, TickAdds
  <2>2. ASSUME NEW n, NEW from, battles'[n + 1].ended, Known(battles, n), n \in Nat,
               battles[n + 1].ended => Closed(replies, events, from, n)
        PROVE  Closed(replies, events', from, n)
    <3>1. CASE battles[n + 1].ended
      <4>1. Closed(replies, events, from, n)
        BY <2>2, <3>1
      <4>2. \A j \in 1..Len(events) : j \in 1..Len(events') /\ events'[j] = events[j]
        BY <1>0, <2>1 DEF Added
      <4> QED
        BY <4>1, <4>2 DEF Closed
    <3>2. CASE ~battles[n + 1].ended
      <4>1. NewlyEnded(n + 1) /\ battles[n + 1].from = "me"
        BY <2>2, <3>2 DEF Known, NewlyEnded
      <4>2. e.kind = "game-end" /\ e.number = (n + 1) - 1
        BY <4>1, <1>2, TickBattles
      <4>3. Closes(e, n)
        BY <4>2, <2>2 DEF Closes
      <4>4. Len(events) + 1 \in 1..Len(events') /\ events'[Len(events) + 1] = e
        BY <1>0, <2>1 DEF Added
      <4> QED
        BY <4>3, <4>4 DEF Closed
    <3> QED
      BY <3>1, <3>2
  <2>3. ASSUME NEW i \in 1..Len(replies), replies[i].kind = "battle",
               battles'[replies[i].number + 1].ended
        PROVE  Closed(replies, events', i + 1, replies[i].number)
    <3>1. Known(battles, replies[i].number)
      BY <2>3 DEF KnownInv
    <3>2. battles[replies[i].number + 1].ended
            => Closed(replies, events, i + 1, replies[i].number)
      BY <2>3 DEF ClosedInv
    <3>3. replies[i].number \in Nat
      <4>1. replies[i] \in MessageOf(ReplyKinds)
        BY <2>3, ElementOfSeq DEF TypeOK
      <4> QED
        BY <4>1 DEF MessageOf
    <3> QED
      BY <2>2, <2>3, <3>1, <3>2, <3>3
  <2>4. ASSUME state = "battling", battles'[battleId + 1].ended
        PROVE  Closed(replies, events', 1, battleId)
    <3>1. Known(battles, battleId) /\ battleId \in Nat
      BY <2>4 DEF KnownInv, TypeOK
    <3>2. battles[battleId + 1].ended => Closed(replies, events, 1, battleId)
      BY <1>0, <2>4 DEF ClosedInv
    <3> QED
      BY <2>2, <2>4, <3>1, <3>2
  <2> QED
    BY <1>0, <2>3, <2>4 DEF ClosedInv
<1> QED
  BY <1>1, <1>2, TickShape

LEMMA ClosedStep ==
    ASSUME ClientInv, ClosedInv, [Next]_vars
    PROVE  ClosedInv'
<1> USE DEF ClientInv
<1>1. CASE /\ UNCHANGED <<battleId, phase, replies, events, battles>>
           /\ state' = "battling" => state = "battling"
  BY <1>1 DEF ClosedInv
<1>2. CASE UNCHANGED vars
  BY <1>1, <1>2 DEF vars, client, server
<1>3. CASE Frame
  <2>1. CASE Login
    BY <1>1, <2>1, LoginAdds DEF server
  <2>2. CASE ~Login
    BY <1>1, <1>3, <2>2, FrameShape DEF server
  <2> QED
    BY <2>1, <2>2
<1>4. CASE Close \/ Exit
  <2>1. CASE phase' = "gone" /\ replies' = <<>>
    BY <2>1, EmptySeq DEF ClosedInv
  <2>2. CASE phase' # "gone"
    <3>1. phase = "open" /\ UNCHANGED <<client, replies, server>>
      BY <1>4, <2>2, CloseExitShape
    <3> QED
      BY <3>1 DEF ClosedInv, client, server
  <2> QED
    BY <1>4, <2>1, <2>2, CloseExitShape
<1> QED
  BY <1>2, <1>3, <1>4, ClosedByPoll, ClosedByServe, ClosedByTick, NextCases

\* While a battle is shown it is running, or what closes its view is on its way.
\* The invariant says so for the replies that will open a view as well.
THEOREM ShownBattlesAreReal == Spec => []BattlingIsReal
<1> DEFINE I == ClientInv /\ ClosedInv
<1>1. Init => I
  <2> SUFFICES ASSUME Init PROVE ClosedInv
    BY InitType, LoginInit, KnownInit DEF ClientInv
  <2>1. Len(replies) = 0 /\ state = "unlogged_in"
    BY DEF Init
  <2> QED
    BY <2>1 DEF ClosedInv
<1>2. I /\ [Next]_vars => I'
  BY TypeStep, LoginStep, KnownStep, ClosedStep DEF ClientInv
<1>3. I => BattlingIsReal
  <2> SUFFICES ASSUME I, state = "battling", phase # "gone"
               PROVE  /\ battleId + 1 \in DOMAIN battles
                      /\ battles[battleId + 1].ended =>
                            \/ Has(replies, "escaped", battleId)
                            \/ Has(replies \o events, "game-end", battleId)
    BY DEF BattlingIsReal
  <2>1. Known(battles, battleId)
    BY DEF ClientInv, KnownInv
  <2>2. /\ replies \in Seq(MessageOf(ReplyKinds)) /\ events \in Seq(MessageOf(ReplyKinds))
        /\ \A j \in 1..Len(events) : events[j].kind # "escaped"
        /\ Len(replies) \in Nat /\ Len(events) \in Nat
    <3>1. events \in Seq(MessageOf(EventKinds \ {"none"}))
      BY DEF ClientInv, TypeOK
    <3>2. events \in Seq(MessageOf(ReplyKinds))
      BY <3>1, EventIsReply, SeqMonotonic
    <3>3. \A j \in 1..Len(events) : events[j] \in MessageOf(EventKinds \ {"none"})
      BY <3>1, ElementOfSeq
    <3>4. \A j \in 1..Len(events) : events[j].kind # "escaped"
      BY <3>3 DEF MessageOf, EventKinds
    <3> QED
      BY <3>2, <3>4, LengthTypes DEF ClientInv, TypeOK
  <2> DEFINE q == replies \o events
  <2>3. /\ q \in Seq(MessageOf(ReplyKinds)) /\ Len(q) = Len(replies) + Len(events)
        /\ \A i \in 1..(Len(replies) + Len(events)) :
              q[i] = IF i <= Len(replies) THEN replies[i] ELSE events[i - Len(replies)]
    BY <2>2, ConcatProperties
  <2>4. DOMAIN q = 1..(Len(replies) + Len(events)) /\ DOMAIN replies = 1..Len(replies)
    BY <2>2, <2>3, LenProperties
  <2> HIDE DEF q
  <2>5. ASSUME NEW j \in 1..Len(replies), Closes(replies[j], battleId)
        PROVE  Has(replies, "escaped", battleId) \/ Has(q, "game-end", battleId)
    <3>1. j \in DOMAIN replies /\ j \in DOMAIN q /\ q[j] = replies[j]
      BY <2>2, <2>3, <2>4
    <3> QED
      BY <2>5, <3>1 DEF Closes, Has
  <2>6. ASSUME NEW j \in 1..Len(events), Closes(events[j], battleId)
        PROVE  Has(q, "game-end", battleId)
    <3>1. Len(replies) + j \in DOMAIN q /\ q[Len(replies) + j] = events[j]
      <4>1. /\ Len(replies) + j \in 1..(Len(replies) + Len(events))
            /\ ~(Len(replies) + j <= Len(replies))
            /\ (Len(replies) + j) - Len(replies) = j
        BY <2>2
      <4> QED
        BY <2>3, <2>4, <4>1
    <3>2. events[j].kind = "game-end"
      BY <2>2, <2>6 DEF Closes
    <3> QED
      BY <2>6, <3>1, <3>2 DEF Closes, Has
  <2>7. battles[battleId + 1].ended => Closed(replies, events, 1, battleId)
    BY DEF ClosedInv
  <2> QED
    BY <2>1, <2>5, <2>6, <2>7 DEF Known, Closed, q
<1> HIDE DEF I
<1> QED
  BY <1>1, <1>2, <1>3, PTL DEF Spec
=============================================================================
