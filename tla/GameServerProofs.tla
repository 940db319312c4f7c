-------------------------- MODULE GameServerProofs --------------------------
(***************************************************************************)
(* Proofs about GameServer, for any number of players, addresses, battles  *)
(* and events and any amounts of health, damage and money.                 *)
(***************************************************************************)
EXTENDS GameServer, SumLemmas

\* The parts of the invariant.  A battle that runs has had no verdict, and in any
\* other only the first may be the normal one.
PlayersOK(ps) == ps \in [Names -> Addr \cup {None}]

HeapOK(h) == h \in [Addr -> PlayerType]

EventsOK(ev) ==
    /\ DOMAIN ev \subseteq Names
    /\ \A n \in DOMAIN ev : ev[n] \in Seq(EventType)

BattleOK(b) ==
    /\ b \in BattleType
    /\ Len(b.players) = 2
    /\ ~b.ended => b.verdicts = <<>>
    /\ \A i \in DOMAIN b.verdicts : b.verdicts[i] = "normal" => i = 1

BattlesOK(bs) == bs \in Seq(BattleType) /\ \A k \in DOMAIN bs : BattleOK(bs[k])

CountersOK ==
    /\ status \in {"running", "crashed"}
    /\ births \in Nat /\ said \in Nat /\ heals \in Nat

HistoryOK ==
    /\ heard \in [Names -> Nat]
    /\ shown \in [Names -> Int]
    /\ left \subseteq Names

Inv ==
    /\ PlayersOK(players)
    /\ HeapOK(heap)
    /\ BattlesOK(battles)
    /\ EventsOK(events)
    /\ cur \in 0..Len(battles)
    /\ CountersOK
    /\ HistoryOK

LEMMA HistoryKept ==
    ASSUME Inv, UNCHANGED history PROVE HistoryOK'
  BY DEF Inv, HistoryOK, history

----------------------------------------------------------------------------
(***************************************************************************)
(* Players.                                                                *)
(***************************************************************************)
LEMMA NewPlayerOK ==
    ASSUME NEW n \in Names, NEW h \in Nat, NEW r \in Nat \X Nat, NEW d \in Nat
    PROVE  NewPlayer(n, h, r, d) \in PlayerType
<1>1. StartMoney \in Nat
  BY NumbersAssumption
<1> QED
  BY <1>1 DEF NewPlayer, PlayerType

LEMMA HealOK ==
    ASSUME NEW p \in PlayerType, NEW delta \in Nat
    PROVE  Heal(p, delta) \in PlayerType /\ HealUntold(p, delta) \in PlayerType
<1> DEFINE h == p.health + delta
           u == p.untold + delta
<1>1. h \in Nat /\ u \in Nat
  BY DEF PlayerType
<1> HIDE DEF h, u
<1>2. /\ [p EXCEPT !.health = h] \in PlayerType
      /\ [[p EXCEPT !.health = h] EXCEPT !.untold = u] \in PlayerType
  BY <1>1 DEF PlayerType
<1>3. [p EXCEPT !.health = h].untold = p.untold
  BY DEF PlayerType
<1> QED
  BY <1>2, <1>3 DEF Heal, HealUntold, h, u

\* A strike less the defense is cut off at zero, and scaling keeps an integer.
LEMMA DamageOK ==
    ASSUME NEW p \in PlayerType, NEW q \in PlayerType, NEW d \in DamageTo(p, q)
    PROVE  d \in Nat
<1>1. PICK s \in p.strikes[1]..p.strikes[2], critical \in BOOLEAN :
        d = Reduced(HitOne(s, critical), q.defense)
  BY DEF DamageTo
<1>2. s \in Int /\ q.defense \in Nat
  BY DEF PlayerType
<1>3. s * (2 + CriticalBuff) \in Int
  BY <1>2, NumbersAssumption
<1> DEFINE product == s * (2 + CriticalBuff)
<1>4. HitOne(s, critical) = IF critical THEN product \div 2 ELSE s
  BY DEF HitOne
<1>5. product \in Int
  BY <1>3
<1> HIDE DEF product
<1>6. HitOne(s, critical) \in Int
  BY <1>2, <1>4, <1>5
<1> QED
  BY <1>1, <1>2, <1>6 DEF Reduced

LEMMA DropOK ==
    ASSUME NEW p \in PlayerType, NEW damage \in Nat
    PROVE  Drop(p, damage) \in Nat /\ Drop(p, damage) <= p.health
  BY DEF Drop, PlayerType

LEMMA TakeDamageOK ==
    ASSUME NEW p \in PlayerType, NEW damage \in Nat
    PROVE  TakeDamage(p, damage) \in PlayerType
<1> DEFINE h == p.health - Drop(p, damage)
<1>1. h \in Nat
  BY DropOK DEF PlayerType
<1> HIDE DEF h
<1>2. [p EXCEPT !.health = h] \in PlayerType
  BY <1>1 DEF PlayerType
<1> QED
  BY <1>2 DEF TakeDamage, h

LEMMA PayOK ==
    ASSUME NEW p \in PlayerType, p.money >= Price
    PROVE  CostMoney(p) \in PlayerType
<1>1. Price \in Nat
  BY NumbersAssumption
<1> QED
  BY <1>1 DEF CostMoney, PlayerType

\* Changing the player at one address.
LEMMA HeapUpdate ==
    ASSUME NEW h, HeapOK(h), NEW x \in Addr, NEW p \in PlayerType
    PROVE  HeapOK([h EXCEPT ![x] = p])
  BY DEF HeapOK

\* Whatever a command does first, its sender has a player then.
LEMMA EnteredOK ==
    ASSUME Inv, NEW n \in Names, NEW w \in Entered(n)
    PROVE  /\ PlayersOK(w.players) /\ w.players[n] \in Addr
           /\ HeapOK(w.heap)
           /\ w.births \in Nat
<1>1. CASE players[n] # None
  <2>1. w = [players |-> players, heap |-> heap, births |-> births]
    BY <1>1 DEF Entered
  <2> QED
    BY <1>1, <2>1 DEF Inv, PlayersOK, CountersOK
<1>2. CASE players[n] = None
  <2>1. PICK x \in Addr, h \in StartHealth, r \in Ranges, d \in Defense :
           w = [players |-> [players EXCEPT ![n] = x],
                heap    |-> [heap EXCEPT ![x] = NewPlayer(n, h, r, d)],
                births  |-> births + 1]
    BY <1>2 DEF Entered
  <2>2. h \in Nat /\ r \in Nat \X Nat /\ d \in Nat
    BY NumbersAssumption DEF Ranges
  <2>3. HeapOK(w.heap)
    <3>1. w.heap = [heap EXCEPT ![x] = NewPlayer(n, h, r, d)]
      BY <2>1
    <3>2. NewPlayer(n, h, r, d) \in PlayerType
      BY <2>2, NewPlayerOK, Zenon
    <3>3. HeapOK([heap EXCEPT ![x] = NewPlayer(n, h, r, d)])
      BY <3>2, HeapUpdate, Zenon DEF Inv
    <3> QED
      BY <3>1, <3>3, Zenon
  <2>4. PlayersOK(w.players) /\ w.players[n] \in Addr
    BY <2>1 DEF Inv, PlayersOK
  <2>5. w.births \in Nat
    BY <2>1 DEF Inv, CountersOK
  <2> QED
    BY <2>3, <2>4, <2>5
<1> QED
  BY <1>1, <1>2

----------------------------------------------------------------------------
(***************************************************************************)
(* Events.                                                                 *)
(***************************************************************************)
LEMMA PushOK ==
    ASSUME NEW ev, EventsOK(ev), NEW n \in Names, NEW e \in EventType
    PROVE  EventsOK(Push(ev, n, e))
<1>1. DOMAIN Push(ev, n, e) = DOMAIN ev \cup {n}
  BY DEF Push
<1>2. ASSUME NEW m \in DOMAIN ev \cup {n} PROVE Push(ev, n, e)[m] \in Seq(EventType)
  <2>1. m # n => Push(ev, n, e)[m] = ev[m] /\ m \in DOMAIN ev
    BY DEF Push
  <2>2. m = n /\ n \in DOMAIN ev => Push(ev, n, e)[m] = Append(ev[n], e)
    BY DEF Push
  <2>3. m = n /\ n \notin DOMAIN ev => Push(ev, n, e)[m] = <<e>>
    BY DEF Push
  <2>4. n \in DOMAIN ev => Append(ev[n], e) \in Seq(EventType)
    BY DEF EventsOK
  <2>5. <<e>> \in Seq(EventType)
    OBVIOUS
  <2> QED
    BY <2>1, <2>2, <2>3, <2>4, <2>5, Zenon DEF EventsOK
<1> QED
  BY <1>1, <1>2, Zenon DEF EventsOK

LEMMA PushAllOK ==
    ASSUME Inv, NEW e \in EventType
    PROVE  EventsOK(PushAll(e))
  BY DEF Inv, EventsOK, PushAll

LEMMA QueueOK ==
    ASSUME Inv, NEW n PROVE Queue(n) \in Seq(EventType)
  BY DEF Inv, EventsOK, Queue

Kinds == {"battle", "broadcast", "cure", "escaped", "fuck", "game-end",
          "health-drop", "lost"}

LEMMA EventOK ==
    ASSUME NEW kind \in Kinds, NEW about \in Names, NEW number \in Nat
    PROVE  Event(kind, about, number) \in EventType
  BY DEF Kinds, Event, EventType

----------------------------------------------------------------------------
(***************************************************************************)
(* Battles.                                                                *)
(***************************************************************************)
LEMMA NewBattleOK ==
    ASSUME NEW ps, NEW n \in Names, NEW target \in Names,
           ps[n] \in Addr, ps[target] \in Addr
    PROVE  BattleOK(NewBattle(ps, n, target))
<1>1. <<ps[n], ps[target]>> \in Seq(Addr) /\ Len(<<ps[n], ps[target]>>) = 2
  OBVIOUS
<1>2. <<>> \in Seq({"normal", "escaping"})
  OBVIOUS
<1>3. 0 \in 0..(Interval - 1)
  BY NumbersAssumption
<1> QED
  BY <1>1, <1>2, <1>3 DEF NewBattle, BattleOK, BattleType

LEMMA StoppedOK ==
    ASSUME NEW b, BattleOK(b), NEW cause \in {"normal", "escaping"},
           b.ended => cause = "escaping"
    PROVE  BattleOK(Stopped(b, cause))
<1> DEFINE v == Append(b.verdicts, cause)
           q == [b EXCEPT !.ended = TRUE, !.verdicts = v]
<1>1. b.verdicts \in Seq({"normal", "escaping"})
  BY DEF BattleOK, BattleType
<1>2. v \in Seq({"normal", "escaping"})
  BY <1>1
<1>3. ASSUME NEW i \in DOMAIN v, v[i] = "normal" PROVE i = 1
  <2>1. CASE b.ended
    BY <1>1, <1>3, <2>1 DEF BattleOK
  <2>2. CASE ~b.ended
    <3>1. b.verdicts = <<>>
      BY <2>2, Zenon DEF BattleOK
    <3> QED
      BY <1>3, <3>1
  <2> QED
    BY <2>1, <2>2, Zenon
<1> HIDE DEF v
<1>4. q \in BattleType /\ q.ended = TRUE /\ q.verdicts = v /\ q.players = b.players
  BY <1>2 DEF BattleOK, BattleType
<1>5. Stopped(b, cause) = q
  BY DEF Stopped, v
<1> HIDE DEF q
<1>6. BattleOK(q)
  BY <1>3, <1>4, Zenon DEF BattleOK
<1> QED
  BY <1>5, <1>6, Zenon

\* The fields that the updates of a battle assign.
LEMMA BattleAssigned ==
    ASSUME NEW b, BattleOK(b), NEW s \in 0..(Interval - 1), NEW t \in 0..1
    PROVE  /\ BattleOK([b EXCEPT !.since = s])
           /\ BattleOK([b EXCEPT !.since = s, !.turn = t])
           /\ [b EXCEPT !.since = s].ended = b.ended
<1> DEFINE q == [b EXCEPT !.since = s]
           r == [b EXCEPT !.since = s, !.turn = t]
<1>1. q \in BattleType /\ r \in BattleType
  BY DEF BattleOK, BattleType
<1>2. /\ q.ended = b.ended /\ q.verdicts = b.verdicts /\ q.players = b.players
      /\ r.ended = b.ended /\ r.verdicts = b.verdicts /\ r.players = b.players
  BY DEF BattleOK, BattleType
<1> HIDE DEF q, r
<1>3. BattleOK(q) /\ BattleOK(r)
  BY <1>1, <1>2, Zenon DEF BattleOK
<1> QED
  BY <1>2, <1>3, Zenon DEF q, r

LEMMA BattlesUpdate ==
    ASSUME NEW bs, BattlesOK(bs), NEW k \in DOMAIN bs, NEW b, BattleOK(b)
    PROVE  /\ BattlesOK([bs EXCEPT ![k] = b])
           /\ Len([bs EXCEPT ![k] = b]) = Len(bs)
<1>1. b \in BattleType
  BY Zenon DEF BattleOK
<1>2. [bs EXCEPT ![k] = b] \in Seq(BattleType) /\ Len([bs EXCEPT ![k] = b]) = Len(bs)
  BY <1>1 DEF BattlesOK
<1>3. DOMAIN [bs EXCEPT ![k] = b] = DOMAIN bs
  OBVIOUS
<1>4. ASSUME NEW j \in DOMAIN bs PROVE BattleOK([bs EXCEPT ![k] = b][j])
  <2>1. [bs EXCEPT ![k] = b][j] = IF j = k THEN b ELSE bs[j]
    OBVIOUS
  <2> QED
    BY <2>1, Zenon DEF BattlesOK
<1> QED
  BY <1>2, <1>3, <1>4, Zenon DEF BattlesOK

LEMMA BattlesAppend ==
    ASSUME NEW bs, BattlesOK(bs), NEW b, BattleOK(b)
    PROVE  BattlesOK(Append(bs, b)) /\ Len(Append(bs, b)) = Len(bs) + 1
<1>1. b \in BattleType /\ bs \in Seq(BattleType)
  BY Zenon DEF BattleOK, BattlesOK
<1>2. Append(bs, b) \in Seq(BattleType) /\ Len(Append(bs, b)) = Len(bs) + 1
  BY <1>1
<1>3. ASSUME NEW j \in DOMAIN Append(bs, b)
      PROVE  Append(bs, b)[j] = b \/ (j \in DOMAIN bs /\ Append(bs, b)[j] = bs[j])
  <2> DEFINE c == Len(bs) + 1
             s == Append(bs, b)
  <2>1. Len(bs) \in Nat /\ DOMAIN bs = 1..Len(bs) /\ j \in 1..(Len(bs) + 1)
    BY <1>1, <1>2
  <2>2. j # c => j \in DOMAIN bs
    BY <2>1
  <2>3. (j = c => s[j] = b) /\ (j \in DOMAIN bs => s[j] = bs[j])
    BY <1>1
  <2> HIDE DEF c, s
  <2>4. s[j] = b \/ (j \in DOMAIN bs /\ s[j] = bs[j])
    BY <2>2, <2>3, Zenon
  <2> QED
    BY <2>4, Zenon DEF s
<1> QED
  BY <1>2, <1>3, Zenon DEF BattlesOK

\* What an update of battle k relies on.
LEMMA BattleFacts ==
    ASSUME Inv, NEW k \in DOMAIN battles
    PROVE  /\ BattleOK(battles[k])
           /\ battles[k].players[1] \in Addr /\ battles[k].players[2] \in Addr
           /\ battles[k].turn \in 0..1 /\ battles[k].since \in 0..(Interval - 1)
           /\ battles[k].sender \in Names
           /\ battles[k].ended \in BOOLEAN
<1>1. BattleOK(battles[k])
  BY Zenon DEF Inv, BattlesOK
<1>2. battles[k].players \in Seq(Addr) /\ Len(battles[k].players) = 2
  BY <1>1 DEF BattleOK, BattleType
<1>3. battles[k].players[1] \in Addr /\ battles[k].players[2] \in Addr
  BY <1>2
<1> QED
  BY <1>1, <1>3 DEF BattleOK, BattleType

----------------------------------------------------------------------------
(***************************************************************************)
(* Commands.                                                               *)
(***************************************************************************)
\* The commands that change nothing but who is known, and logging out.
LEMMA EnterPreserves ==
    ASSUME Inv, NEW n \in Names, NEW w \in Entered(n), NEW ps,
           PlayersOK(ps), players' = ps, births' = w.births, heap' = w.heap,
           HistoryOK',
           UNCHANGED <<battles, events, cur, status, said, heals>>
    PROVE  Inv'
<1>1. HeapOK(heap') /\ PlayersOK(players') /\ births' \in Nat
  BY EnteredOK, Zenon
<1>2. CountersOK'
  BY <1>1 DEF Inv, CountersOK
<1>3. /\ BattlesOK(battles') /\ EventsOK(events')
      /\ cur' = cur /\ battles' = battles
  BY DEF Inv
<1>4. cur' \in 0..Len(battles')
  BY <1>3, Zenon DEF Inv
<1> QED
  BY <1>1, <1>2, <1>3, <1>4, Zenon DEF Inv

LEMMA LookupPreserves ==
    ASSUME Inv, NEW n \in Names, Lookup(n) PROVE Inv'
<1>1. PICK w \in Entered(n) : players' = w.players /\ births' = w.births /\ heap' = w.heap
  BY Zenon DEF Lookup, Becomes
<1> QED
  BY <1>1, EnteredOK, EnterPreserves, HistoryKept, Zenon DEF Lookup

LEMMA RefuseBattlePreserves ==
    ASSUME Inv, NEW n \in Names, NEW target \in Names, RefuseBattle(n, target)
    PROVE  Inv'
<1>1. PICK w \in Entered(n) : players' = w.players /\ births' = w.births /\ heap' = w.heap
  BY Zenon DEF RefuseBattle, Becomes
<1> QED
  BY <1>1, EnteredOK, EnterPreserves, HistoryKept, Zenon DEF RefuseBattle

LEMMA CannotAffordPreserves ==
    ASSUME Inv, NEW n \in Names, CannotAfford(n) PROVE Inv'
<1>1. PICK w \in Entered(n) : players' = w.players /\ births' = w.births /\ heap' = w.heap
  BY Zenon DEF CannotAfford, Becomes
<1> QED
  BY <1>1, EnteredOK, EnterPreserves, HistoryKept, Zenon DEF CannotAfford

LEMMA LogoutPreserves ==
    ASSUME Inv, NEW n \in Names, Logout(n) PROVE Inv'
<1>1. PICK w \in Entered(n) :
         /\ players' = [w.players EXCEPT ![n] = None]
         /\ births' = w.births /\ heap' = w.heap
  BY Zenon DEF Logout
<1>2. PlayersOK(w.players)
  BY EnteredOK, Zenon
<1>3. PlayersOK([w.players EXCEPT ![n] = None])
  BY <1>2 DEF PlayersOK
<1>4. HistoryOK'
  BY DEF Logout, Inv, HistoryOK
<1> QED
  BY <1>1, <1>3, <1>4, EnterPreserves, Zenon DEF Logout

\* Any other command: its sender has been entered, the rest is well-formed.
LEMMA CommandPreserves ==
    ASSUME Inv, NEW n \in Names, NEW w \in Entered(n),
           players' = w.players, births' = w.births,
           HeapOK(heap'), EventsOK(events'), BattlesOK(battles'),
           Len(battles) <= Len(battles'), Len(battles') \in Nat, cur' = cur,
           status' = status, said' \in Nat, heals' \in Nat,
           HistoryOK'
    PROVE  Inv'
<1>1. PlayersOK(players') /\ births' \in Nat
  BY EnteredOK, Zenon
<1>2. CountersOK'
  BY <1>1 DEF Inv, CountersOK
<1>3. cur' \in 0..Len(battles')
  <2>1. battles \in Seq(BattleType) /\ cur \in 0..Len(battles)
    BY Zenon DEF Inv, BattlesOK
  <2>2. Len(battles) \in Nat
    BY <2>1
  <2> QED
    BY <2>1, <2>2
<1> QED
  BY <1>1, <1>2, <1>3, Zenon DEF Inv

\* What the frame of a command gives CommandPreserves.
LEMMA Frame ==
    ASSUME Inv
    PROVE  /\ BattlesOK(battles) /\ EventsOK(events) /\ HeapOK(heap)
           /\ Len(battles) \in Nat /\ Len(battles) <= Len(battles)
           /\ said \in Nat /\ heals \in Nat /\ heard \in [Names -> Nat]
<1>1. battles \in Seq(BattleType)
  BY Zenon DEF Inv, BattlesOK
<1>2. Len(battles) \in Nat
  BY <1>1
<1>3. Len(battles) <= Len(battles)
  BY <1>2
<1> QED
  BY <1>2, <1>3, Zenon DEF Inv, CountersOK, HistoryOK

LEMMA StartBattlePreserves ==
    ASSUME Inv, NEW n \in Names, NEW target \in Names, StartBattle(n, target)
    PROVE  Inv'
<1>1. PICK w \in Entered(n) :
         /\ w.players[target] # None
         /\ battles' = Append(battles, NewBattle(w.players, n, target))
         /\ players' = w.players /\ births' = w.births /\ heap' = w.heap
  BY Zenon DEF StartBattle, Becomes
<1>2. PlayersOK(w.players) /\ w.players[n] \in Addr /\ HeapOK(w.heap)
  BY EnteredOK, Zenon
<1>3. w.players[target] \in Addr
  BY <1>1, <1>2 DEF PlayersOK
<1>4. BattleOK(NewBattle(w.players, n, target))
  BY <1>2, <1>3, NewBattleOK, Zenon
<1>5. BattlesOK(battles') /\ Len(battles') = Len(battles) + 1
  BY <1>1, <1>4, BattlesAppend, Frame, Zenon
<1>6. Len(battles') \in Nat /\ Len(battles) <= Len(battles')
  BY <1>5, Frame
<1>7. EventsOK(events')
  <2>1. Event("battle", n, 0) \in EventType
    BY EventOK DEF Kinds
  <2>2. events' = Push(events, target, Event("battle", n, 0))
    BY Zenon DEF StartBattle
  <2> QED
    BY <2>1, <2>2, PushOK, Frame, Zenon
<1>8. UNCHANGED <<cur, status, said, heals, history>>
  BY Zenon DEF StartBattle
<1> QED
  BY <1>1, <1>2, <1>5, <1>6, <1>7, <1>8, Frame, CommandPreserves, HistoryKept, Zenon

LEMMA BuyPreserves ==
    ASSUME Inv, NEW n \in Names, Buy(n) PROVE Inv'
<1>1. PICK w \in Entered(n) :
         /\ w.heap[w.players[n]].money >= Price
         /\ heap' = [w.heap EXCEPT ![w.players[n]] = Heal(CostMoney(@), KitHeal)]
         /\ players' = w.players /\ births' = w.births
  BY Zenon DEF Buy, Becomes
<1>2. w.players[n] \in Addr /\ HeapOK(w.heap)
  BY EnteredOK, Zenon
<1> DEFINE p == w.heap[w.players[n]]
           paid == CostMoney(p)
<1>3. p \in PlayerType
  BY <1>2 DEF HeapOK
<1>4. heap' = [w.heap EXCEPT ![w.players[n]] = Heal(paid, KitHeal)]
  BY <1>1, Zenon
<1>5. p.money >= Price /\ KitHeal \in Nat
  BY <1>1, NumbersAssumption
<1> HIDE DEF p
<1>6. paid \in PlayerType
  BY <1>3, <1>5, PayOK, Zenon
<1> HIDE DEF paid
<1>7. HeapOK(heap')
  BY <1>2, <1>4, <1>5, <1>6, HealOK, HeapUpdate, Zenon
<1>8. EventsOK(events')
  <2>1. Event("cure", n, KitHeal) \in EventType
    BY <1>5, EventOK DEF Kinds
  <2>2. events' = Push(events, n, Event("cure", n, KitHeal))
    BY Zenon DEF Buy
  <2> QED
    BY <2>1, <2>2, PushOK, Frame, Zenon
<1>9. UNCHANGED <<battles, cur, status, said, heals, history>>
  BY Zenon DEF Buy
<1>10. BattlesOK(battles') /\ Len(battles') \in Nat /\ Len(battles) <= Len(battles')
  BY <1>9, Frame, Zenon
<1> QED
  BY <1>1, <1>7, <1>8, <1>9, <1>10, Frame, CommandPreserves, HistoryKept, Zenon

LEMMA QueryEventPreserves ==
    ASSUME Inv, NEW n \in Names, QueryEvent(n) PROVE Inv'
<1>1. PICK w \in Entered(n) : players' = w.players /\ births' = w.births /\ heap' = w.heap
  BY Zenon DEF QueryEvent, Becomes
<1>2. HeapOK(heap')
  BY <1>1, EnteredOK, Zenon
<1>3. Queue(n) \in Seq(EventType)
  BY QueueOK, Zenon
<1>4. EventsOK(events') /\ HistoryOK'
  <2>1. CASE Queue(n) = <<>>
    <3>1. /\ events' = [m \in DOMAIN events \cup {n} |-> Queue(m)]
          /\ UNCHANGED <<heard, shown, left>>
      BY <2>1, Zenon DEF QueryEvent
    <3>2. \A m : Queue(m) \in Seq(EventType)
      BY QueueOK, Zenon
    <3>3. EventsOK(events')
      BY <3>1, <3>2, Frame DEF EventsOK
    <3>4. HistoryOK'
      BY <3>1 DEF Inv, HistoryOK
    <3> QED
      BY <3>3, <3>4
  <2>2. CASE Queue(n) # <<>>
    <3> DEFINE e == Head(Queue(n))
    <3>1. n \in DOMAIN events /\ Queue(n) = events[n]
      BY <2>2, Zenon DEF Queue
    <3>2. events' = [events EXCEPT ![n] = Tail(@)] /\ Given(n, e) /\ left' = left
      BY <2>2, Zenon DEF QueryEvent
    <3>3. e \in EventType /\ Tail(Queue(n)) \in Seq(EventType)
      BY <1>3, <2>2
    <3> HIDE DEF e
    <3>4. e.number \in Nat
      BY <3>3 DEF EventType
    <3>5. EventsOK(events')
      BY <3>1, <3>2, <3>3, Frame DEF EventsOK
    <3>6. HistoryOK'
      <4>1. Effect(e, n) \in Int
        BY <3>4 DEF Effect
      <4>2. heard' \in [Names -> Nat]
        BY <3>2, <3>4 DEF Given, Inv, HistoryOK
      <4>3. shown' \in [Names -> Int]
        BY <3>2, <4>1 DEF Given, Inv, HistoryOK
      <4> QED
        BY <3>2, <4>2, <4>3, Zenon DEF Inv, HistoryOK
    <3> QED
      BY <3>5, <3>6
  <2> QED
    BY <2>1, <2>2, Zenon
<1>5. UNCHANGED <<battles, cur, status, said, heals>>
  BY Zenon DEF QueryEvent
<1>6. BattlesOK(battles') /\ Len(battles') \in Nat /\ Len(battles) <= Len(battles')
  BY <1>5, Frame, Zenon
<1> QED
  BY <1>1, <1>2, <1>4, <1>5, <1>6, Frame, CommandPreserves, Zenon

LEMMA SayPreserves ==
    ASSUME Inv, NEW n \in Names, Say(n) PROVE Inv'
<1>1. PICK w \in Entered(n) : players' = w.players /\ births' = w.births /\ heap' = w.heap
  BY Zenon DEF Say, Becomes
<1>2. HeapOK(heap')
  BY <1>1, EnteredOK, Zenon
<1>3. said' \in Nat /\ said + 1 \in Nat
  BY Frame DEF Say
<1>4. EventsOK(events')
  <2>1. Event("broadcast", n, said + 1) \in EventType
    BY <1>3, EventOK DEF Kinds
  <2>2. events' = PushAll(Event("broadcast", n, said + 1))
    BY Zenon DEF Say
  <2> QED
    BY <2>1, <2>2, PushAllOK, Zenon
<1>5. UNCHANGED <<battles, cur, status, heals, history>>
  BY Zenon DEF Say
<1>6. BattlesOK(battles') /\ Len(battles') \in Nat /\ Len(battles) <= Len(battles')
  BY <1>5, Frame, Zenon
<1> QED
  BY <1>1, <1>2, <1>3, <1>4, <1>5, <1>6, Frame, CommandPreserves, HistoryKept, Zenon

LEMMA FuckPreserves ==
    ASSUME Inv, NEW n \in Names, Fuck(n) PROVE Inv'
<1>1. PICK w \in Entered(n) : players' = w.players /\ births' = w.births /\ heap' = w.heap
  BY Zenon DEF Fuck, Becomes
<1>2. HeapOK(heap')
  BY <1>1, EnteredOK, Zenon
<1>3. EventsOK(events')
  <2> DEFINE others == {m \in Names \ {n} : players[m] # None}
             e == Event("fuck", n, 0)
  <2>1. e \in EventType
    BY EventOK DEF Kinds
  <2>2. events' = [m \in DOMAIN events \cup others |->
                      IF m \in others THEN Append(Queue(m), e) ELSE events[m]]
    BY Zenon DEF Fuck
  <2>3. others \subseteq Names
    OBVIOUS
  <2> HIDE DEF others, e
  <2>4. \A m : Append(Queue(m), e) \in Seq(EventType)
    <3> TAKE m
    <3>1. Queue(m) \in Seq(EventType)
      BY QueueOK, Zenon
    <3> QED
      BY <3>1, <2>1
  <2> QED
    BY <2>2, <2>3, <2>4, Frame DEF EventsOK
<1>4. UNCHANGED <<battles, cur, status, said, heals, history>>
  BY Zenon DEF Fuck
<1>5. BattlesOK(battles') /\ Len(battles') \in Nat /\ Len(battles) <= Len(battles')
  BY <1>4, Frame, Zenon
<1> QED
  BY <1>1, <1>2, <1>3, <1>4, <1>5, Frame, CommandPreserves, HistoryKept, Zenon

LEMMA ResurrectPreserves ==
    ASSUME Inv, NEW n \in Names, Resurrect(n) PROVE Inv'
<1>1. PICK w \in Entered(n), delta \in ResurrectHeal :
         /\ heap' = [w.heap EXCEPT ![w.players[n]] = HealUntold(@, delta)]
         /\ players' = w.players /\ births' = w.births
  BY Zenon DEF Resurrect, Becomes
<1>2. w.players[n] \in Addr /\ HeapOK(w.heap)
  BY EnteredOK, Zenon
<1> DEFINE p == w.heap[w.players[n]]
<1>3. p \in PlayerType
  BY <1>2 DEF HeapOK
<1>4. heap' = [w.heap EXCEPT ![w.players[n]] = HealUntold(p, delta)]
  BY <1>1, Zenon
<1>5. delta \in Nat
  BY NumbersAssumption
<1> HIDE DEF p
<1>6. HeapOK(heap')
  BY <1>2, <1>3, <1>4, <1>5, HealOK, HeapUpdate, Zenon
<1>7. heals' \in Nat
  BY Frame DEF Resurrect
<1>8. UNCHANGED <<battles, events, cur, status, said, history>>
  BY Zenon DEF Resurrect
<1>9. /\ BattlesOK(battles') /\ Len(battles') \in Nat /\ Len(battles) <= Len(battles')
      /\ EventsOK(events')
  BY <1>8, Frame, Zenon
<1> QED
  BY <1>1, <1>6, <1>7, <1>8, <1>9, Frame, CommandPreserves, HistoryKept, Zenon

LEMMA EscapePreserves ==
    ASSUME Inv, NEW k \in DOMAIN battles, NEW n \in Names, Escape(n, k)
    PROVE  Inv'
<1>1. BattleOK(battles[k]) /\ battles[k].players[2] \in Addr
  BY BattleFacts, Zenon
<1>2. PICK w \in Entered(n) :
         /\ players' = w.players /\ births' = w.births /\ heap' = w.heap
         /\ events' = EscapeVerdict(events, w.heap[battles[k].players[2]])
  BY Zenon DEF Escape, Becomes
<1>3. HeapOK(w.heap) /\ HeapOK(heap')
  BY <1>1, <1>2, EnteredOK, Zenon
<1>4. BattlesOK(battles') /\ Len(battles') = Len(battles)
  <2>1. BattleOK(Stopped(battles[k], "escaping"))
    BY <1>1, StoppedOK
  <2>2. battles' = [battles EXCEPT ![k] = Stopped(@, "escaping")]
    BY Zenon DEF Escape
  <2> QED
    BY <2>1, <2>2, BattlesUpdate, Frame, Zenon
<1>5. Len(battles') \in Nat /\ Len(battles) <= Len(battles')
  BY <1>4, Frame, Zenon
<1>6. EventsOK(events')
  <2> DEFINE name == w.heap[battles[k].players[2]].name
  <2>1. name \in Names
    BY <1>1, <1>3 DEF HeapOK, PlayerType
  <2>2. events' = Push(events, name, Event("escaped", name, 0))
    BY <1>2, Zenon DEF EscapeVerdict
  <2> HIDE DEF name
  <2>3. Event("escaped", name, 0) \in EventType
    BY <2>1, EventOK DEF Kinds
  <2> QED
    BY <2>1, <2>2, <2>3, PushOK, Frame, Zenon
<1>7. UNCHANGED <<cur, status, said, heals, history>>
  BY Zenon DEF Escape
<1> QED
  BY <1>1, <1>2, <1>3, <1>4, <1>5, <1>6, <1>7, Frame, CommandPreserves, HistoryKept, Zenon

----------------------------------------------------------------------------
(***************************************************************************)
(* Ticks.                                                                  *)
(***************************************************************************)
\* An update of a battle changes no player's presence.
LEMMA UpdatePreserves ==
    ASSUME Inv, NEW k \in DOMAIN battles, Updating(k), Advance,
           HeapOK(heap'), EventsOK(events'), BattlesOK(battles'),
           Len(battles') = Len(battles),
           HistoryOK',
           UNCHANGED <<players, status, births, said, heals>>
    PROVE  Inv'
<1>1. PlayersOK(players') /\ CountersOK'
  BY DEF Inv, CountersOK
<1>2. Len(battles) \in Nat /\ k \in 1..Len(battles)
  <2>1. battles \in Seq(BattleType)
    BY Zenon DEF Inv, BattlesOK
  <2> QED
    BY <2>1
<1>3. cur' \in 0..Len(battles')
  BY <1>2 DEF Updating, Advance
<1> QED
  BY <1>1, <1>3, Zenon DEF Inv

LEMMA SkipBattlePreserves ==
    ASSUME Inv, NEW k \in DOMAIN battles, SkipBattle(k) PROVE Inv'
<1>1. /\ Updating(k) /\ Advance
      /\ UNCHANGED <<players, heap, battles, events, status, births, said, heals, history>>
  BY Zenon DEF SkipBattle
<1> QED
  BY <1>1, Frame, UpdatePreserves, HistoryKept, Zenon

LEMMA WaitBattlePreserves ==
    ASSUME Inv, NEW k \in DOMAIN battles, WaitBattle(k) PROVE Inv'
<1>1. /\ Updating(k) /\ Advance
      /\ ~(battles[k].since + 1 >= Interval)
      /\ battles' = [battles EXCEPT ![k].since = @ + 1]
      /\ UNCHANGED <<players, heap, events, status, births, said, heals, history>>
  BY Zenon DEF WaitBattle, Due
<1>2. BattleOK(battles[k]) /\ battles[k].since \in 0..(Interval - 1)
  BY BattleFacts, Zenon
<1> DEFINE s == battles[k].since + 1
           b == [battles[k] EXCEPT !.since = s]
<1>3. s \in 0..(Interval - 1)
  BY <1>1, <1>2, NumbersAssumption
<1>4. battles' = [battles EXCEPT ![k] = b]
  BY <1>1
<1> HIDE DEF s
<1>5. 0 \in 0..1
  OBVIOUS
<1>6. BattleOK(b)
  BY <1>2, <1>3, <1>5, BattleAssigned, Zenon
<1> HIDE DEF b
<1>7. BattlesOK(battles') /\ Len(battles') = Len(battles)
  BY <1>4, <1>6, BattlesUpdate, Frame, Zenon
<1> QED
  BY <1>1, <1>7, Frame, UpdatePreserves, HistoryKept, Zenon

LEMMA HitPreserves ==
    ASSUME Inv, NEW k \in DOMAIN battles, Hit(k) PROVE Inv'
<1> DEFINE b == battles[k]
           attacker == b.players[b.turn + 1]
           target == b.players[2 - b.turn]
<1>1. /\ BattleOK(b) /\ b.turn \in 0..1
      /\ b.players[1] \in Addr /\ b.players[2] \in Addr
  BY BattleFacts, Zenon
<1>2. attacker \in Addr /\ target \in Addr
  BY <1>1
<1>3. PICK d \in DamageTo(heap[attacker], heap[target]) :
         LET drop == HealthDrop(heap[target], d)
         IN  /\ heap' = [heap EXCEPT ![target] = TakeDamage(@, d)]
             /\ events' = Push(Push(events, heap[attacker].name, drop),
                               heap[target].name, drop)
  BY Zenon DEF Hit
<1>4. /\ Updating(k) /\ Advance
      /\ battles' = [battles EXCEPT ![k].since = 0, ![k].turn = 1 - @]
      /\ UNCHANGED <<players, status, births, said, heals, history>>
  BY Zenon DEF Hit
<1> HIDE DEF attacker, target
<1>5. d \in Nat
  BY <1>2, DamageOK, Frame, Zenon DEF HeapOK
<1>6. /\ heap[target] \in PlayerType
      /\ heap[target].name \in Names /\ heap[attacker].name \in Names
  BY <1>2, Frame DEF HeapOK, PlayerType
<1>7. HeapOK(heap')
  <2>1. heap' = [heap EXCEPT ![target] = TakeDamage(heap[target], d)]
    BY <1>3, Zenon
  <2>2. TakeDamage(heap[target], d) \in PlayerType
    BY <1>5, <1>6, TakeDamageOK, Zenon
  <2> QED
    BY <1>2, <2>1, <2>2, HeapUpdate, Frame, Zenon
<1>8. EventsOK(events')
  <2> DEFINE drop == HealthDrop(heap[target], d)
  <2>1. events' = Push(Push(events, heap[attacker].name, drop), heap[target].name, drop)
    BY <1>3, Zenon
  <2>2. Drop(heap[target], d) \in Nat /\ "health-drop" \in Kinds
    BY <1>5, <1>6, DropOK DEF Kinds
  <2>3. drop \in EventType
    BY <1>6, <2>2, EventOK, Zenon DEF HealthDrop
  <2> HIDE DEF drop
  <2> QED
    BY <1>6, <2>1, <2>3, PushOK, Frame, Zenon
<1>9. BattlesOK(battles') /\ Len(battles') = Len(battles)
  <2> DEFINE t == 1 - b.turn
             c == [b EXCEPT !.since = 0, !.turn = t]
  <2>1. t \in 0..1 /\ 0 \in 0..(Interval - 1)
    BY <1>1, NumbersAssumption
  <2>2. battles' = [battles EXCEPT ![k] = c]
    BY <1>4
  <2> HIDE DEF t
  <2>3. BattleOK(c)
    BY <1>1, <2>1, BattleAssigned, Zenon
  <2> HIDE DEF c
  <2> QED
    BY <2>2, <2>3, BattlesUpdate, Frame, Zenon
<1> QED
  BY <1>4, <1>7, <1>8, <1>9, UpdatePreserves, HistoryKept, Zenon

LEMMA EndBattlePreserves ==
    ASSUME Inv, NEW k \in DOMAIN battles, EndBattle(k) PROVE Inv'
<1> DEFINE b == battles[k]
           p == heap[b.players[1]]
           q == heap[b.players[2]]
           c == [b EXCEPT !.since = 0]
<1>1. /\ BattleOK(b) /\ ~b.ended
      /\ b.players[1] \in Addr /\ b.players[2] \in Addr
  BY BattleFacts, Zenon DEF EndBattle, Due
<1>2. /\ Updating(k) /\ Advance
      /\ events' = NormalVerdict(events, p, q)
      /\ battles' = [battles EXCEPT ![k] = Stopped(c, "normal")]
      /\ UNCHANGED <<players, heap, status, births, said, heals, history>>
  BY DEF EndBattle
<1>3. BattlesOK(battles') /\ Len(battles') = Len(battles)
  <2>1. 0 \in 0..(Interval - 1) /\ 0 \in 0..1
    BY NumbersAssumption
  <2>2. BattleOK(c) /\ ~c.ended
    BY <1>1, <2>1, BattleAssigned, Zenon
  <2> HIDE DEF c
  <2>3. BattleOK(Stopped(c, "normal"))
    BY <2>2, StoppedOK
  <2> QED
    BY <1>2, <2>3, BattlesUpdate, Frame, Zenon
<1>4. p.name \in Names /\ q.name \in Names
  BY <1>1, Frame DEF HeapOK, PlayerType
<1> HIDE DEF p, q
<1>5. EventsOK(events')
  <2> DEFINE loser == IF p.health = 0 THEN p.name ELSE q.name
             e == Event("game-end", p.name, 0)
             f == Event("lost", loser, 0)
  <2>1. events' = Push(Push(events, p.name, e), q.name, f)
    BY <1>2, Zenon DEF NormalVerdict
  <2>2. loser \in Names /\ 0 \in Nat /\ "game-end" \in Kinds /\ "lost" \in Kinds
    BY <1>4 DEF Kinds
  <2> HIDE DEF loser
  <2>3. e \in EventType /\ f \in EventType
    BY <1>4, <2>2, EventOK, Zenon
  <2> HIDE DEF e, f
  <2> QED
    BY <1>4, <2>1, <2>3, PushOK, Frame, Zenon
<1> QED
  BY <1>2, <1>3, <1>5, Frame, UpdatePreserves, HistoryKept, Zenon

\* A tick begins at the first battle; a crash leaves everything as it is.
LEMMA TickPreserves == Inv /\ Tick => Inv'
<1> SUFFICES ASSUME Inv, Tick PROVE Inv'
  OBVIOUS
<1>1. /\ cur' = 1 /\ battles # <<>>
      /\ UNCHANGED <<players, heap, battles, events, status, births, said, heals, history>>
  BY Zenon DEF Tick
<1>2. battles \in Seq(BattleType)
  BY Zenon DEF Inv, BattlesOK
<1>3. cur' \in 0..Len(battles')
  BY <1>1, <1>2
<1>4. CountersOK' /\ PlayersOK(players')
  BY <1>1 DEF Inv, CountersOK
<1> QED
  BY <1>1, <1>3, <1>4, Frame, HistoryKept, Zenon DEF Inv

LEMMA CrashPreserves ==
    ASSUME Inv, NEW k \in DOMAIN battles, Crash(k) PROVE Inv'
<1>1. /\ status' = "crashed"
      /\ UNCHANGED <<players, heap, battles, events, cur, births, said, heals, history>>
  BY Zenon DEF Crash
<1>2. CountersOK' /\ PlayersOK(players')
  BY <1>1 DEF Inv, CountersOK
<1> QED
  BY <1>1, <1>2, Frame, HistoryKept, Zenon DEF Inv

----------------------------------------------------------------------------
(***************************************************************************)
(* The theorems.                                                           *)
(***************************************************************************)
LEMMA InitEstablishes == Init => Inv
<1> SUFFICES ASSUME Init PROVE Inv
  OBVIOUS
<1> DEFINE n == CHOOSE m \in Names : TRUE
<1>1. n \in Names
  BY PointersAssumption
<1>2. HeapOK(heap)
  <2>1. heap = [x \in Addr |-> NewPlayer(n, 0, <<0, 0>>, 0)]
    BY Zenon DEF Init
  <2> HIDE DEF n
  <2>2. NewPlayer(n, 0, <<0, 0>>, 0) \in PlayerType
    BY <1>1, NewPlayerOK
  <2> QED
    BY <2>1, <2>2, Zenon DEF HeapOK
<1>3. PlayersOK(players) /\ EventsOK(events)
  BY DEF Init, PlayersOK, EventsOK
<1>4. BattlesOK(battles) /\ cur \in 0..Len(battles)
  BY DEF Init, BattlesOK
<1>5. CountersOK /\ HistoryOK
  BY DEF Init, CountersOK, HistoryOK
<1> QED
  BY <1>2, <1>3, <1>4, <1>5 DEF Inv

LEMMA NextPreserves == Inv /\ [Next]_vars => Inv'
<1> SUFFICES ASSUME Inv, [Next]_vars PROVE Inv'
  OBVIOUS
<1>1. CASE UNCHANGED vars
  BY <1>1 DEF vars, Inv, PlayersOK, HeapOK, BattlesOK, EventsOK, CountersOK, HistoryOK
<1>2. ASSUME NEW n \in Names,
             \/ Lookup(n) \/ Logout(n) \/ Buy(n) \/ CannotAfford(n)
             \/ QueryEvent(n) \/ Say(n) \/ Fuck(n) \/ Resurrect(n)
      PROVE  Inv'
  BY <1>2, LookupPreserves, LogoutPreserves, BuyPreserves, CannotAffordPreserves,
     QueryEventPreserves, SayPreserves, FuckPreserves, ResurrectPreserves, Zenon
<1>3. ASSUME NEW n \in Names, NEW target \in Names,
             StartBattle(n, target) \/ RefuseBattle(n, target)
      PROVE  Inv'
  BY <1>3, StartBattlePreserves, RefuseBattlePreserves, Zenon
<1>4. ASSUME NEW k \in DOMAIN battles, Crash(k) \/ \E n \in Names : Escape(n, k)
      PROVE  Inv'
  BY <1>4, EscapePreserves, CrashPreserves, Zenon
<1>5. CASE Tick
  BY <1>5, TickPreserves
<1>6. CASE UpdateBattle
  BY <1>6, SkipBattlePreserves, WaitBattlePreserves, HitPreserves, EndBattlePreserves,
     Zenon DEF UpdateBattle
<1> QED
  BY <1>1, <1>2, <1>3, <1>4, <1>5, <1>6, Zenon DEF Next

LEMMA Invariance == Spec => []Inv
  BY InitEstablishes, NextPreserves, PTL DEF Spec

\* Health and money stay natural numbers, no battle outwaits its interval, and
\* every event in a queue is one that is sent.
THEOREM TypeCorrect == Spec => []TypeOK
<1>1. Inv => TypeOK
  <2> SUFFICES ASSUME Inv PROVE TypeOK
    OBVIOUS
  <2>1. \A k \in DOMAIN battles : Len(battles[k].players) = 2
    BY Zenon DEF Inv, BattlesOK, BattleOK
  <2> QED
    BY <2>1, Zenon DEF Inv, TypeOK, PlayersOK, HeapOK, BattlesOK, EventsOK, CountersOK,
       HistoryOK
<1> QED
  BY <1>1, Invariance, PTL

\* A battle comes to its normal end at most once, and never after an escape.
THEOREM BattlesEndOnce == Spec => []OneNormalEnd
<1>1. Inv => OneNormalEnd
  BY Zenon DEF Inv, BattlesOK, BattleOK, OneNormalEnd
<1> QED
  BY <1>1, Invariance, PTL

----------------------------------------------------------------------------
(***************************************************************************)
(* What the server promises its players: every hit they are told of has    *)
(* hurt somebody, they are given every broadcast in order, and every       *)
(* battle is a duel.                                                       *)
(***************************************************************************)
\* A player that has been created: what is drawn for it fits together.
Made(p) ==
    /\ p.strikes \in Strike \X Strike /\ p.strikes[1] <= p.strikes[2]
    /\ p.defense \in Defense

\* Whoever is logged in, and whatever is alive, has been created; memory that
\* never held a player is dead.
MadeInv(ps, h) ==
    /\ \A n \in Names : ps[n] # None => Made(h[ps[n]])
    /\ \A x \in Addr : h[x].health # 0 => Made(h[x])

\* Two players are never at one address, so nobody fights against itself.
ApartInv(ps) == \A n, m \in Names : ps[n] # None /\ ps[n] = ps[m] => n = m

DuelsApart(bs) == \A k \in DOMAIN bs : bs[k].players[1] # bs[k].players[2]

----------------------------------------------------------------------------
(***************************************************************************)
(* A queue: what it holds of the broadcasts, and of the hits.              *)
(***************************************************************************)
Waiting(q) == {i \in DOMAIN q : q[i].kind = "broadcast"}

\* The broadcasts in a queue continue the ones its owner has been given, h being
\* the last one, up to the last one said, s.
InOrder(q, h, s) ==
    /\ \A i, j \in Waiting(q) : i < j => q[i].number < q[j].number
    /\ \A i \in Waiting(q) : h < q[i].number /\ q[i].number <= s
    /\ \A x \in 1..s :
          \/ h > 0 /\ h < x
          \/ \E i \in Waiting(q) : q[i].number < x
          => \E i \in Waiting(q) : q[i].number = x

Hurting(e) == e.kind = "health-drop" => e.number > 0
Hurts(q) == \A i \in DOMAIN q : Hurting(q[i])

QueuesInv(ev, hd, s) ==
    /\ \A n \in Names : hd[n] <= s /\ (n \notin DOMAIN ev => hd[n] = 0)
    /\ \A n \in DOMAIN ev : InOrder(ev[n], hd[n], s) /\ Hurts(ev[n])

----------------------------------------------------------------------------
(***************************************************************************)
(* Players and the blows between them.                                     *)
(***************************************************************************)
\* What is drawn for a strike, and doubled or not, is more than any defense.
LEMMA StrikesHurt ==
    ASSUME NEW p \in PlayerType, NEW q \in PlayerType, Made(p), Made(q),
           NEW d \in DamageTo(p, q), q.health # 0
    PROVE  d \in Nat /\ Drop(q, d) \in 1..q.health
<1>1. PICK s \in p.strikes[1]..p.strikes[2], critical \in BOOLEAN :
        d = Reduced(HitOne(s, critical), q.defense)
  BY DEF DamageTo
<1>2. /\ p.strikes[1] \in Strike /\ q.defense \in Defense
      /\ Strike \subseteq Nat /\ Defense \subseteq Nat
      /\ \A x \in Strike, y \in Defense : y < x
  BY NumbersAssumption DEF Made
<1>3. s \in Nat /\ q.defense \in Nat /\ q.defense < s
  <2>1. p.strikes[1] \in Nat /\ q.defense \in Nat /\ q.defense < p.strikes[1]
    BY <1>2
  <2>2. p.strikes[2] \in Nat
    BY DEF PlayerType
  <2> QED
    BY <2>1, <2>2
<1>4. HitOne(s, critical) \in Nat /\ s <= HitOne(s, critical)
  <2>1. CriticalBuff \in Nat
    BY NumbersAssumption
  <2> DEFINE product == s * (2 + CriticalBuff)
  <2>2. product \in Nat /\ 2 * s <= product
    <3>1. \A x, y \in Nat : x * y \in Nat /\ x * (2 + y) = 2 * x + x * y
      OBVIOUS
    <3>2. s * CriticalBuff \in Nat /\ product = 2 * s + s * CriticalBuff
      BY <1>3, <2>1, <3>1
    <3> HIDE DEF product
    <3> DEFINE extra == s * CriticalBuff
    <3>3. extra \in Nat /\ product = 2 * s + extra
      BY <3>2
    <3> HIDE DEF extra
    <3> QED
      BY <1>3, <3>3
  <2>3. HitOne(s, critical) = IF critical THEN product \div 2 ELSE s
    BY DEF HitOne
  <2> HIDE DEF product
  <2> QED
    BY <1>3, <2>2, <2>3
<1>5. d \in Nat /\ d > 0
  BY <1>1, <1>3, <1>4 DEF Reduced
<1> QED
  BY <1>5 DEF Drop, PlayerType

\* Kits, heals and blows change neither what a player strikes with nor its
\* defense.
LEMMA MadeKept ==
    ASSUME NEW p \in PlayerType, NEW n
    PROVE  /\ Made(p) <=> Made(Heal(p, n))
           /\ Made(p) <=> Made(HealUntold(p, n))
           /\ Made(p) <=> Made(CostMoney(p))
           /\ Made(p) <=> Made(TakeDamage(p, n))
<1> DEFINE same(q) == q.strikes = p.strikes /\ q.defense = p.defense
<1>1. same(Heal(p, n)) /\ same(HealUntold(p, n)) /\ same(CostMoney(p)) /\ same(TakeDamage(p, n))
  BY DEF PlayerType, Heal, HealUntold, CostMoney, TakeDamage
<1> QED
  BY <1>1 DEF Made

LEMMA HeapMade ==
    ASSUME NEW ps, PlayersOK(ps), NEW h, HeapOK(h), MadeInv(ps, h),
           NEW x \in Addr, NEW p, Made(p)
    PROVE  MadeInv(ps, [h EXCEPT ![x] = p])
<1>1. \A y \in Addr : [h EXCEPT ![x] = p][y] = IF y = x THEN p ELSE h[y]
  BY DEF HeapOK
<1>2. \A n \in Names : ps[n] # None => ps[n] \in Addr
  BY DEF PlayersOK
<1> HIDE DEF MadeInv
<1>3. /\ \A n \in Names : ps[n] # None => Made([h EXCEPT ![x] = p][ps[n]])
      /\ \A y \in Addr : [h EXCEPT ![x] = p][y].health # 0 => Made([h EXCEPT ![x] = p][y])
  BY <1>1, <1>2, Zenon DEF MadeInv
<1> QED
  BY <1>3, Zenon DEF MadeInv

\* Whoever is entered has been created, at an address of its own.
LEMMA EnteredMade ==
    ASSUME Inv, MadeInv(players, heap), ApartInv(players),
           NEW n \in Names, NEW w \in Entered(n)
    PROVE  /\ MadeInv(w.players, w.heap) /\ ApartInv(w.players)
           /\ Made(w.heap[w.players[n]])
<1>0. PlayersOK(players) /\ HeapOK(heap)
  BY DEF Inv
<1>1. CASE players[n] # None
  <2>1. w.players = players /\ w.heap = heap
    BY <1>1 DEF Entered
  <2>2. Made(heap[players[n]])
    BY <1>1, Zenon DEF MadeInv
  <2> QED
    BY <2>1, <2>2, Zenon
<1>2. CASE players[n] = None
  <2> DEFINE free == {y \in Addr : Dangling(y) /\ births < MaxBirths}
  <2>0. PICK x \in free, h \in StartHealth, r \in Ranges, d \in Defense :
           w = [players |-> [players EXCEPT ![n] = x],
                heap    |-> [heap EXCEPT ![x] = NewPlayer(n, h, r, d)],
                births  |-> births + 1]
    <3> HIDE DEF free
    <3> QED
      BY <1>2 DEF Entered, free
  <2>1. /\ x \in Addr /\ Dangling(x)
        /\ w.players = [players EXCEPT ![n] = x]
        /\ w.heap = [heap EXCEPT ![x] = NewPlayer(n, h, r, d)]
    BY <2>0
  <2> DEFINE p == NewPlayer(n, h, r, d)
  <2>2. Made(p)
    BY DEF Made, NewPlayer, Ranges
  <2> HIDE DEF p
  <2>3. w.heap = [heap EXCEPT ![x] = p]
    BY <2>1 DEF p
  <2>4. \A m \in Names : w.players[m] = IF m = n THEN x ELSE players[m]
    BY <1>0, <2>1 DEF PlayersOK
  <2>5. \A y \in Addr : w.heap[y] = IF y = x THEN p ELSE heap[y]
    BY <1>0, <2>3 DEF HeapOK
  <2>6. \A m \in Names : players[m] # x
    BY <2>1 DEF Dangling
  <2>7. \A m \in Names : players[m] # None => players[m] \in Addr
    BY <1>0 DEF PlayersOK
  <2>8. MadeInv(w.players, w.heap)
    <3>1. ASSUME NEW m \in Names, w.players[m] # None PROVE Made(w.heap[w.players[m]])
      <4>1. CASE m = n
        BY <2>2, <2>4, <2>5, <4>1, Zenon
      <4>2. CASE m # n
        <5>1. w.players[m] = players[m] /\ players[m] # None /\ players[m] \in Addr
          BY <2>4, <2>7, <3>1, <4>2, Zenon
        <5>2. Made(heap[players[m]])
          BY <5>1, Zenon DEF MadeInv
        <5> QED
          BY <2>5, <2>6, <5>1, <5>2, Zenon
      <4> QED
        BY <4>1, <4>2
    <3>2. ASSUME NEW y \in Addr, w.heap[y].health # 0 PROVE Made(w.heap[y])
      BY <2>2, <2>5, <3>2, Zenon DEF MadeInv
    <3> QED
      BY <3>1, <3>2, Zenon DEF MadeInv
  <2>9. ApartInv(w.players)
    <3> SUFFICES ASSUME NEW a \in Names, NEW b \in Names,
                        w.players[a] # None, w.players[a] = w.players[b]
                 PROVE  a = b
      BY Zenon DEF ApartInv
    <3>1. CASE a = n \/ b = n
      BY <2>4, <2>6, <3>1, Zenon
    <3>2. CASE a # n /\ b # n
      BY <2>4, <3>2, Zenon DEF ApartInv
    <3> QED
      BY <3>1, <3>2
  <2>10. Made(w.heap[w.players[n]])
    BY <2>2, <2>4, <2>5, Zenon
  <2> QED
    BY <2>8, <2>9, <2>10
<1> QED
  BY <1>1, <1>2

----------------------------------------------------------------------------
(***************************************************************************)
(* Every step keeps the players created and apart.                         *)
(***************************************************************************)
PlayersInv == MadeInv(players, heap) /\ ApartInv(players) /\ DuelsApart(battles)

\* The commands that change no player but their sender's, by entering it.
LEMMA CommandMade ==
    ASSUME Inv, PlayersInv, NEW n \in Names, NEW w \in Entered(n),
           players' = w.players, heap' = w.heap
    PROVE  MadeInv(players', heap') /\ ApartInv(players')
  BY EnteredMade, Zenon DEF PlayersInv

LEMMA LogoutMade ==
    ASSUME Inv, PlayersInv, NEW n \in Names, Logout(n)
    PROVE  PlayersInv'
<1>1. PICK w \in Entered(n) : /\ players' = [w.players EXCEPT ![n] = None]
                              /\ heap' = w.heap
  BY Zenon DEF Logout
<1>2. /\ MadeInv(w.players, w.heap) /\ ApartInv(w.players) /\ PlayersOK(w.players)
      /\ battles' = battles
  BY EnteredMade, EnteredOK, Zenon DEF PlayersInv, Logout
<1>3. \A m \in Names : players'[m] = IF m = n THEN None ELSE w.players[m]
  BY <1>1, <1>2 DEF PlayersOK
<1>4. MadeInv(players', heap')
  BY <1>1, <1>2, <1>3, Zenon DEF MadeInv
<1>5. ApartInv(players')
  BY <1>2, <1>3, Zenon DEF ApartInv
<1> QED
  BY <1>2, <1>4, <1>5, Zenon DEF PlayersInv

LEMMA StartBattleMade ==
    ASSUME Inv, PlayersInv, NEW n \in Names, NEW target \in Names, StartBattle(n, target)
    PROVE  PlayersInv'
<1>1. PICK w \in Entered(n) :
         /\ w.players[target] # None
         /\ battles' = Append(battles, NewBattle(w.players, n, target))
         /\ players' = w.players /\ heap' = w.heap
  BY Zenon DEF StartBattle, Becomes
<1>2. MadeInv(w.players, w.heap) /\ ApartInv(w.players)
  BY EnteredMade, Zenon DEF PlayersInv
<1>3. target # n
  BY Zenon DEF StartBattle
<1>4. w.players[n] # w.players[target]
  BY <1>1, <1>2, <1>3, Zenon DEF ApartInv
<1> DEFINE b == NewBattle(w.players, n, target)
<1>5. b.players[1] = w.players[n] /\ b.players[2] = w.players[target]
  BY DEF NewBattle
<1> HIDE DEF b
<1>6. /\ battles \in Seq(BattleType)
      /\ \A k \in DOMAIN battles : battles[k].players[1] # battles[k].players[2]
  BY Zenon DEF Inv, BattlesOK, PlayersInv, DuelsApart
<1>7. battles' = Append(battles, b)
  BY <1>1 DEF b
<1>8. ASSUME NEW k \in DOMAIN battles' PROVE battles'[k].players[1] # battles'[k].players[2]
  <2>1. \/ k \in DOMAIN battles /\ battles'[k] = battles[k]
        \/ battles'[k] = b
    BY <1>6, <1>7
  <2> QED
    BY <1>4, <1>5, <1>6, <2>1, Zenon
<1>9. DuelsApart(battles')
  BY <1>8, Zenon DEF DuelsApart
<1> QED
  BY <1>1, <1>2, <1>9, Zenon DEF PlayersInv

\* A battle keeps its two players whatever is assigned to its other fields.
LEMMA BattleKeepsPlayers ==
    ASSUME Inv, DuelsApart(battles), NEW k \in DOMAIN battles, NEW b,
           b.players = battles[k].players, battles' = [battles EXCEPT ![k] = b]
    PROVE  DuelsApart(battles')
<1>1. battles \in Seq(BattleType)
  BY Zenon DEF Inv, BattlesOK
<1>2. /\ DOMAIN battles' = DOMAIN battles
      /\ \A j \in DOMAIN battles : battles'[j] = IF j = k THEN b ELSE battles[j]
  BY <1>1
<1> QED
  BY <1>2, Zenon DEF DuelsApart

LEMMA FieldsAssigned ==
    ASSUME NEW b \in BattleType, NEW s, NEW t, NEW cause
    PROVE  /\ [b EXCEPT !.since = s].players = b.players
           /\ [b EXCEPT !.since = s, !.turn = t].players = b.players
           /\ Stopped(b, cause).players = b.players
           /\ Stopped([b EXCEPT !.since = s], cause).players = b.players
  BY DEF BattleType, Stopped

LEMMA BuyMade ==
    ASSUME Inv, PlayersInv, NEW n \in Names, Buy(n) PROVE PlayersInv'
<1>1. PICK w \in Entered(n) :
         /\ w.heap[w.players[n]].money >= Price
         /\ heap' = [w.heap EXCEPT ![w.players[n]] = Heal(CostMoney(@), KitHeal)]
         /\ players' = w.players
  BY Zenon DEF Buy, Becomes
<1>2. /\ w.players[n] \in Addr /\ HeapOK(w.heap) /\ PlayersOK(w.players)
      /\ MadeInv(w.players, w.heap) /\ ApartInv(w.players) /\ Made(w.heap[w.players[n]])
  BY EnteredMade, EnteredOK, Zenon DEF PlayersInv
<1> DEFINE p == w.heap[w.players[n]]
<1>3. p \in PlayerType /\ p.money >= Price /\ Made(p)
  BY <1>1, <1>2 DEF HeapOK
<1>4. heap' = [w.heap EXCEPT ![w.players[n]] = Heal(CostMoney(p), KitHeal)]
  BY <1>1, Zenon
<1> HIDE DEF p
<1> DEFINE q == Heal(CostMoney(p), KitHeal)
           x == w.players[n]
<1>5. Made(q)
  BY <1>3, PayOK, MadeKept, Zenon
<1> HIDE DEF q, x
<1>6. MadeInv(players', heap')
  <2>1. x \in Addr
    BY <1>2 DEF x
  <2>2. MadeInv(w.players, [w.heap EXCEPT ![x] = q])
    BY <1>2, <1>5, <2>1, HeapMade, Zenon
  <2>3. heap' = [w.heap EXCEPT ![x] = q]
    BY <1>4 DEF q, x
  <2> QED
    BY <1>1, <2>2, <2>3, Zenon
<1>7. battles' = battles
  BY Zenon DEF Buy
<1> QED
  BY <1>1, <1>2, <1>6, <1>7, Zenon DEF PlayersInv

LEMMA ResurrectMade ==
    ASSUME Inv, PlayersInv, NEW n \in Names, Resurrect(n) PROVE PlayersInv'
<1>1. PICK w \in Entered(n), delta \in ResurrectHeal :
         /\ heap' = [w.heap EXCEPT ![w.players[n]] = HealUntold(@, delta)]
         /\ players' = w.players
  BY Zenon DEF Resurrect, Becomes
<1>2. /\ w.players[n] \in Addr /\ HeapOK(w.heap) /\ PlayersOK(w.players)
      /\ MadeInv(w.players, w.heap) /\ ApartInv(w.players) /\ Made(w.heap[w.players[n]])
  BY EnteredMade, EnteredOK, Zenon DEF PlayersInv
<1> DEFINE p == w.heap[w.players[n]]
<1>3. p \in PlayerType /\ Made(p)
  BY <1>2 DEF HeapOK
<1>4. heap' = [w.heap EXCEPT ![w.players[n]] = HealUntold(p, delta)]
  BY <1>1, Zenon
<1> HIDE DEF p
<1> DEFINE q == HealUntold(p, delta)
           x == w.players[n]
<1>5. Made(q)
  BY <1>3, MadeKept, Zenon
<1> HIDE DEF q, x
<1>6. MadeInv(players', heap')
  <2>1. x \in Addr
    BY <1>2 DEF x
  <2>2. MadeInv(w.players, [w.heap EXCEPT ![x] = q])
    BY <1>2, <1>5, <2>1, HeapMade, Zenon
  <2>3. heap' = [w.heap EXCEPT ![x] = q]
    BY <1>4 DEF q, x
  <2> QED
    BY <1>1, <2>2, <2>3, Zenon
<1>7. battles' = battles
  BY Zenon DEF Resurrect
<1> QED
  BY <1>1, <1>2, <1>6, <1>7, Zenon DEF PlayersInv

LEMMA EscapeMade ==
    ASSUME Inv, PlayersInv, NEW k \in DOMAIN battles, NEW n \in Names, Escape(n, k)
    PROVE  PlayersInv'
<1>1. PICK w \in Entered(n) : players' = w.players /\ heap' = w.heap
  BY Zenon DEF Escape, Becomes
<1>2. battles[k] \in BattleType
  BY BattleFacts, Zenon DEF BattleOK
<1>3. MadeInv(players', heap') /\ ApartInv(players')
  BY <1>1, <1>2, CommandMade, Zenon
<1>4. battles' = [battles EXCEPT ![k] = Stopped(battles[k], "escaping")]
  BY Zenon DEF Escape
<1>5. DuelsApart(battles')
  BY <1>2, <1>4, FieldsAssigned, BattleKeepsPlayers, Zenon DEF PlayersInv
<1> QED
  BY <1>3, <1>5, Zenon DEF PlayersInv

\* Whoever strikes in a battle, and whoever is struck, has been created.
LEMMA FightersMade ==
    ASSUME Inv, PlayersInv, NEW k \in DOMAIN battles, BothAlive(battles[k])
    PROVE  LET b == battles[k]
               attacker == b.players[b.turn + 1]
               target == b.players[2 - b.turn]
           IN  /\ attacker \in Addr /\ target \in Addr
               /\ heap[attacker] \in PlayerType /\ heap[target] \in PlayerType
               /\ Made(heap[attacker]) /\ Made(heap[target]) /\ heap[target].health # 0
<1> DEFINE b == battles[k]
           attacker == b.players[b.turn + 1]
           target == b.players[2 - b.turn]
<1>1. b.turn \in 0..1 /\ b.players[1] \in Addr /\ b.players[2] \in Addr
  BY BattleFacts, Zenon
<1>2. heap[b.players[1]].health # 0 /\ heap[b.players[2]].health # 0
  BY Zenon DEF BothAlive
<1> HIDE DEF b
<1>3. attacker \in {b.players[1], b.players[2]} /\ target \in {b.players[1], b.players[2]}
  BY <1>1
<1>4. /\ attacker \in Addr /\ target \in Addr
      /\ heap[attacker].health # 0 /\ heap[target].health # 0
  BY <1>1, <1>2, <1>3, Zenon
<1> HIDE DEF attacker, target
<1>5. HeapOK(heap)
  BY DEF Inv
<1>6. heap[attacker] \in PlayerType /\ heap[target] \in PlayerType
  BY <1>4, <1>5 DEF HeapOK
<1>7. Made(heap[attacker]) /\ Made(heap[target])
  BY <1>4, Zenon DEF PlayersInv, MadeInv
<1> QED
  BY <1>4, <1>6, <1>7 DEF attacker, target, b

LEMMA HitMade ==
    ASSUME Inv, PlayersInv, NEW k \in DOMAIN battles, Hit(k) PROVE PlayersInv'
<1> DEFINE b == battles[k]
           attacker == b.players[b.turn + 1]
           target == b.players[2 - b.turn]
<1>1. PICK d : heap' = [heap EXCEPT ![target] = TakeDamage(@, d)]
  BY Zenon DEF Hit
<1>2. /\ BothAlive(b)
      /\ battles' = [battles EXCEPT ![k] = [b EXCEPT !.since = 0, !.turn = 1 - @]]
      /\ players' = players
  BY DEF Hit
<1>3. target \in Addr /\ heap[target] \in PlayerType /\ Made(heap[target])
  BY <1>2, FightersMade, Zenon
<1>4. b \in BattleType
  BY BattleFacts, Zenon DEF BattleOK
<1>5. heap' = [heap EXCEPT ![target] = TakeDamage(heap[target], d)]
  BY <1>1, Zenon
<1> HIDE DEF target, attacker
<1>6. MadeInv(players, heap')
  <2>1. Made(TakeDamage(heap[target], d))
    BY <1>3, MadeKept, Zenon
  <2>2. PlayersOK(players) /\ HeapOK(heap) /\ MadeInv(players, heap)
    BY Zenon DEF Inv, PlayersInv
  <2> QED
    BY <1>3, <1>5, <2>1, <2>2, HeapMade, Zenon
<1>7. DuelsApart(battles')
  <2> DEFINE t == 1 - b.turn
             c == [b EXCEPT !.since = 0, !.turn = t]
  <2>1. battles' = [battles EXCEPT ![k] = c]
    BY <1>2
  <2> HIDE DEF t
  <2>2. c.players = b.players
    BY <1>4, FieldsAssigned
  <2> HIDE DEF c
  <2> QED
    BY <2>1, <2>2, BattleKeepsPlayers, Zenon DEF PlayersInv
<1> QED
  BY <1>2, <1>6, <1>7, Zenon DEF PlayersInv

LEMMA WaitOrEndMade ==
    ASSUME Inv, PlayersInv, NEW k \in DOMAIN battles, WaitBattle(k) \/ EndBattle(k)
    PROVE  PlayersInv'
<1> DEFINE b == battles[k]
<1>1. b \in BattleType
  BY BattleFacts, Zenon DEF BattleOK
<1>2. \E s : \/ battles' = [battles EXCEPT ![k] = [b EXCEPT !.since = s]]
             \/ battles' = [battles EXCEPT ![k] = Stopped([b EXCEPT !.since = s], "normal")]
  BY DEF WaitBattle, EndBattle
<1>3. DuelsApart(battles')
  <2>1. \A s : /\ [b EXCEPT !.since = s].players = b.players
               /\ Stopped([b EXCEPT !.since = s], "normal").players = b.players
    BY <1>1, FieldsAssigned
  <2>2. PICK c : battles' = [battles EXCEPT ![k] = c] /\ c.players = b.players
    BY <1>2, <2>1, Zenon
  <2> QED
    BY <2>2, BattleKeepsPlayers, Zenon DEF PlayersInv
<1>4. players' = players /\ heap' = heap
  BY Zenon DEF WaitBattle, EndBattle
<1> QED
  BY <1>3, <1>4, Zenon DEF PlayersInv

LEMMA PlayersStep ==
    ASSUME Inv, PlayersInv, [Next]_vars
    PROVE  PlayersInv'
<1>1. CASE UNCHANGED <<players, heap, battles>>
  BY <1>1, Zenon DEF PlayersInv
<1>2. ASSUME NEW n \in Names, NEW w \in Entered(n),
             players' = w.players, heap' = w.heap, battles' = battles
      PROVE  PlayersInv'
  BY <1>2, CommandMade, Zenon DEF PlayersInv
<1>3. ASSUME NEW n \in Names,
             \/ Lookup(n) \/ CannotAfford(n) \/ QueryEvent(n) \/ Say(n) \/ Fuck(n)
      PROVE  PlayersInv'
  <2>1. battles' = battles /\ \E w \in Entered(n) : players' = w.players /\ heap' = w.heap
    BY <1>3, Zenon DEF Lookup, CannotAfford, QueryEvent, Say, Fuck, Becomes
  <2> QED
    BY <1>2, <2>1, Zenon
<1>4. ASSUME NEW n \in Names, NEW target \in Names, RefuseBattle(n, target)
      PROVE  PlayersInv'
  <2>1. battles' = battles /\ \E w \in Entered(n) : players' = w.players /\ heap' = w.heap
    BY <1>4, Zenon DEF RefuseBattle, Becomes
  <2> QED
    BY <1>2, <2>1, Zenon
<1>5. CASE UNCHANGED vars
  BY <1>1, <1>5 DEF vars
<1>6. CASE Tick \/ (\E k \in DOMAIN battles : Crash(k) \/ SkipBattle(k))
  <2>1. UNCHANGED <<players, heap, battles>>
    BY <1>6, Zenon DEF Tick, Crash, SkipBattle
  <2> QED
    BY <1>1, <2>1, Zenon
<1>7. CASE \E n \in Names : Logout(n) \/ Buy(n) \/ Resurrect(n)
  BY <1>7, LogoutMade, BuyMade, ResurrectMade, Zenon
<1>8. CASE \E n, target \in Names : StartBattle(n, target)
  BY <1>8, StartBattleMade, Zenon
<1>9. CASE \E k \in DOMAIN battles : \/ \E n \in Names : Escape(n, k)
                                    \/ Hit(k) \/ WaitBattle(k) \/ EndBattle(k)
  BY <1>9, EscapeMade, HitMade, WaitOrEndMade, Zenon
<1> QED
  BY <1>3, <1>4, <1>5, <1>6, <1>7, <1>8, <1>9, Zenon DEF Next, UpdateBattle

----------------------------------------------------------------------------
(***************************************************************************)
(* What pushing and popping do to a queue.                                 *)
(***************************************************************************)
LEMMA Appended ==
    ASSUME NEW q \in Seq(EventType), NEW e \in EventType
    PROVE  LET t == Append(q, e)
           IN  /\ Len(q) \in Nat /\ DOMAIN q = 1..Len(q)
               /\ DOMAIN t = 1..(Len(q) + 1) /\ t[Len(q) + 1] = e
               /\ \A i \in 1..Len(q) : t[i] = q[i] /\ q[i].number \in Nat
               /\ e.number \in Nat
<1>1. \A i \in 1..Len(q) : q[i] \in EventType
  OBVIOUS
<1> QED
  BY <1>1 DEF EventType

LEMMA HurtsAppended ==
    ASSUME NEW q \in Seq(EventType), NEW e \in EventType, Hurts(q), Hurting(e)
    PROVE  Hurts(Append(q, e))
<1> DEFINE t == Append(q, e)
<1>1. /\ Len(q) \in Nat /\ DOMAIN q = 1..Len(q)
      /\ DOMAIN t = 1..(Len(q) + 1) /\ t[Len(q) + 1] = e
      /\ \A i \in 1..Len(q) : t[i] = q[i]
  BY Appended
<1> HIDE DEF t
<1>2. \A i \in DOMAIN t : i = Len(q) + 1 \/ (i \in DOMAIN q /\ t[i] = q[i])
  BY <1>1
<1>3. \A i \in DOMAIN t : Hurting(t[i])
  BY <1>1, <1>2, Zenon DEF Hurts
<1> QED
  BY <1>3 DEF Hurts, t

\* An event of any other kind does not disturb the broadcasts.
LEMMA OrderAppended ==
    ASSUME NEW q \in Seq(EventType), NEW e \in EventType, e.kind # "broadcast",
           NEW h, NEW s, InOrder(q, h, s)
    PROVE  InOrder(Append(q, e), h, s)
<1> DEFINE t == Append(q, e)
<1>1. /\ Len(q) \in Nat /\ DOMAIN q = 1..Len(q)
      /\ DOMAIN t = 1..(Len(q) + 1) /\ t[Len(q) + 1] = e
      /\ \A i \in 1..Len(q) : t[i] = q[i]
  BY Appended
<1> HIDE DEF t
<1>2. Waiting(t) = Waiting(q) /\ \A i \in Waiting(q) : t[i] = q[i]
  BY <1>1 DEF Waiting
<1>3. InOrder(t, h, s)
  BY <1>2, Zenon DEF InOrder
<1> QED
  BY <1>3 DEF t

\* The next broadcast continues the ones that wait.
LEMMA OrderContinued ==
    ASSUME NEW q \in Seq(EventType), NEW e \in EventType, NEW h \in Nat, NEW s \in Nat,
           e.kind = "broadcast", e.number = s + 1, h <= s, InOrder(q, h, s)
    PROVE  InOrder(Append(q, e), h, s + 1)
<1> DEFINE t == Append(q, e)
<1>1. /\ Len(q) \in Nat /\ DOMAIN q = 1..Len(q)
      /\ DOMAIN t = 1..(Len(q) + 1) /\ t[Len(q) + 1] = e
      /\ \A i \in 1..Len(q) : t[i] = q[i] /\ q[i].number \in Nat
  BY Appended
<1> HIDE DEF t
<1>2. /\ Waiting(t) = Waiting(q) \cup {Len(q) + 1}
      /\ \A i \in Waiting(q) : t[i] = q[i] /\ q[i].number \in Nat /\ i \in 1..Len(q)
      /\ t[Len(q) + 1].number = s + 1
  BY <1>1 DEF Waiting
<1>3. /\ \A i, j \in Waiting(q) : i < j => q[i].number < q[j].number
      /\ \A i \in Waiting(q) : h < q[i].number /\ q[i].number <= s
  BY DEF InOrder
<1>4. \A i, j \in Waiting(t) : i < j => t[i].number < t[j].number
  <2> SUFFICES ASSUME NEW i \in Waiting(t), NEW j \in Waiting(t), i < j
               PROVE  t[i].number < t[j].number
    OBVIOUS
  <2>1. i \in Waiting(q)
    BY <1>1, <1>2
  <2>2. CASE j \in Waiting(q)
    BY <1>2, <1>3, <2>1, <2>2
  <2>3. CASE j = Len(q) + 1
    <3>1. t[i].number = q[i].number /\ q[i].number \in Nat /\ q[i].number <= s
      BY <1>2, <1>3, <2>1
    <3> QED
      BY <1>2, <2>3, <3>1
  <2> QED
    BY <1>2, <2>2, <2>3
<1>5. \A i \in Waiting(t) : h < t[i].number /\ t[i].number <= s + 1
  <2> SUFFICES ASSUME NEW i \in Waiting(t) PROVE h < t[i].number /\ t[i].number <= s + 1
    OBVIOUS
  <2>1. CASE i \in Waiting(q)
    <3>1. t[i].number = q[i].number /\ q[i].number \in Nat /\ h < q[i].number /\ q[i].number <= s
      BY <1>2, <1>3, <2>1
    <3> QED
      BY <3>1
  <2>2. CASE i = Len(q) + 1
    BY <1>2, <2>2
  <2> QED
    BY <1>2, <2>1, <2>2
<1>6. ASSUME NEW x \in 1..(s + 1),
             \/ h > 0 /\ h < x
             \/ \E i \in Waiting(t) : t[i].number < x
      PROVE  \E i \in Waiting(t) : t[i].number = x
  <2>1. CASE x = s + 1
    BY <1>2, <2>1
  <2>2. CASE x # s + 1
    <3>1. x \in 1..s
      BY <2>2
    <3>2. ASSUME NEW i \in Waiting(t), t[i].number < x PROVE i \in Waiting(q) /\ q[i].number < x
      BY <1>2, <3>1, <3>2
    <3>3. \/ h > 0 /\ h < x
          \/ \E i \in Waiting(q) : q[i].number < x
      BY <1>6, <3>2
    <3>4. \E i \in Waiting(q) : q[i].number = x
      BY <3>1, <3>3 DEF InOrder
    <3> QED
      BY <1>2, <3>4
  <2> QED
    BY <2>1, <2>2
<1>7. InOrder(t, h, s + 1)
  BY <1>4, <1>5, <1>6 DEF InOrder
<1> QED
  BY <1>7 DEF t

\* Popping the oldest event gives its owner the next broadcast or none.
LEMMA OrderPopped ==
    ASSUME NEW q \in Seq(EventType), q # <<>>, NEW h \in Nat, NEW s \in Nat,
           InOrder(q, h, s), Hurts(q)
    PROVE  LET g == IF Head(q).kind = "broadcast" THEN Head(q).number ELSE h
           IN  InOrder(Tail(q), g, s) /\ (h <= s => g <= s) /\ Hurts(Tail(q))
<1> DEFINE t == Tail(q)
           g == IF Head(q).kind = "broadcast" THEN Head(q).number ELSE h
<1>1. /\ Len(q) \in Nat /\ Len(q) # 0 /\ DOMAIN q = 1..Len(q)
      /\ DOMAIN t = 1..(Len(q) - 1) /\ Head(q) = q[1]
      /\ \A i \in 1..(Len(q) - 1) : t[i] = q[i + 1]
  OBVIOUS
<1>2. \A i \in 1..Len(q) : q[i].number \in Nat
  BY Appended
<1>3. g = IF q[1].kind = "broadcast" THEN q[1].number ELSE h
  BY <1>1
<1> HIDE DEF t, g
<1>4. /\ \A i \in Waiting(t) : i \in 1..(Len(q) - 1) /\ i + 1 \in Waiting(q) /\ t[i] = q[i + 1]
      /\ \A j \in Waiting(q) : j # 1 => j - 1 \in Waiting(t) /\ t[j - 1] = q[j]
      /\ q[1].kind = "broadcast" <=> 1 \in Waiting(q)
  BY <1>1 DEF Waiting
<1>5. /\ \A i, j \in Waiting(q) : i < j => q[i].number < q[j].number
      /\ \A i \in Waiting(q) : /\ h < q[i].number /\ q[i].number <= s
                               /\ i \in 1..Len(q) /\ q[i].number \in Nat
  BY <1>1, <1>2 DEF InOrder, Waiting
<1>6. \A i, j \in Waiting(t) : i < j => t[i].number < t[j].number
  <2> SUFFICES ASSUME NEW i \in Waiting(t), NEW j \in Waiting(t), i < j
               PROVE  t[i].number < t[j].number
    OBVIOUS
  <2>1. i + 1 \in Waiting(q) /\ j + 1 \in Waiting(q) /\ i + 1 < j + 1
    BY <1>1, <1>4
  <2>2. t[i] = q[i + 1] /\ t[j] = q[j + 1]
    BY <1>4, Zenon
  <2>3. q[i + 1].number < q[j + 1].number
    BY <1>5, <2>1, Zenon
  <2> QED
    BY <2>2, <2>3, Zenon
<1>7. \A i \in Waiting(t) : g < t[i].number /\ t[i].number <= s
  <2> SUFFICES ASSUME NEW i \in Waiting(t) PROVE g < t[i].number /\ t[i].number <= s
    OBVIOUS
  <2>1. i + 1 \in Waiting(q) /\ t[i] = q[i + 1] /\ 1 < i + 1
    BY <1>1, <1>4
  <2>2. CASE 1 \in Waiting(q)
    BY <1>3, <1>4, <1>5, <2>1, <2>2
  <2>3. CASE 1 \notin Waiting(q)
    BY <1>3, <1>4, <1>5, <2>1, <2>3
  <2> QED
    BY <2>2, <2>3
<1>8. ASSUME NEW x \in 1..s,
             \/ g > 0 /\ g < x
             \/ \E i \in Waiting(t) : t[i].number < x
      PROVE  \E i \in Waiting(t) : t[i].number = x
  <2>1. g \in Nat
    <3>1. 1 \in 1..Len(q)
      BY <1>1
    <3> QED
      BY <1>2, <1>3, <3>1
  <2>2. g < x
    <3>1. ASSUME NEW i \in Waiting(t), t[i].number < x PROVE g < x
      <4>1. t[i].number \in Nat /\ g < t[i].number
        BY <1>4, <1>5, <1>7
      <4> QED
        BY <2>1, <3>1, <4>1
    <3> QED
      BY <1>8, <3>1
  <2>3. \/ h > 0 /\ h < x
        \/ \E i \in Waiting(q) : q[i].number < x
    <3>1. CASE 1 \in Waiting(q)
      BY <1>3, <1>4, <2>2, <3>1
    <3>2. CASE 1 \notin Waiting(q)
      BY <1>3, <1>4, <1>8, <3>2
    <3> QED
      BY <3>1, <3>2
  <2>4. PICK j \in Waiting(q) : q[j].number = x
    BY <2>3 DEF InOrder
  <2>5. j # 1
    BY <1>3, <1>4, <2>1, <2>2, <2>4
  <2> QED
    BY <1>4, <2>4, <2>5
<1>9. InOrder(t, g, s)
  BY <1>6, <1>7, <1>8 DEF InOrder
<1>10. h <= s => g <= s
  BY <1>3, <1>4, <1>5
<1>11. Hurts(t)
  <2>1. \A i \in DOMAIN t : i + 1 \in DOMAIN q /\ t[i] = q[i + 1]
    BY <1>1
  <2> QED
    BY <2>1, Zenon DEF Hurts
<1> QED
  BY <1>9, <1>10, <1>11 DEF t, g

LEMMA EmptyOrder ==
    ASSUME NEW s
    PROVE  /\ InOrder(<<>>, 0, s) /\ Hurts(<<>>)
           /\ \A e : e.kind # "broadcast" /\ Hurting(e) => InOrder(<<e>>, 0, s) /\ Hurts(<<e>>)
<1>1. Waiting(<<>>) = {} /\ Hurts(<<>>)
  BY DEF Waiting, Hurts
<1>2. \A e : e.kind # "broadcast" => Waiting(<<e>>) = {}
  BY DEF Waiting
<1>3. \A e : Hurting(e) => Hurts(<<e>>)
  <2> TAKE e
  <2>1. \A i \in DOMAIN <<e>> : <<e>>[i] = e
    OBVIOUS
  <2> QED
    BY <2>1, Zenon DEF Hurts
<1>4. \A q : Waiting(q) = {} => InOrder(q, 0, s)
  BY DEF InOrder
<1> QED
  BY <1>1, <1>2, <1>3, <1>4, Zenon

----------------------------------------------------------------------------
(***************************************************************************)
(* Every step keeps the queues in order.                                   *)
(***************************************************************************)
LEMMA PushInOrder ==
    ASSUME NEW ev, EventsOK(ev), NEW hd, NEW s, QueuesInv(ev, hd, s),
           NEW n \in Names, NEW e \in EventType, e.kind # "broadcast", Hurting(e)
    PROVE  QueuesInv(Push(ev, n, e), hd, s)
<1> DEFINE t == Push(ev, n, e)
<1>1. /\ DOMAIN t = DOMAIN ev \cup {n}
      /\ \A m \in DOMAIN t : /\ m # n => m \in DOMAIN ev /\ t[m] = ev[m]
                             /\ m = n /\ n \in DOMAIN ev => t[m] = Append(ev[n], e)
                             /\ m = n /\ n \notin DOMAIN ev => t[m] = <<e>>
  BY DEF Push
<1> HIDE DEF t
<1>2. /\ \A m \in Names : hd[m] <= s /\ (m \notin DOMAIN ev => hd[m] = 0)
      /\ \A m \in DOMAIN ev : InOrder(ev[m], hd[m], s) /\ Hurts(ev[m])
  BY Zenon DEF QueuesInv
<1>3. ASSUME NEW m \in DOMAIN t PROVE InOrder(t[m], hd[m], s) /\ Hurts(t[m])
  <2>1. CASE m # n
    BY <1>1, <1>2, <2>1, Zenon
  <2>2. CASE m = n /\ n \in DOMAIN ev
    <3>1. ev[n] \in Seq(EventType)
      BY <2>2, Zenon DEF EventsOK
    <3>2. InOrder(Append(ev[n], e), hd[n], s) /\ Hurts(Append(ev[n], e))
      BY <1>2, <2>2, <3>1, OrderAppended, HurtsAppended, Zenon
    <3> QED
      BY <1>1, <2>2, <3>2, Zenon
  <2>3. CASE m = n /\ n \notin DOMAIN ev
    <3>1. hd[n] = 0 /\ t[m] = <<e>>
      BY <1>1, <1>2, <2>3, Zenon
    <3> QED
      BY <2>3, <3>1, EmptyOrder, Zenon
  <2> QED
    BY <2>1, <2>2, <2>3, Zenon
<1>4. QueuesInv(t, hd, s)
  BY <1>1, <1>2, <1>3, Zenon DEF QueuesInv
<1> QED
  BY <1>4 DEF t

\* An event of a battle, of a purchase or of the chat.
LEMMA QuietEvent ==
    ASSUME NEW kind \in Kinds \ {"broadcast"}, NEW about \in Names, NEW number \in Nat,
           kind = "health-drop" => number > 0
    PROVE  LET e == Event(kind, about, number)
           IN  e \in EventType /\ e.kind # "broadcast" /\ Hurting(e)
<1>1. Event(kind, about, number) \in EventType
  BY EventOK
<1> QED
  BY <1>1 DEF Event, Hurting

LEMMA SayInOrder ==
    ASSUME Inv, QueuesInv(events, heard, said), NEW n \in Names, Say(n)
    PROVE  QueuesInv(events', heard', said')
<1> DEFINE e == Event("broadcast", n, said + 1)
<1>1. said \in Nat /\ heard \in [Names -> Nat] /\ EventsOK(events)
  BY Frame
<1>2. e \in EventType /\ e.kind = "broadcast" /\ e.number = said + 1 /\ Hurting(e)
  <2>1. e \in EventType
    BY <1>1, EventOK DEF Kinds
  <2> QED
    BY <2>1 DEF Event, Hurting
<1>3. /\ events' = [m \in DOMAIN events |-> Append(events[m], e)]
      /\ said' = said + 1 /\ heard' = heard
  BY DEF Say, PushAll, history
<1> HIDE DEF e
<1>4. /\ \A m \in Names : heard[m] <= said /\ (m \notin DOMAIN events => heard[m] = 0)
      /\ \A m \in DOMAIN events : InOrder(events[m], heard[m], said) /\ Hurts(events[m])
  BY Zenon DEF QueuesInv
<1>5. ASSUME NEW m \in DOMAIN events
      PROVE  InOrder(Append(events[m], e), heard[m], said + 1) /\ Hurts(Append(events[m], e))
  <2>1. m \in Names /\ events[m] \in Seq(EventType)
    BY <1>1, Zenon DEF EventsOK
  <2>2. heard[m] \in Nat /\ heard[m] <= said
    BY <1>1, <1>4, <2>1
  <2> QED
    BY <1>1, <1>2, <1>4, <2>1, <2>2, OrderContinued, HurtsAppended, Zenon
<1>6. \A m \in Names : heard[m] <= said + 1
  BY <1>1, <1>4
<1>7. DOMAIN events' = DOMAIN events /\ \A m \in DOMAIN events : events'[m] = Append(events[m], e)
  BY <1>3
<1>8. /\ \A m \in Names : heard'[m] <= said' /\ (m \notin DOMAIN events' => heard'[m] = 0)
      /\ \A m \in DOMAIN events' : InOrder(events'[m], heard'[m], said') /\ Hurts(events'[m])
  BY <1>3, <1>4, <1>5, <1>6, <1>7, Zenon
<1> QED
  BY <1>8, Zenon DEF QueuesInv

LEMMA QueryInOrder ==
    ASSUME Inv, QueuesInv(events, heard, said), NEW n \in Names, QueryEvent(n)
    PROVE  QueuesInv(events', heard', said')
<1>1. said \in Nat /\ heard \in [Names -> Nat] /\ EventsOK(events)
  BY Frame
<1>2. said' = said
  BY Zenon DEF QueryEvent
<1>3. /\ \A m \in Names : heard[m] <= said /\ (m \notin DOMAIN events => heard[m] = 0)
      /\ \A m \in DOMAIN events : InOrder(events[m], heard[m], said) /\ Hurts(events[m])
  BY Zenon DEF QueuesInv
<1>4. CASE Queue(n) = <<>>
  <2>1. events' = [m \in DOMAIN events \cup {n} |-> Queue(m)] /\ heard' = heard
    BY <1>4, Zenon DEF QueryEvent
  <2>2. /\ DOMAIN events' = DOMAIN events \cup {n}
        /\ \A m \in DOMAIN events : events'[m] = events[m]
        /\ n \notin DOMAIN events => events'[n] = <<>>
    BY <2>1 DEF Queue
  <2>3. ASSUME NEW m \in DOMAIN events' PROVE InOrder(events'[m], heard[m], said) /\ Hurts(events'[m])
    <3>1. CASE m \in DOMAIN events
      BY <1>3, <2>2, <3>1, Zenon
    <3>2. CASE m \notin DOMAIN events
      <4>1. m = n /\ events'[m] = <<>> /\ heard[m] = 0
        BY <1>3, <2>2, <3>2, Zenon
      <4> QED
        BY <4>1, EmptyOrder, Zenon
    <3> QED
      BY <3>1, <3>2
  <2>4. \A m \in Names : heard[m] <= said /\ (m \notin DOMAIN events' => heard[m] = 0)
    BY <1>3, <2>2, Zenon
  <2> QED
    BY <1>2, <2>1, <2>3, <2>4, Zenon DEF QueuesInv
<1>5. CASE Queue(n) # <<>>
  <2> DEFINE q == events[n]
             g == IF Head(q).kind = "broadcast" THEN Head(q).number ELSE heard[n]
  <2>1. n \in DOMAIN events /\ Queue(n) = q /\ q # <<>>
    BY <1>5, Zenon DEF Queue
  <2>2. /\ events' = [events EXCEPT ![n] = Tail(q)]
        /\ heard' = IF Head(q).kind = "broadcast" THEN [heard EXCEPT ![n] = Head(q).number]
                                                  ELSE heard
    BY <1>5, <2>1, Zenon DEF QueryEvent, Given
  <2>3. q \in Seq(EventType) /\ heard[n] \in Nat /\ heard[n] <= said
    BY <1>1, <1>3, <2>1 DEF EventsOK
  <2>4. InOrder(Tail(q), g, said) /\ g <= said /\ Hurts(Tail(q))
    BY <1>1, <1>3, <2>1, <2>3, OrderPopped
  <2>5. /\ DOMAIN events' = DOMAIN events
        /\ \A m \in DOMAIN events : events'[m] = IF m = n THEN Tail(q) ELSE events[m]
    BY <2>2
  <2>6. \A m \in Names : heard'[m] = IF m = n THEN g ELSE heard[m]
    BY <1>1, <2>2
  <2> HIDE DEF g, q
  <2>7. \A m \in DOMAIN events : m \in Names
    BY <1>1, Zenon DEF EventsOK
  <2>8. ASSUME NEW m \in DOMAIN events' PROVE InOrder(events'[m], heard'[m], said) /\ Hurts(events'[m])
    BY <1>3, <2>4, <2>5, <2>6, <2>7, Zenon
  <2>9. \A m \in Names : heard'[m] <= said /\ (m \notin DOMAIN events' => heard'[m] = 0)
    BY <1>3, <2>1, <2>4, <2>5, <2>6, Zenon
  <2> QED
    BY <1>2, <2>8, <2>9, Zenon DEF QueuesInv
<1> QED
  BY <1>4, <1>5

LEMMA FuckInOrder ==
    ASSUME Inv, QueuesInv(events, heard, said), NEW n \in Names, Fuck(n)
    PROVE  QueuesInv(events', heard', said')
<1> DEFINE others == {m \in Names \ {n} : players[m] # None}
           e == Event("fuck", n, 0)
<1>1. EventsOK(events)
  BY Frame
<1>2. e \in EventType /\ e.kind # "broadcast" /\ Hurting(e)
  BY QuietEvent DEF Kinds
<1>3. /\ events' = [m \in DOMAIN events \cup others |->
                       IF m \in others THEN Append(Queue(m), e) ELSE events[m]]
      /\ UNCHANGED <<said, heard>>
  BY Zenon DEF Fuck, history
<1>4. /\ \A m \in Names : heard[m] <= said /\ (m \notin DOMAIN events => heard[m] = 0)
      /\ \A m \in DOMAIN events : InOrder(events[m], heard[m], said) /\ Hurts(events[m])
  BY Zenon DEF QueuesInv
<1>5. others \subseteq Names
  OBVIOUS
<1> HIDE DEF others, e
<1>6. /\ DOMAIN events' = DOMAIN events \cup others
      /\ \A m \in DOMAIN events' : events'[m] = IF m \in others THEN Append(Queue(m), e)
                                                                ELSE events[m]
  BY <1>3
<1>7. ASSUME NEW m \in Names
      PROVE  InOrder(Append(Queue(m), e), heard[m], said) /\ Hurts(Append(Queue(m), e))
  <2>1. Queue(m) \in Seq(EventType)
    BY QueueOK
  <2>2. InOrder(Queue(m), heard[m], said) /\ Hurts(Queue(m))
    <3>1. CASE m \in DOMAIN events
      BY <1>4, <3>1, Zenon DEF Queue
    <3>2. CASE m \notin DOMAIN events
      BY <1>4, <3>2, EmptyOrder, Zenon DEF Queue
    <3> QED
      BY <3>1, <3>2
  <2> QED
    BY <1>2, <2>1, <2>2, OrderAppended, HurtsAppended, Zenon
<1>8. \A m \in DOMAIN events' : InOrder(events'[m], heard[m], said) /\ Hurts(events'[m])
  BY <1>4, <1>5, <1>6, <1>7, Zenon
<1>9. \A m \in Names : heard[m] <= said /\ (m \notin DOMAIN events' => heard[m] = 0)
  BY <1>4, <1>6, Zenon
<1> QED
  BY <1>3, <1>8, <1>9, Zenon DEF QueuesInv

LEMMA OnePush ==
    ASSUME Inv, QueuesInv(events, heard, said), UNCHANGED <<said, heard>>,
           NEW n \in Names, NEW kind \in Kinds \ {"broadcast", "health-drop"},
           NEW about \in Names, NEW number \in Nat,
           events' = Push(events, n, Event(kind, about, number))
    PROVE  QueuesInv(events', heard', said')
<1> DEFINE e == Event(kind, about, number)
<1>1. e \in EventType /\ e.kind # "broadcast" /\ Hurting(e)
  BY QuietEvent
<1>2. EventsOK(events)
  BY Frame
<1> HIDE DEF e
<1>3. QueuesInv(Push(events, n, e), heard, said)
  BY <1>1, <1>2, PushInOrder, Zenon
<1> QED
  BY <1>3, Zenon DEF e

LEMMA TwoPushes ==
    ASSUME Inv, QueuesInv(events, heard, said), UNCHANGED <<said, heard>>,
           NEW n \in Names, NEW m \in Names, NEW e \in EventType, NEW f \in EventType,
           e.kind # "broadcast", f.kind # "broadcast", Hurting(e), Hurting(f),
           events' = Push(Push(events, n, e), m, f)
    PROVE  QueuesInv(events', heard', said')
<1>1. EventsOK(events)
  BY Frame
<1>2. QueuesInv(Push(events, n, e), heard, said) /\ EventsOK(Push(events, n, e))
  BY <1>1, PushInOrder, PushOK, Zenon
<1>3. QueuesInv(Push(Push(events, n, e), m, f), heard, said)
  BY <1>2, PushInOrder, Zenon
<1> QED
  BY <1>3, Zenon

LEMMA StartBattleInOrder ==
    ASSUME Inv, QueuesInv(events, heard, said),
           NEW n \in Names, NEW target \in Names, StartBattle(n, target)
    PROVE  QueuesInv(events', heard', said')
<1>1. /\ events' = Push(events, target, Event("battle", n, 0))
      /\ UNCHANGED <<said, heard>>
  BY Zenon DEF StartBattle, history
<1>2. "battle" \in Kinds \ {"broadcast", "health-drop"} /\ 0 \in Nat
  BY DEF Kinds
<1> QED
  BY <1>1, <1>2, OnePush, Zenon

LEMMA BuyInOrder ==
    ASSUME Inv, QueuesInv(events, heard, said), NEW n \in Names, Buy(n)
    PROVE  QueuesInv(events', heard', said')
<1>1. /\ events' = Push(events, n, Event("cure", n, KitHeal))
      /\ UNCHANGED <<said, heard>>
  BY Zenon DEF Buy, history
<1>2. "cure" \in Kinds \ {"broadcast", "health-drop"} /\ KitHeal \in Nat
  BY NumbersAssumption DEF Kinds
<1> QED
  BY <1>1, <1>2, OnePush, Zenon

LEMMA EscapeInOrder ==
    ASSUME Inv, QueuesInv(events, heard, said), NEW k \in DOMAIN battles,
           NEW n \in Names, Escape(n, k)
    PROVE  QueuesInv(events', heard', said')
<1>1. battles[k].players[2] \in Addr
  BY BattleFacts, Zenon
<1>2. PICK w \in Entered(n) :
         events' = EscapeVerdict(events, w.heap[battles[k].players[2]])
  BY Zenon DEF Escape
<1>3. HeapOK(w.heap)
  BY <1>1, EnteredOK, Zenon
<1> DEFINE name == w.heap[battles[k].players[2]].name
<1>4. name \in Names
  BY <1>1, <1>3 DEF HeapOK, PlayerType
<1>5. events' = Push(events, name, Event("escaped", name, 0)) /\ UNCHANGED <<said, heard>>
  BY <1>2, Zenon DEF EscapeVerdict, Escape, history
<1>6. "escaped" \in Kinds \ {"broadcast", "health-drop"} /\ 0 \in Nat
  BY DEF Kinds
<1> HIDE DEF name
<1> QED
  BY <1>4, <1>5, <1>6, OnePush, Zenon

LEMMA EndBattleInOrder ==
    ASSUME Inv, QueuesInv(events, heard, said), NEW k \in DOMAIN battles, EndBattle(k)
    PROVE  QueuesInv(events', heard', said')
<1> DEFINE p == heap[battles[k].players[1]]
           q == heap[battles[k].players[2]]
           loser == IF p.health = 0 THEN p.name ELSE q.name
           e == Event("game-end", p.name, 0)
           f == Event("lost", loser, 0)
<1>1. battles[k].players[1] \in Addr /\ battles[k].players[2] \in Addr /\ HeapOK(heap)
  BY BattleFacts, Frame, Zenon
<1>2. p.name \in Names /\ q.name \in Names
  BY <1>1 DEF HeapOK, PlayerType
<1>3. events' = Push(Push(events, p.name, e), q.name, f) /\ UNCHANGED <<said, heard>>
  BY Zenon DEF EndBattle, NormalVerdict, history
<1> HIDE DEF p, q
<1>4. loser \in Names
  BY <1>2
<1> HIDE DEF loser
<1>5. /\ e \in EventType /\ e.kind # "broadcast" /\ Hurting(e)
      /\ f \in EventType /\ f.kind # "broadcast" /\ Hurting(f)
  BY <1>2, <1>4, QuietEvent DEF Kinds
<1> HIDE DEF e, f
<1> QED
  BY <1>2, <1>3, <1>5, TwoPushes, Zenon

\* The blow that is announced has cost its target health.
LEMMA HitInOrder ==
    ASSUME Inv, PlayersInv, QueuesInv(events, heard, said), NEW k \in DOMAIN battles, Hit(k)
    PROVE  QueuesInv(events', heard', said')
<1> DEFINE b == battles[k]
           attacker == b.players[b.turn + 1]
           target == b.players[2 - b.turn]
<1>1. PICK d \in DamageTo(heap[attacker], heap[target]) :
         LET drop == HealthDrop(heap[target], d)
         IN  events' = Push(Push(events, heap[attacker].name, drop),
                            heap[target].name, drop)
  BY Zenon DEF Hit
<1>2. /\ attacker \in Addr /\ target \in Addr
      /\ heap[attacker] \in PlayerType /\ heap[target] \in PlayerType
      /\ Made(heap[attacker]) /\ Made(heap[target]) /\ heap[target].health # 0
  <2>1. BothAlive(battles[k])
    BY Zenon DEF Hit
  <2> QED
    BY <2>1, FightersMade, Zenon
<1> HIDE DEF attacker, target
<1>3. Drop(heap[target], d) \in 1..heap[target].health
  BY <1>2, StrikesHurt
<1>4. heap[attacker].name \in Names /\ heap[target].name \in Names /\ heap[target].health \in Nat
  BY <1>2 DEF PlayerType
<1> DEFINE lost == Drop(heap[target], d)
           drop == Event("health-drop", heap[target].name, lost)
<1>5. lost \in Nat /\ lost > 0
  BY <1>3, <1>4
<1>6. events' = Push(Push(events, heap[attacker].name, drop), heap[target].name, drop)
  BY <1>1, Zenon DEF HealthDrop
<1> HIDE DEF lost
<1>7. drop \in EventType /\ drop.kind # "broadcast" /\ Hurting(drop)
  BY <1>4, <1>5, QuietEvent DEF Kinds
<1>8. UNCHANGED <<said, heard>>
  BY Zenon DEF Hit, history
<1> HIDE DEF drop
<1> QED
  BY <1>4, <1>6, <1>7, <1>8, TwoPushes, Zenon

LEMMA QueuesStep ==
    ASSUME Inv, PlayersInv, QueuesInv(events, heard, said), [Next]_vars
    PROVE  QueuesInv(events', heard', said')
<1>1. CASE UNCHANGED <<events, heard, said>>
  BY <1>1, Zenon
<1>2. CASE UNCHANGED vars
  BY <1>1, <1>2 DEF vars
<1>3. CASE \/ \E n \in Names : Lookup(n) \/ Logout(n) \/ CannotAfford(n) \/ Resurrect(n)
           \/ \E n, target \in Names : RefuseBattle(n, target)
           \/ Tick
           \/ \E k \in DOMAIN battles : Crash(k) \/ SkipBattle(k) \/ WaitBattle(k)
  <2>1. UNCHANGED <<events, heard, said>>
    BY <1>3, Zenon DEF Lookup, Logout, CannotAfford, Resurrect, RefuseBattle, Tick, Crash,
                       SkipBattle, WaitBattle, history
  <2> QED
    BY <1>1, <2>1, Zenon
<1>4. CASE \E n \in Names : Buy(n) \/ QueryEvent(n) \/ Say(n) \/ Fuck(n)
  BY <1>4, BuyInOrder, QueryInOrder, SayInOrder, FuckInOrder, Zenon
<1>5. CASE \E n, target \in Names : StartBattle(n, target)
  BY <1>5, StartBattleInOrder, Zenon
<1>6. CASE \E k \in DOMAIN battles : \/ \E n \in Names : Escape(n, k)
                                    \/ Hit(k) \/ EndBattle(k)
  BY <1>6, EscapeInOrder, HitInOrder, EndBattleInOrder, Zenon
<1> QED
  BY <1>2, <1>3, <1>4, <1>5, <1>6, Zenon DEF Next, UpdateBattle

----------------------------------------------------------------------------
(***************************************************************************)
(* The theorems about events.                                              *)
(***************************************************************************)
Promises == Inv /\ PlayersInv /\ QueuesInv(events, heard, said)

LEMMA PromisesInit == Init => Promises
<1> SUFFICES ASSUME Init PROVE Promises
  OBVIOUS
<1>1. Inv
  BY InitEstablishes
<1>2. PlayersInv
  <2>1. \A n \in Names : players[n] = None
    BY DEF Init
  <2>2. \A x \in Addr : heap[x].health = 0
    BY DEF Init, NewPlayer
  <2>3. DuelsApart(battles)
    BY DEF Init, DuelsApart
  <2> QED
    BY <2>1, <2>2, <2>3, Zenon DEF PlayersInv, MadeInv, ApartInv
<1>3. QueuesInv(events, heard, said)
  <2>1. /\ DOMAIN events = {} /\ said = 0 /\ \A n \in Names : heard[n] = 0
        /\ 0 <= 0
    BY DEF Init
  <2> QED
    BY <2>1, Zenon DEF QueuesInv
<1> QED
  BY <1>1, <1>2, <1>3 DEF Promises

LEMMA PromisesStep == Promises /\ [Next]_vars => Promises'
<1> SUFFICES ASSUME Promises, [Next]_vars PROVE Promises'
  OBVIOUS
<1>1. Inv' /\ PlayersInv' /\ QueuesInv(events', heard', said')
  BY NextPreserves, PlayersStep, QueuesStep, Zenon DEF Promises
<1> QED
  BY <1>1, Zenon DEF Promises

\* The invariant behind the theorems of this module: whoever is alive was created
\* by Session_service with strikes above any defense, no two names share a player,
\* and every queue continues what its owner has been given (push_event_all).
THEOREM PromisesKept == Spec => []Promises
  BY PromisesInit, PromisesStep, PTL DEF Spec

\* Every health-drop event a player is given is about health that was lost:
\* Battle::update strikes only the living, and what is drawn for a strike is more
\* than any defense, critical or not (Player::damage_to).
THEOREM HitsHurt == Spec => []EveryHitHurts
<1>1. Promises => EveryHitHurts
  BY Zenon DEF Promises, QueuesInv, Hurts, Hurting, EveryHitHurts
<1> QED
  BY <1>1, PromisesKept, PTL

\* The broadcasts a player is given and those waiting for it follow each other
\* without a gap, whoever logs in and out and whatever else is pushed.
THEOREM BroadcastsFollow == Spec => []BroadcastsInOrder
<1>1. Promises => BroadcastsInOrder
  <2> SUFFICES ASSUME Promises, NEW n \in DOMAIN events
               PROVE  LET waiting == {i \in DOMAIN events[n] : events[n][i].kind = "broadcast"}
                          number(i) == events[n][i].number
                      IN  /\ \A i, j \in waiting : i < j => number(i) < number(j)
                          /\ \A i \in waiting : heard[n] < number(i) /\ number(i) <= said
                          /\ \A x \in 1..said :
                                \/ heard[n] > 0 /\ heard[n] < x
                                \/ \E i \in waiting : number(i) < x
                                => \E i \in waiting : number(i) = x
    BY Zenon DEF BroadcastsInOrder
  <2>1. InOrder(events[n], heard[n], said)
    BY Zenon DEF Promises, QueuesInv
  <2> QED
    BY <2>1, Zenon DEF InOrder, Waiting
<1> QED
  BY <1>1, PromisesKept, PTL

----------------------------------------------------------------------------
(***************************************************************************)
(* Every battle is a duel: each step is a step of Duel for every battle.   *)
(***************************************************************************)
LEMMA FightersHealth ==
    ASSUME NEW bs, BattlesOK(bs), NEW h, HeapOK(h), NEW k
    PROVE  [f \in 1..2 |-> IF k \in DOMAIN bs THEN h[bs[k].players[f]].health ELSE 0]
              \in [1..2 -> Nat]
<1>1. ASSUME k \in DOMAIN bs, NEW f \in 1..2 PROVE h[bs[k].players[f]].health \in Nat
  <2>1. bs[k].players \in Seq(Addr) /\ Len(bs[k].players) = 2
    BY <1>1 DEF BattlesOK, BattleOK, BattleType
  <2>2. bs[k].players[f] \in Addr
    BY <2>1
  <2> QED
    BY <2>2 DEF HeapOK, PlayerType
<1> QED
  BY <1>1

\* Whatever happens outside the battle leaves its stage, turn and time alone.
LEMMA OtherDuel ==
    ASSUME Inv', NEW k, k \in DOMAIN battles' <=> k \in DOMAIN battles,
           k \in DOMAIN battles => /\ battles'[k].ended = battles[k].ended
                                   /\ battles'[k].turn = battles[k].turn
                                   /\ battles'[k].since = battles[k].since
    PROVE  Fight(k)!Next
<1>1. BattlesOK(battles') /\ HeapOK(heap')
  BY Zenon DEF Inv
<1>2. DuelHealth(k)' \in [1..2 -> Nat]
  BY <1>1, FightersHealth DEF DuelHealth, HasBattle
<1> QED
  BY <1>2 DEF Fight!Next, Fight!Outside, Fight!Fighters, DuelStage, HasBattle

\* The step of one battle, in the terms of the battle.
LEMMA DuelTerms ==
    ASSUME NEW k \in DOMAIN battles, k \in DOMAIN battles'
    PROVE  /\ DuelStage(k) = IF battles[k].ended THEN "over" ELSE "running"
           /\ DuelStage(k)' = IF battles'[k].ended THEN "over" ELSE "running"
           /\ DuelHealth(k) = [f \in 1..2 |-> heap[battles[k].players[f]].health]
           /\ DuelHealth(k)' = [f \in 1..2 |-> heap'[battles'[k].players[f]].health]
           /\ HasBattle(k) /\ HasBattle(k)'
  BY DEF DuelStage, DuelHealth, HasBattle

LEMMA BattleUpdated ==
    ASSUME Inv, NEW j \in DOMAIN battles, NEW c, battles' = [battles EXCEPT ![j] = c]
    PROVE  /\ DOMAIN battles' = DOMAIN battles /\ battles'[j] = c
           /\ \A k \in DOMAIN battles : k # j => battles'[k] = battles[k]
<1>1. battles \in Seq(BattleType)
  BY Zenon DEF Inv, BattlesOK
<1> QED
  BY <1>1

LEMMA StartBattleDuel ==
    ASSUME Inv, Inv', NEW n \in Names, NEW target \in Names, StartBattle(n, target), NEW k
    PROVE  Fight(k)!Next
<1>1. PICK w \in Entered(n) : battles' = Append(battles, NewBattle(w.players, n, target))
  BY Zenon DEF StartBattle
<1> DEFINE b == NewBattle(w.players, n, target)
<1>2. ~b.ended /\ b.turn = 0 /\ b.since = 0
  BY DEF NewBattle
<1> HIDE DEF b
<1>3. battles \in Seq(BattleType) /\ battles' = Append(battles, b)
  BY <1>1, Zenon DEF Inv, BattlesOK, b
<1>4. /\ Len(battles) \in Nat /\ DOMAIN battles = 1..Len(battles)
      /\ DOMAIN battles' = 1..(Len(battles) + 1) /\ battles'[Len(battles) + 1] = b
      /\ \A j \in 1..Len(battles) : battles'[j] = battles[j]
  BY <1>3
<1>5. CASE k # Len(battles) + 1
  <2>1. /\ k \in DOMAIN battles' <=> k \in DOMAIN battles
        /\ k \in DOMAIN battles => battles'[k] = battles[k]
    BY <1>4, <1>5
  <2> QED
    BY <2>1, OtherDuel, Zenon
<1>6. CASE k = Len(battles) + 1
  <2>1. k \notin DOMAIN battles /\ k \in DOMAIN battles' /\ battles'[k] = b
    BY <1>4, <1>6
  <2>2. BattlesOK(battles') /\ HeapOK(heap')
    BY Zenon DEF Inv
  <2>3. DuelHealth(k)' \in [1..2 -> Nat]
    BY <2>2, FightersHealth DEF DuelHealth, HasBattle
  <2>4. DuelStage(k) = "none" /\ DuelStage(k)' = "running" /\ HasBattle(k)' /\ ~HasBattle(k)
    BY <1>2, <2>1 DEF DuelStage, HasBattle
  <2> QED
    BY <1>2, <2>1, <2>3, <2>4 DEF Fight!Next, Fight!Begin, Fight!Fighters
<1> QED
  BY <1>5, <1>6

\* An escape leaves the duel, or finds it over.
LEMMA EscapeDuel ==
    ASSUME Inv, Inv', NEW j \in DOMAIN battles, NEW n \in Names, Escape(n, j), NEW k
    PROVE  Fight(k)!Next
<1> DEFINE b == battles[j]
           c == Stopped(b, "escaping")
<1>1. b \in BattleType /\ b.players[1] \in Addr
  BY BattleFacts, Zenon DEF BattleOK
<1>2. c.ended /\ c.turn = b.turn /\ c.since = b.since /\ c.players = b.players
  BY <1>1 DEF Stopped, BattleType
<1>3. battles' = [battles EXCEPT ![j] = c]
  BY Zenon DEF Escape
<1> HIDE DEF c
<1>4. /\ DOMAIN battles' = DOMAIN battles /\ battles'[j] = c
      /\ \A i \in DOMAIN battles : i # j => battles'[i] = battles[i]
  BY <1>3, BattleUpdated, Zenon
<1>5. CASE k # j
  BY <1>4, <1>5, OtherDuel, Zenon
<1>6. CASE k = j /\ b.ended
  <2>1. b.ended = TRUE /\ c.ended = TRUE
    BY <1>1, <1>2, <1>6 DEF BattleType, c, Stopped
  <2> QED
    BY <1>2, <1>4, <1>6, <2>1, OtherDuel, Zenon
<1>7. CASE k = j /\ ~b.ended
  <2>1. DuelHealth(k)' \in [1..2 -> Nat]
    <3>1. BattlesOK(battles') /\ HeapOK(heap')
      BY Zenon DEF Inv
    <3> QED
      BY <3>1, FightersHealth DEF DuelHealth, HasBattle
  <2>2. /\ DuelStage(k) = "running" /\ DuelStage(k)' = "over"
        /\ HasBattle(k) /\ HasBattle(k)'
    BY <1>2, <1>4, <1>7, DuelTerms
  <2> QED
    BY <1>2, <1>4, <1>7, <2>1, <2>2 DEF Fight!Next, Fight!Leave, Fight!Fighters
<1> QED
  BY <1>5, <1>6, <1>7

LEMMA WaitDuel ==
    ASSUME Inv, Inv', NEW j \in DOMAIN battles, WaitBattle(j), NEW k
    PROVE  Fight(k)!Next
<1> DEFINE b == battles[j]
           s == b.since + 1
           c == [b EXCEPT !.since = s]
<1>1. b \in BattleType /\ b.since \in 0..(Interval - 1) /\ Interval \in Nat
  BY BattleFacts, NumbersAssumption, Zenon DEF BattleOK
<1>2. ~b.ended /\ ~(s >= Interval) /\ heap' = heap
  BY DEF WaitBattle, Due
<1>3. battles' = [battles EXCEPT ![j] = c]
  BY DEF WaitBattle
<1>4. c.ended = b.ended /\ c.turn = b.turn /\ c.since = s /\ c.players = b.players
  BY <1>1 DEF BattleType
<1> HIDE DEF c
<1>5. /\ DOMAIN battles' = DOMAIN battles /\ battles'[j] = c
      /\ \A i \in DOMAIN battles : i # j => battles'[i] = battles[i]
  BY <1>3, BattleUpdated, Zenon
<1>6. CASE k # j
  BY <1>5, <1>6, OtherDuel, Zenon
<1>7. CASE k = j
  <2>1. s < Interval
    BY <1>1, <1>2
  <2>2. /\ DuelStage(k) = "running" /\ DuelStage(k)' = "running"
        /\ DuelHealth(k)' = DuelHealth(k) /\ HasBattle(k) /\ HasBattle(k)'
    BY <1>2, <1>4, <1>5, <1>7, DuelTerms
  <2> QED
    BY <1>4, <1>5, <1>7, <2>1, <2>2 DEF Fight!Next, Fight!Wait
<1> QED
  BY <1>6, <1>7

LEMMA EndBattleDuel ==
    ASSUME Inv, Inv', NEW j \in DOMAIN battles, EndBattle(j), NEW k
    PROVE  Fight(k)!Next
<1> DEFINE b == battles[j]
           a == [b EXCEPT !.since = 0]
           c == Stopped(a, "normal")
<1>1. b \in BattleType /\ b.since \in 0..(Interval - 1) /\ Interval \in Nat \ {0}
  BY BattleFacts, NumbersAssumption, Zenon DEF BattleOK
<1>2. ~b.ended /\ b.since + 1 >= Interval /\ ~BothAlive(b) /\ heap' = heap
  BY DEF EndBattle, Due
<1>3. battles' = [battles EXCEPT ![j] = c]
  BY DEF EndBattle
<1>4. c.ended /\ c.turn = b.turn /\ c.since = 0 /\ c.players = b.players
  BY <1>1 DEF BattleType, Stopped
<1> HIDE DEF c
<1>5. /\ DOMAIN battles' = DOMAIN battles /\ battles'[j] = c
      /\ \A i \in DOMAIN battles : i # j => battles'[i] = battles[i]
  BY <1>3, BattleUpdated, Zenon
<1>6. CASE k # j
  BY <1>5, <1>6, OtherDuel, Zenon
<1>7. CASE k = j
  <2>1. b.since + 1 = Interval
    BY <1>1, <1>2
  <2>2. /\ DuelStage(k) = "running" /\ DuelStage(k)' = "over"
        /\ DuelHealth(k)' = DuelHealth(k) /\ HasBattle(k) /\ HasBattle(k)'
        /\ DuelHealth(k) = [f \in 1..2 |-> heap[b.players[f]].health]
    BY <1>2, <1>4, <1>5, <1>7, DuelTerms
  <2>3. \E f \in 1..2 : DuelHealth(k)[f] = 0
    BY <1>2, <2>2 DEF BothAlive
  <2> QED
    BY <1>4, <1>5, <1>7, <2>1, <2>2, <2>3
       DEF Fight!Next, Fight!Finish, Fight!TimeIsUp, Fight!Dead, Fight!Fighters
<1> QED
  BY <1>6, <1>7

\* A hit is a blow: the opponent, who is somebody else, loses health.
LEMMA HitDuel ==
    ASSUME Inv, Inv', PlayersInv, NEW j \in DOMAIN battles, Hit(j), NEW k
    PROVE  Fight(k)!Next
<1> DEFINE b == battles[j]
           t == 1 - b.turn
           c == [b EXCEPT !.since = 0, !.turn = t]
           struck == 2 - b.turn
           attacker == b.players[b.turn + 1]
           target == b.players[struck]
<1>1. /\ b \in BattleType /\ b.since \in 0..(Interval - 1) /\ Interval \in Nat \ {0}
      /\ b.turn \in 0..1 /\ b.players[1] \in Addr /\ b.players[2] \in Addr
  BY BattleFacts, NumbersAssumption, Zenon DEF BattleOK
<1>2. ~b.ended /\ b.since + 1 >= Interval /\ BothAlive(b)
  BY DEF Hit, Due
<1>3. battles' = [battles EXCEPT ![j] = c]
  BY DEF Hit
<1>4. c.ended = b.ended /\ c.turn = t /\ c.since = 0 /\ c.players = b.players
  BY <1>1 DEF BattleType
<1>5. PICK d \in DamageTo(heap[attacker], heap[target]) :
         heap' = [heap EXCEPT ![target] = TakeDamage(heap[target], d)]
  BY DEF Hit
<1> HIDE DEF c
<1>6. /\ DOMAIN battles' = DOMAIN battles /\ battles'[j] = c
      /\ \A i \in DOMAIN battles : i # j => battles'[i] = battles[i]
  BY <1>3, BattleUpdated, Zenon
<1>7. CASE k # j
  BY <1>6, <1>7, OtherDuel, Zenon
<1>8. CASE k = j
  <2> DEFINE q == heap[target]
             rest == q.health - Drop(q, d)
  <2>1. /\ heap[attacker] \in PlayerType /\ q \in PlayerType
        /\ Made(heap[attacker]) /\ Made(q) /\ q.health # 0 /\ target \in Addr
    BY <1>2, FightersMade, Zenon
  <2>2. Drop(q, d) \in 1..q.health
    BY <2>1, StrikesHurt
  <2>3. q.health \in Nat
    BY <2>1 DEF PlayerType
  <2>4. rest \in 0..(q.health - 1)
    BY <2>2, <2>3
  <2>5. TakeDamage(q, d).health = rest
    BY <2>1 DEF TakeDamage, PlayerType
  <2>6. HeapOK(heap)
    BY Zenon DEF Inv
  <2>7. \A x \in Addr : heap'[x] = IF x = target THEN TakeDamage(q, d) ELSE heap[x]
    BY <1>5, <2>6 DEF HeapOK
  <2>8. b.players[1] # b.players[2]
    BY Zenon DEF PlayersInv, DuelsApart
  <2>9. struck \in 1..2
    BY <1>1
  <2> HIDE DEF rest, q
  <2>10. /\ DuelStage(k) = "running" /\ DuelStage(k)' = "running"
         /\ HasBattle(k) /\ HasBattle(k)'
         /\ DuelHealth(k) = [f \in 1..2 |-> heap[b.players[f]].health]
         /\ DuelHealth(k)' = [f \in 1..2 |-> heap'[b.players[f]].health]
    BY <1>2, <1>4, <1>6, <1>8, DuelTerms
  <2>11. ASSUME NEW f \in 1..2
         PROVE  heap'[b.players[f]].health = IF f = struck THEN rest
                                                           ELSE heap[b.players[f]].health
    <3>1. b.players[f] \in Addr
      BY <1>1
    <3>2. CASE f = struck
      BY <2>1, <2>5, <2>7, <3>2, Zenon
    <3>3. CASE f # struck
      <4>1. b.players[f] # target
        BY <2>8, <2>9, <3>3
      <4> QED
        BY <2>7, <3>1, <3>3, <4>1, Zenon
    <3> QED
      BY <3>2, <3>3
  <2>12. DuelHealth(k)' = [DuelHealth(k) EXCEPT ![struck] = rest]
    BY <2>10, <2>11
  <2>13. DuelHealth(k)[struck] = q.health
    BY <2>9, <2>10 DEF q
  <2>14. ~Fight(k)!Dead
    <3>1. heap[b.players[1]].health # 0 /\ heap[b.players[2]].health # 0
      BY <1>2 DEF BothAlive
    <3>2. \A f \in 1..2 : heap[b.players[f]].health # 0
      BY <3>1
    <3> QED
      BY <2>10, <3>2 DEF Fight!Dead, Fight!Fighters
  <2>15. b.since + 1 = Interval
    BY <1>1, <1>2
  <2>16. Fight(k)!TimeIsUp
    BY <1>4, <1>6, <1>8, <2>10, <2>15 DEF Fight!TimeIsUp
  <2>17. Fight(k)!Blow
    BY <1>4, <1>6, <1>8, <2>4, <2>10, <2>12, <2>13, <2>14, <2>16 DEF Fight!Blow
  <2> QED
    BY <2>17 DEF Fight!Next
<1> QED
  BY <1>7, <1>8

\* What changes no battle is outside all of them.
LEMMA OutsideDuels ==
    ASSUME Inv', battles' = battles, NEW k
    PROVE  Fight(k)!Next
  BY OtherDuel

LEMMA DuelStep ==
    ASSUME Inv, PlayersInv, [Next]_vars, NEW k
    PROVE  Fight(k)!Next
<1>0. Inv'
  BY NextPreserves, Zenon
<1>1. CASE battles' = battles
  BY <1>0, <1>1, OutsideDuels, Zenon
<1>2. CASE UNCHANGED vars
  BY <1>1, <1>2 DEF vars
<1>3. CASE \/ \E n \in Names : \/ Lookup(n) \/ Logout(n) \/ Buy(n) \/ CannotAfford(n)
                               \/ QueryEvent(n) \/ Say(n) \/ Fuck(n) \/ Resurrect(n)
           \/ \E n, target \in Names : RefuseBattle(n, target)
           \/ Tick
           \/ \E j \in DOMAIN battles : Crash(j) \/ SkipBattle(j)
  <2>1. battles' = battles
    BY <1>3, Zenon DEF Lookup, Logout, Buy, CannotAfford, QueryEvent, Say, Fuck, Resurrect,
                       RefuseBattle, Tick, Crash, SkipBattle
  <2> QED
    BY <1>1, <2>1, Zenon
<1>4. CASE \E n, target \in Names : StartBattle(n, target)
  BY <1>0, <1>4, StartBattleDuel, Zenon
<1>5. CASE \E j \in DOMAIN battles : \/ \E n \in Names : Escape(n, j)
                                    \/ WaitBattle(j) \/ Hit(j) \/ EndBattle(j)
  BY <1>0, <1>5, EscapeDuel, WaitDuel, HitDuel, EndBattleDuel, Zenon
<1> QED
  BY <1>2, <1>3, <1>4, <1>5, Zenon DEF Next, UpdateBattle

LEMMA DuelInit ==
    ASSUME Init, NEW k
    PROVE  Fight(k)!Init
  BY DEF Fight!Init, Init, HasBattle, DuelStage, DuelHealth, Fight!Fighters

\* Every battle is a duel, from its beginning to its end and whatever happens
\* around it: Battle::update strikes in turn, once an interval, and hits the
\* opponent only, and what Battle::stop has ended stays ended.
THEOREM EveryBattleIsADuel == Spec => BattlesAreDuels
<1> DEFINE Duels == \A k \in 1..MaxBattles : [Fight(k)!Next]_(Fight(k)!duel)
           Begun == \A k \in 1..MaxBattles : Fight(k)!Init
<1>1. Promises /\ [Next]_vars => Duels
  BY DuelStep, Zenon DEF Promises
<1>2. Init => Begun
  BY DuelInit, Zenon
<1> HIDE DEF Duels, Begun
<1>3. Spec => Begun /\ [][Duels]_vars
  BY <1>1, <1>2, PromisesKept, PTL DEF Spec
<1> QED
  BY <1>3 DEF BattlesAreDuels, Duels, Begun

----------------------------------------------------------------------------
(***************************************************************************)
(* A player's health is told by its events: the invariant.                 *)
(***************************************************************************)
Effects(q, n) == [i \in DOMAIN q |-> Effect(q[i], n)]
Total(q, n) == Sum(Effects(q, n), Len(q))

QueueIn(ev, n) == IF n \in DOMAIN ev THEN ev[n] ELSE <<>>

\* What player n has been and will be shown, and what it has to be shown.
Shows(ev, sh, n) == sh[n] + Total(QueueIn(ev, n), n)
Owes(ps, h, n) == IF ps[n] = None THEN 0 ELSE h[ps[n]].health - h[ps[n]].untold

ToldInv(ps, h, ev, sh, gone) ==
    \A n \in Names \ gone : Shows(ev, sh, n) = Owes(ps, h, n)

\* Who is logged in is at the address it is known by, and whatever is alive and
\* bears the name of somebody who has never logged out is that player.
NamedInv(ps, h) == \A n \in Names : ps[n] # None => h[ps[n]].name = n

BodyInv(ps, h, gone) ==
    \A x \in Addr : h[x].health # 0 /\ h[x].name \notin gone => ps[h[x].name] = x

TaleInv ==
    /\ NamedInv(players, heap)
    /\ BodyInv(players, heap, left)
    /\ ToldInv(players, heap, events, shown, left)

----------------------------------------------------------------------------
(***************************************************************************)
(* What pushing and popping do to the sum of a queue's effects.            *)
(***************************************************************************)
LEMMA EffectType ==
    ASSUME NEW e \in EventType, NEW n PROVE Effect(e, n) \in Int
  BY DEF Effect, EventType

LEMMA TotalType ==
    ASSUME NEW q \in Seq(EventType), NEW n
    PROVE  /\ Total(q, n) \in Int
           /\ Len(q) \in Nat /\ DOMAIN Effects(q, n) = 1..Len(q)
           /\ \A i \in 1..Len(q) : Effects(q, n)[i] = Effect(q[i], n) /\ Effect(q[i], n) \in Int
<1>1. Len(q) \in Nat /\ DOMAIN q = 1..Len(q) /\ \A i \in 1..Len(q) : q[i] \in EventType
  OBVIOUS
<1>2. \A i \in 1..Len(q) : Effect(q[i], n) \in Int
  BY <1>1, EffectType, Zenon
<1>3. /\ DOMAIN Effects(q, n) = 1..Len(q)
      /\ \A i \in 1..Len(q) : Effects(q, n)[i] = Effect(q[i], n)
  BY <1>1 DEF Effects
<1>4. \A i \in 1..Len(q) : Effects(q, n)[i] \in Int
  BY <1>2, <1>3
<1>5. Total(q, n) \in Int
  BY <1>1, <1>4, SumType DEF Total
<1> QED
  BY <1>1, <1>2, <1>3, <1>5

LEMMA TotalEmpty ==
    ASSUME NEW n PROVE Total(<<>>, n) = 0
<1>1. Len(<<>>) = 0
  OBVIOUS
<1> QED
  BY <1>1, SumEmpty, Zenon DEF Total

LEMMA TotalAppended ==
    ASSUME NEW q \in Seq(EventType), NEW e \in EventType, NEW n
    PROVE  Total(Append(q, e), n) = Total(q, n) + Effect(e, n)
<1> DEFINE t == Append(q, e)
           w == Effects(t, n)
           v == Effects(q, n)
           k == Len(q)
<1>1. /\ t \in Seq(EventType) /\ k \in Nat /\ Len(t) = k + 1 /\ t[k + 1] = e
      /\ \A i \in 1..k : t[i] = q[i]
  OBVIOUS
<1> HIDE DEF t, k
<1>2. /\ \A i \in 1..(k + 1) : w[i] = Effect(t[i], n) /\ w[i] \in Int
      /\ \A i \in 1..k : v[i] = Effect(q[i], n) /\ v[i] \in Int
  <2>1. \A i \in 1..Len(t) : w[i] = Effect(t[i], n) /\ Effect(t[i], n) \in Int
    BY <1>1, TotalType, Zenon
  <2>2. \A i \in 1..Len(q) : v[i] = Effect(q[i], n) /\ Effect(q[i], n) \in Int
    BY TotalType, Zenon
  <2> QED
    BY <1>1, <2>1, <2>2, Zenon DEF k
<1> HIDE DEF w, v
<1>3. \A i \in 1..k : i \in 1..(k + 1) /\ w[i] = v[i]
  BY <1>1, <1>2
<1>4. Sum(w, k + 1) = Sum(w, k) + w[k + 1]
  BY <1>1, <1>2, SumNext, Zenon
<1>5. Sum(w, k) = Sum(v, k)
  BY <1>1, <1>2, <1>3, SumSame, Zenon
<1>6. w[k + 1] = Effect(e, n)
  BY <1>1, <1>2
<1>7. Sum(w, Len(t)) = Sum(v, Len(q)) + Effect(e, n)
  BY <1>1, <1>4, <1>5, <1>6, Zenon DEF k
<1> QED
  BY <1>7, Zenon DEF Total, w, v, t

LEMMA TotalPopped ==
    ASSUME NEW q \in Seq(EventType), q # <<>>, NEW n
    PROVE  Total(q, n) = Effect(Head(q), n) + Total(Tail(q), n)
<1> DEFINE t == Tail(q)
           w == Effects(q, n)
           v == Effects(t, n)
           k == Len(t)
<1>1. /\ t \in Seq(EventType) /\ k \in Nat /\ Len(q) = k + 1 /\ Head(q) = q[1]
      /\ \A i \in 1..k : t[i] = q[i + 1]
  OBVIOUS
<1> HIDE DEF t
<1>2. /\ \A i \in 1..(k + 1) : w[i] = Effect(q[i], n) /\ w[i] \in Int
      /\ \A i \in 1..k : v[i] = Effect(t[i], n) /\ v[i] \in Int
  <2>1. \A i \in 1..Len(q) : w[i] = Effect(q[i], n) /\ Effect(q[i], n) \in Int
    BY TotalType, Zenon
  <2>2. \A i \in 1..Len(t) : v[i] = Effect(t[i], n) /\ Effect(t[i], n) \in Int
    BY <1>1, TotalType, Zenon
  <2> QED
    BY <1>1, <2>1, <2>2, Zenon
<1> HIDE DEF w, v, k
<1>3. \A i \in 1..k : v[i] = w[i + 1]
  <2>1. \A i \in 1..k : i + 1 \in 1..(k + 1)
    BY <1>1
  <2> QED
    BY <1>1, <1>2, <2>1, Zenon
<1>4. Sum(w, k + 1) = w[1] + Sum(v, k)
  <2>1. k \in Nat /\ \A i \in 1..(k + 1) : w[i] \in Int
    BY <1>1, <1>2, Zenon
  <2> QED
    BY <1>3, <2>1, SumTail, Zenon
<1>5. w[1] = Effect(Head(q), n)
  BY <1>1, <1>2
<1>6. Sum(w, Len(q)) = Effect(Head(q), n) + Sum(v, Len(t))
  BY <1>1, <1>4, <1>5, Zenon DEF k
<1> QED
  BY <1>6, Zenon DEF Total, w, v, t

LEMMA Pushed ==
    ASSUME NEW ev, EventsOK(ev), NEW m, NEW e \in EventType, NEW n
    PROVE  /\ QueueIn(ev, n) \in Seq(EventType)
           /\ n = m => QueueIn(Push(ev, m, e), n) = Append(QueueIn(ev, n), e)
           /\ n # m => QueueIn(Push(ev, m, e), n) = QueueIn(ev, n)
<1>1. QueueIn(ev, n) \in Seq(EventType)
  BY DEF QueueIn, EventsOK
<1> DEFINE t == Push(ev, m, e)
<1>2. /\ DOMAIN t = DOMAIN ev \cup {m}
      /\ \A x \in DOMAIN t : x # m => t[x] = ev[x]
      /\ t[m] = IF m \in DOMAIN ev THEN Append(ev[m], e) ELSE <<e>>
  BY DEF Push
<1>3. <<e>> = Append(<<>>, e)
  OBVIOUS
<1> HIDE DEF t
<1>4. n = m => QueueIn(t, n) = Append(QueueIn(ev, n), e)
  BY <1>2, <1>3 DEF QueueIn
<1>5. n # m => QueueIn(t, n) = QueueIn(ev, n)
  BY <1>2 DEF QueueIn
<1> QED
  BY <1>1, <1>4, <1>5, Zenon DEF t

\* What a push adds to what a player will be shown.
LEMMA TotalPushed ==
    ASSUME NEW ev, EventsOK(ev), NEW m, NEW e \in EventType, NEW n
    PROVE  /\ Total(QueueIn(ev, n), n) \in Int /\ Effect(e, n) \in Int
           /\ n = m => Total(QueueIn(Push(ev, m, e), n), n)
                          = Total(QueueIn(ev, n), n) + Effect(e, n)
           /\ n # m => Total(QueueIn(Push(ev, m, e), n), n) = Total(QueueIn(ev, n), n)
<1>1. QueueIn(ev, n) \in Seq(EventType)
  BY Pushed, Zenon
<1>2. Total(QueueIn(ev, n), n) \in Int /\ Effect(e, n) \in Int
  BY <1>1, TotalType, EffectType, Zenon
<1>3. Total(Append(QueueIn(ev, n), e), n) = Total(QueueIn(ev, n), n) + Effect(e, n)
  BY <1>1, TotalAppended, Zenon
<1>4. /\ n = m => QueueIn(Push(ev, m, e), n) = Append(QueueIn(ev, n), e)
      /\ n # m => QueueIn(Push(ev, m, e), n) = QueueIn(ev, n)
  BY Pushed
<1> QED
  BY <1>2, <1>3, <1>4, Zenon

\* An event that is not about the health of its receiver adds nothing.
LEMMA QuietQueue ==
    ASSUME NEW q \in Seq(EventType), NEW e \in EventType, NEW n, Effect(e, n) = 0
    PROVE  Total(Append(q, e), n) = Total(q, n)
<1> DEFINE t == Total(q, n)
<1>1. t \in Int
  BY TotalType, Zenon
<1>2. Total(Append(q, e), n) = t + Effect(e, n)
  BY TotalAppended, Zenon
<1> HIDE DEF t
<1>3. t + 0 = t
  BY <1>1
<1>4. Total(Append(q, e), n) = t
  BY <1>2, <1>3
<1> QED
  BY <1>4, Zenon DEF t

LEMMA TotalPushedQuietly ==
    ASSUME NEW ev, EventsOK(ev), NEW m, NEW e \in EventType, NEW n, Effect(e, n) = 0
    PROVE  Total(QueueIn(Push(ev, m, e), n), n) = Total(QueueIn(ev, n), n)
<1> DEFINE q == QueueIn(ev, n)
           r == QueueIn(Push(ev, m, e), n)
<1>1. q \in Seq(EventType)
  BY Pushed, Zenon
<1>2. (n = m => r = Append(q, e)) /\ (n # m => r = q)
  BY Pushed
<1> HIDE DEF q, r
<1>3. r = q \/ r = Append(q, e)
  BY <1>2
<1>4. Total(Append(q, e), n) = Total(q, n)
  BY <1>1, QuietQueue
<1>5. Total(r, n) = Total(q, n)
  BY <1>3, <1>4, Zenon
<1> QED
  BY <1>5, Zenon DEF q, r

\* The events of battles and of the chat are not about health.
LEMMA QuietEffect ==
    ASSUME NEW kind \in Kinds \ {"health-drop", "cure"}, NEW about, NEW number, NEW n
    PROVE  Effect(Event(kind, about, number), n) = 0
  BY DEF Effect, Event

LEMMA ShowsType ==
    ASSUME NEW ev, EventsOK(ev), NEW sh \in [Names -> Int], NEW n \in Names
    PROVE  Shows(ev, sh, n) \in Int
<1>1. QueueIn(ev, n) \in Seq(EventType)
  BY DEF QueueIn, EventsOK
<1>2. Total(QueueIn(ev, n), n) \in Int
  BY <1>1, TotalType, Zenon
<1> QED
  BY <1>2 DEF Shows

LEMMA OwesType ==
    ASSUME NEW ps, PlayersOK(ps), NEW h, HeapOK(h), NEW n \in Names
    PROVE  Owes(ps, h, n) \in Int
  BY DEF PlayersOK, HeapOK, PlayerType, Owes

----------------------------------------------------------------------------
(***************************************************************************)
(* Every step keeps the tale.                                              *)
(***************************************************************************)
LEMMA ToldKept ==
    ASSUME ToldInv(players, heap, events, shown, left), left \subseteq left',
           \A m \in Names \ left' :
              /\ Shows(events', shown', m) = Shows(events, shown, m)
              /\ Owes(players', heap', m) = Owes(players, heap, m)
    PROVE  ToldInv(players', heap', events', shown', left')
<1>1. \A m \in Names \ left' : m \in Names \ left
  OBVIOUS
<1> QED
  BY <1>1, Zenon DEF ToldInv

\* Whoever is entered bears its name, at an address of its own, and has nothing
\* to be shown yet.
LEMMA EnteredTale ==
    ASSUME Inv, PlayersInv, TaleInv, NEW n \in Names, NEW w \in Entered(n)
    PROVE  /\ NamedInv(w.players, w.heap) /\ BodyInv(w.players, w.heap, left)
           /\ \A m \in Names : Owes(w.players, w.heap, m) = Owes(players, heap, m)
           /\ w.heap[w.players[n]].name = n
<1>0. /\ PlayersOK(players) /\ HeapOK(heap)
      /\ NamedInv(players, heap) /\ BodyInv(players, heap, left)
  BY DEF Inv, TaleInv
<1>1. CASE players[n] # None
  <2>1. w.players = players /\ w.heap = heap
    BY <1>1 DEF Entered
  <2>2. heap[players[n]].name = n
    BY <1>0, <1>1, Zenon DEF NamedInv
  <2> QED
    BY <1>0, <2>1, <2>2, Zenon
<1>2. CASE players[n] = None
  <2> DEFINE free == {y \in Addr : Dangling(y) /\ births < MaxBirths}
  <2>0. PICK x \in free, h \in StartHealth, r \in Ranges, d \in Defense :
           w = [players |-> [players EXCEPT ![n] = x],
                heap    |-> [heap EXCEPT ![x] = NewPlayer(n, h, r, d)],
                births  |-> births + 1]
    <3> HIDE DEF free
    <3> QED
      BY <1>2 DEF Entered, free
  <2>1. /\ x \in Addr /\ Dangling(x)
        /\ w.players = [players EXCEPT ![n] = x]
        /\ w.heap = [heap EXCEPT ![x] = NewPlayer(n, h, r, d)]
    BY <2>0
  <2> DEFINE p == NewPlayer(n, h, r, d)
  <2>2. p.name = n /\ p.health = h /\ p.untold = h /\ h \in Nat /\ h - h = 0
    BY NumbersAssumption DEF NewPlayer
  <2> HIDE DEF p
  <2>3. w.heap = [heap EXCEPT ![x] = p]
    BY <2>1 DEF p
  <2>4. /\ \A m \in Names : w.players[m] = IF m = n THEN x ELSE players[m]
        /\ \A m \in Names : players[m] # None => players[m] \in Addr
        /\ x # None
    BY <1>0, <2>1, PointersAssumption DEF PlayersOK
  <2>5. \A y \in Addr : w.heap[y] = IF y = x THEN p ELSE heap[y]
    BY <1>0, <2>3 DEF HeapOK
  <2>6. \A m \in Names : players[m] # x
    BY <2>1 DEF Dangling
  <2>7. NamedInv(w.players, w.heap)
    <3> SUFFICES ASSUME NEW m \in Names, w.players[m] # None
                 PROVE  w.heap[w.players[m]].name = m
      BY Zenon DEF NamedInv
    <3>1. CASE m = n
      BY <2>1, <2>2, <2>4, <2>5, <3>1, Zenon
    <3>2. CASE m # n
      <4>1. w.players[m] = players[m] /\ players[m] \in Addr /\ players[m] # x
        BY <2>4, <2>6, <3>2, Zenon
      <4>2. w.heap[players[m]] = heap[players[m]]
        BY <2>5, <4>1, Zenon
      <4>3. heap[players[m]].name = m
        BY <1>0, <4>1, Zenon DEF NamedInv
      <4> QED
        BY <4>1, <4>2, <4>3, Zenon
    <3> QED
      BY <3>1, <3>2
  <2>8. BodyInv(w.players, w.heap, left)
    <3> SUFFICES ASSUME NEW y \in Addr, w.heap[y].health # 0, w.heap[y].name \notin left
                 PROVE  w.players[w.heap[y].name] = y
      BY Zenon DEF BodyInv
    <3>1. CASE y = x
      BY <2>2, <2>4, <2>5, <3>1, Zenon
    <3>2. CASE y # x
      <4>1. w.heap[y] = heap[y] /\ players[heap[y].name] = y
        BY <1>0, <2>5, <3>2, Zenon DEF BodyInv
      <4>2. heap[y].name \in Names /\ y # None
        BY <1>0, PointersAssumption DEF HeapOK, PlayerType
      <4>3. heap[y].name # n
        BY <1>2, <4>1, <4>2, Zenon
      <4> QED
        BY <2>4, <4>1, <4>2, <4>3, Zenon
    <3> QED
      BY <3>1, <3>2
  <2>9. ASSUME NEW m \in Names PROVE Owes(w.players, w.heap, m) = Owes(players, heap, m)
    <3>1. CASE m = n
      <4>1. Owes(w.players, w.heap, m) = p.health - p.untold
        BY <2>1, <2>4, <2>5, <3>1, Zenon DEF Owes
      <4>2. Owes(players, heap, m) = 0
        BY <1>2, <3>1, Zenon DEF Owes
      <4> QED
        BY <2>2, <4>1, <4>2
    <3>2. CASE m # n
      <4>1. w.players[m] = players[m]
        BY <2>4, <3>2, Zenon
      <4>2. players[m] # None => w.heap[players[m]] = heap[players[m]]
        BY <2>4, <2>5, <2>6, Zenon
      <4> QED
        BY <4>1, <4>2, Zenon DEF Owes
    <3> QED
      BY <3>1, <3>2
  <2>10. w.heap[w.players[n]].name = n
    BY <2>1, <2>2, <2>4, <2>5, Zenon
  <2> QED
    BY <2>7, <2>8, <2>9, <2>10, Zenon
<1> QED
  BY <1>1, <1>2

\* A command that changes no health, of whoever it enters.
LEMMA QuietCommand ==
    ASSUME Inv, PlayersInv, TaleInv, NEW n \in Names, NEW w \in Entered(n),
           players' = w.players, heap' = w.heap, left' = left,
           \A m \in Names : Shows(events', shown', m) = Shows(events, shown, m)
    PROVE  TaleInv'
<1>1. /\ NamedInv(players', heap') /\ BodyInv(players', heap', left')
      /\ \A m \in Names : Owes(players', heap', m) = Owes(players, heap, m)
  BY EnteredTale, Zenon
<1>2. ToldInv(players', heap', events', shown', left')
  BY <1>1, ToldKept, Zenon DEF TaleInv
<1> QED
  BY <1>1, <1>2, Zenon DEF TaleInv

\* A step that changes no player at all.
LEMMA QuietStep ==
    ASSUME TaleInv, players' = players, heap' = heap, left' = left,
           \A m \in Names : Shows(events', shown', m) = Shows(events, shown, m)
    PROVE  TaleInv'
<1>1. \A m \in Names : Owes(players', heap', m) = Owes(players, heap, m)
  BY Zenon
<1>2. ToldInv(players', heap', events', shown', left')
  BY <1>1, ToldKept, Zenon DEF TaleInv
<1>3. NamedInv(players', heap') /\ BodyInv(players', heap', left')
  BY Zenon DEF TaleInv
<1> QED
  BY <1>2, <1>3, Zenon DEF TaleInv

\* Who logs out leaves the tale, and nobody else's changes.
LEMMA LogoutTale ==
    ASSUME Inv, PlayersInv, TaleInv, NEW n \in Names, Logout(n)
    PROVE  TaleInv'
<1>1. PICK w \in Entered(n) : /\ players' = [w.players EXCEPT ![n] = None]
                              /\ heap' = w.heap
  BY Zenon DEF Logout
<1>2. left' = left \cup {n} /\ UNCHANGED <<events, shown>>
  BY DEF Logout
<1>3. /\ NamedInv(w.players, w.heap) /\ BodyInv(w.players, w.heap, left)
      /\ \A m \in Names : Owes(w.players, w.heap, m) = Owes(players, heap, m)
      /\ PlayersOK(w.players) /\ HeapOK(w.heap)
  BY EnteredTale, EnteredOK, Zenon
<1>4. \A m \in Names : players'[m] = IF m = n THEN None ELSE w.players[m]
  BY <1>1, <1>3 DEF PlayersOK
<1>5. NamedInv(players', heap')
  BY <1>1, <1>3, <1>4, Zenon DEF NamedInv
<1>6. BodyInv(players', heap', left')
  <2> SUFFICES ASSUME NEW x \in Addr, heap'[x].health # 0, heap'[x].name \notin left'
               PROVE  players'[heap'[x].name] = x
    BY Zenon DEF BodyInv
  <2>1. w.heap[x].name \in Names /\ w.heap[x].name \notin left /\ w.heap[x].name # n
    BY <1>1, <1>2, <1>3 DEF HeapOK, PlayerType
  <2>2. w.players[w.heap[x].name] = x
    BY <1>1, <1>3, <2>1, Zenon DEF BodyInv
  <2> QED
    BY <1>1, <1>4, <2>1, <2>2, Zenon
<1>7. ASSUME NEW m \in Names \ left'
      PROVE  /\ Shows(events', shown', m) = Shows(events, shown, m)
             /\ Owes(players', heap', m) = Owes(players, heap, m)
  <2>1. m \in Names /\ m # n
    BY <1>2
  <2>2. players'[m] = w.players[m]
    BY <1>4, <2>1, Zenon
  <2>3. Owes(players', heap', m) = Owes(w.players, w.heap, m)
    BY <1>1, <2>2 DEF Owes
  <2> QED
    BY <1>2, <1>3, <2>1, <2>3, Zenon
<1>8. left \subseteq left'
  BY <1>2
<1>9. ToldInv(players', heap', events', shown', left')
  BY <1>7, <1>8, ToldKept, Zenon DEF TaleInv
<1> QED
  BY <1>5, <1>6, <1>9, Zenon DEF TaleInv

\* What is pushed about anything but health changes nobody's sum.
LEMMA QuietPush ==
    ASSUME NEW ev, EventsOK(ev), NEW m \in Names, NEW kind \in Kinds \ {"health-drop", "cure"},
           NEW about \in Names, NEW number \in Nat
    PROVE  LET e == Event(kind, about, number)
           IN  /\ EventsOK(Push(ev, m, e))
               /\ \A sh : \A x \in Names : Shows(Push(ev, m, e), sh, x) = Shows(ev, sh, x)
<1> DEFINE e == Event(kind, about, number)
<1>1. e \in EventType
  BY EventOK
<1>2. \A x \in Names : Effect(e, x) = 0
  BY QuietEffect, Zenon
<1> HIDE DEF e
<1>3. EventsOK(Push(ev, m, e))
  BY <1>1, PushOK, Zenon
<1>4. ASSUME NEW x \in Names
      PROVE  Total(QueueIn(Push(ev, m, e), x), x) = Total(QueueIn(ev, x), x)
  BY <1>1, <1>2, TotalPushedQuietly
<1>5. ASSUME NEW sh, NEW x \in Names PROVE Shows(Push(ev, m, e), sh, x) = Shows(ev, sh, x)
  BY <1>4 DEF Shows
<1> QED
  BY <1>3, <1>5, Zenon DEF e

LEMMA StartBattleTale ==
    ASSUME Inv, PlayersInv, TaleInv, NEW n \in Names, NEW target \in Names,
           StartBattle(n, target)
    PROVE  TaleInv'
<1>1. /\ events' = Push(events, target, Event("battle", n, 0))
      /\ shown' = shown /\ left' = left
      /\ EventsOK(events)
  BY DEF StartBattle, history, Inv
<1>2. PICK w \in Entered(n) : players' = w.players /\ heap' = w.heap
  BY Zenon DEF StartBattle, Becomes
<1>3. \A m \in Names : Shows(events', shown', m) = Shows(events, shown, m)
  BY <1>1, QuietPush DEF Kinds
<1> QED
  BY <1>1, <1>2, <1>3, QuietCommand, Zenon

LEMMA EscapeTale ==
    ASSUME Inv, PlayersInv, TaleInv, NEW n \in Names, NEW k \in DOMAIN battles, Escape(n, k)
    PROVE  TaleInv'
<1> DEFINE p == battles[k].players[2]
<1>1. PICK w \in Entered(n) :
         /\ players' = w.players /\ heap' = w.heap
         /\ events' = EscapeVerdict(events, w.heap[p])
  BY Zenon DEF Escape, Becomes
<1>2. shown' = shown /\ left' = left /\ EventsOK(events)
  BY DEF Escape, history, Inv
<1>3. w.heap[p].name \in Names
  <2>1. p \in Addr /\ HeapOK(w.heap)
    BY BattleFacts, EnteredOK, Zenon
  <2> QED
    BY <2>1 DEF HeapOK, PlayerType
<1> DEFINE about == w.heap[p].name
<1>4. events' = Push(events, about, Event("escaped", about, 0)) /\ about \in Names
  BY <1>1, <1>3, Zenon DEF EscapeVerdict
<1> HIDE DEF about
<1>5. \A m \in Names : Shows(events', shown', m) = Shows(events, shown, m)
  BY <1>2, <1>4, QuietPush DEF Kinds
<1> QED
  BY <1>1, <1>2, <1>5, QuietCommand, Zenon

LEMMA EndBattleTale ==
    ASSUME Inv, TaleInv, NEW k \in DOMAIN battles, EndBattle(k)
    PROVE  TaleInv'
<1> DEFINE p == heap[battles[k].players[1]]
           q == heap[battles[k].players[2]]
           one == p.name
           two == q.name
           loser == IF p.health = 0 THEN p.name ELSE q.name
           middle == Push(events, one, Event("game-end", one, 0))
<1>1. /\ players' = players /\ heap' = heap /\ shown' = shown /\ left' = left
      /\ events' = Push(middle, two, Event("lost", loser, 0))
      /\ EventsOK(events)
  BY DEF EndBattle, NormalVerdict, history, Inv
<1>2. one \in Names /\ two \in Names /\ loser \in Names
  BY BattleFacts DEF Inv, HeapOK, PlayerType
<1> HIDE DEF one, two, loser
<1>3. EventsOK(middle) /\ \A x \in Names : Shows(middle, shown, x) = Shows(events, shown, x)
  BY <1>1, <1>2, QuietPush DEF Kinds
<1> HIDE DEF middle
<1>4. \A x \in Names : Shows(events', shown, x) = Shows(middle, shown, x)
  BY <1>1, <1>2, <1>3, QuietPush DEF Kinds
<1> QED
  BY <1>1, <1>3, <1>4, QuietStep, Zenon

LEMMA SayTale ==
    ASSUME Inv, PlayersInv, TaleInv, NEW n \in Names, Say(n)
    PROVE  TaleInv'
<1> DEFINE e == Event("broadcast", n, said + 1)
<1>1. PICK w \in Entered(n) : players' = w.players /\ heap' = w.heap
  BY Zenon DEF Say, Becomes
<1>2. shown' = shown /\ left' = left /\ EventsOK(events) /\ events' = PushAll(e)
  BY DEF Say, history, Inv
<1>3. e \in EventType
  <2>1. said + 1 \in Nat
    BY DEF Inv, CountersOK
  <2> QED
    BY <2>1, EventOK DEF Kinds
<1>4. ASSUME NEW m \in Names PROVE Shows(events', shown', m) = Shows(events, shown, m)
  <2>1. Effect(e, m) = 0
    BY DEF Effect, Event
  <2> HIDE DEF e
  <2>2. \/ QueueIn(events', m) = QueueIn(events, m)
        \/ QueueIn(events', m) = Append(QueueIn(events, m), e)
    BY <1>2 DEF PushAll, QueueIn
  <2>3. QueueIn(events, m) \in Seq(EventType)
    BY <1>2 DEF QueueIn, EventsOK
  <2>4. Total(QueueIn(events', m), m) = Total(QueueIn(events, m), m)
    BY <1>3, <2>1, <2>2, <2>3, QuietQueue
  <2> QED
    BY <1>2, <2>4, Zenon DEF Shows
<1> QED
  BY <1>1, <1>2, <1>4, QuietCommand, Zenon

LEMMA FuckTale ==
    ASSUME Inv, PlayersInv, TaleInv, NEW n \in Names, Fuck(n)
    PROVE  TaleInv'
<1> DEFINE e == Event("fuck", n, 0)
           others == {m \in Names \ {n} : players[m] # None}
<1>1. PICK w \in Entered(n) : players' = w.players /\ heap' = w.heap
  BY Zenon DEF Fuck, Becomes
<1>2. /\ shown' = shown /\ left' = left /\ EventsOK(events)
      /\ events' = [m \in DOMAIN events \cup others |->
                       IF m \in others THEN Append(Queue(m), e) ELSE events[m]]
  BY DEF Fuck, history, Inv
<1>3. e \in EventType
  BY EventOK DEF Kinds
<1>4. ASSUME NEW m \in Names PROVE Shows(events', shown', m) = Shows(events, shown, m)
  <2>1. Effect(e, m) = 0
    BY DEF Effect, Event
  <2> HIDE DEF e, others
  <2>2. \/ QueueIn(events', m) = QueueIn(events, m)
        \/ QueueIn(events', m) = Append(QueueIn(events, m), e)
    BY <1>2 DEF QueueIn, Queue
  <2>3. QueueIn(events, m) \in Seq(EventType)
    BY <1>2 DEF QueueIn, EventsOK
  <2>4. Total(QueueIn(events', m), m) = Total(QueueIn(events, m), m)
    BY <1>3, <2>1, <2>2, <2>3, QuietQueue
  <2> QED
    BY <1>2, <2>4, Zenon DEF Shows
<1> QED
  BY <1>1, <1>2, <1>4, QuietCommand, Zenon

LEMMA QueryEventTale ==
    ASSUME Inv, PlayersInv, TaleInv, NEW n \in Names, QueryEvent(n)
    PROVE  TaleInv'
<1>1. PICK w \in Entered(n) : players' = w.players /\ heap' = w.heap
  BY Zenon DEF QueryEvent, Becomes
<1>2. left' = left /\ EventsOK(events) /\ shown \in [Names -> Int]
  BY DEF QueryEvent, Inv, HistoryOK
<1>3. Queue(n) \in Seq(EventType)
  BY QueueOK
<1>4. CASE Queue(n) = <<>>
  <2>1. shown' = shown /\ events' = [m \in DOMAIN events \cup {n} |-> Queue(m)]
    BY <1>4 DEF QueryEvent
  <2>2. \A m \in Names : QueueIn(events', m) = QueueIn(events, m)
    BY <2>1 DEF QueueIn, Queue
  <2> QED
    BY <1>1, <1>2, <2>1, <2>2, QuietCommand, Zenon DEF Shows
<1>5. CASE Queue(n) # <<>>
  <2> DEFINE e == Head(Queue(n))
  <2>1. /\ events' = [events EXCEPT ![n] = Tail(@)]
        /\ shown' = [shown EXCEPT ![n] = @ + Effect(e, n)]
    BY <1>5 DEF QueryEvent, Given
  <2>2. /\ n \in DOMAIN events /\ QueueIn(events, n) = Queue(n)
        /\ QueueIn(events', n) = Tail(Queue(n))
        /\ \A m \in Names : m # n => QueueIn(events', m) = QueueIn(events, m)
    BY <1>5, <2>1 DEF QueueIn, Queue
  <2>3. Total(Queue(n), n) = Effect(e, n) + Total(Tail(Queue(n)), n)
    BY <1>3, <1>5, TotalPopped, Zenon
  <2>4. Effect(e, n) \in Int /\ Total(Tail(Queue(n)), n) \in Int
    <3>1. e \in EventType /\ Tail(Queue(n)) \in Seq(EventType)
      BY <1>3, <1>5
    <3> QED
      BY <3>1, EffectType, TotalType, Zenon
  <2> HIDE DEF e
  <2>5. /\ shown[n] \in Int /\ shown'[n] = shown[n] + Effect(e, n)
        /\ \A m \in Names : m # n => shown'[m] = shown[m]
    BY <1>2, <2>1
  <2>6. ASSUME NEW m \in Names PROVE Shows(events', shown', m) = Shows(events, shown, m)
    <3>1. CASE m # n
      BY <2>2, <2>5, <3>1, Zenon DEF Shows
    <3>2. Shows(events', shown', n) = shown'[n] + Total(Tail(Queue(n)), n)
      BY <2>2, Zenon DEF Shows
    <3>3. Shows(events, shown, n) = shown[n] + Total(Queue(n), n)
      BY <2>2, Zenon DEF Shows
    <3>4. Shows(events', shown', n) = Shows(events, shown, n)
      BY <2>3, <2>4, <2>5, <3>2, <3>3
    <3> QED
      BY <3>1, <3>4, Zenon
  <2> QED
    BY <1>1, <1>2, <2>6, QuietCommand, Zenon
<1> QED
  BY <1>4, <1>5

----------------------------------------------------------------------------
(***************************************************************************)
(* The steps that change somebody's health.                                *)
(***************************************************************************)
\* Player q takes the place of the one at address x, under the same name.
LEMMA ChangedBody ==
    ASSUME NEW ps, NEW h, HeapOK(h), NEW gone, NamedInv(ps, h), BodyInv(ps, h, gone),
           NEW x \in Addr, NEW q, q.name = h[x].name,
           h[x].health # 0 \/ ps[q.name] = x
    PROVE  /\ NamedInv(ps, [h EXCEPT ![x] = q])
           /\ BodyInv(ps, [h EXCEPT ![x] = q], gone)
<1> DEFINE g == [h EXCEPT ![x] = q]
<1>1. \A y : y # x => g[y] = h[y]
  BY DEF HeapOK
<1>2. g[x] = q
  BY DEF HeapOK
<1> HIDE DEF g
<1>3. \A y : g[y].name = h[y].name
  BY <1>1, <1>2, Zenon
<1>4. NamedInv(ps, g)
  BY <1>3, Zenon DEF NamedInv
<1>5. BodyInv(ps, g, gone)
  <2> SUFFICES ASSUME NEW y \in Addr, g[y].health # 0, g[y].name \notin gone
               PROVE  ps[g[y].name] = y
    BY Zenon DEF BodyInv
  <2>1. h[y].health # 0 => ps[g[y].name] = y
    BY <1>3, Zenon DEF BodyInv
  <2>2. y # x => h[y].health # 0
    BY <1>1, Zenon
  <2> QED
    BY <1>2, <2>1, <2>2, Zenon
<1> QED
  BY <1>4, <1>5, Zenon DEF g

LEMMA ChangedOwes ==
    ASSUME NEW ps, PlayersOK(ps), NEW h, HeapOK(h), NEW x \in Addr, NEW q, NEW m \in Names
    PROVE  /\ ps[m] = x => /\ Owes(ps, h, m) = h[x].health - h[x].untold
                           /\ Owes(ps, [h EXCEPT ![x] = q], m) = q.health - q.untold
           /\ ps[m] # x => Owes(ps, [h EXCEPT ![x] = q], m) = Owes(ps, h, m)
<1> DEFINE g == [h EXCEPT ![x] = q]
<1>1. (\A y : y # x => g[y] = h[y]) /\ g[x] = q
  BY DEF HeapOK
<1> HIDE DEF g
<1>2. x # None
  BY PointersAssumption
<1>3. ps[m] = x => /\ Owes(ps, h, m) = h[x].health - h[x].untold
                   /\ Owes(ps, g, m) = q.health - q.untold
  BY <1>1, <1>2 DEF Owes
<1>4. ps[m] # x => Owes(ps, g, m) = Owes(ps, h, m)
  BY <1>1 DEF Owes
<1> QED
  BY <1>3, <1>4, Zenon DEF g

\* What a kit or a resurrection adds, to what an event tells or to what needs none.
LEMMA HealTale ==
    ASSUME Inv, PlayersInv, TaleInv, NEW n \in Names, NEW w \in Entered(n),
           NEW q \in PlayerType, NEW told \in Int,
           q.name = w.heap[w.players[n]].name,
           q.health - q.untold = w.heap[w.players[n]].health
                                     - w.heap[w.players[n]].untold + told,
           players' = w.players, heap' = [w.heap EXCEPT ![w.players[n]] = q],
           left' = left,
           Shows(events', shown', n) = Shows(events, shown, n) + told,
           \A m \in Names : m # n => Shows(events', shown', m) = Shows(events, shown, m)
    PROVE  TaleInv'
<1> DEFINE x == w.players[n]
           ps == w.players
           h == w.heap
<1>1. /\ NamedInv(ps, h) /\ BodyInv(ps, h, left) /\ h[x].name = n
      /\ \A m \in Names : Owes(ps, h, m) = Owes(players, heap, m)
      /\ PlayersOK(ps) /\ HeapOK(h) /\ x \in Addr /\ x = ps[n] /\ x # None
  <2>1. x \in Addr
    BY EnteredOK, Zenon
  <2>2. x # None
    BY <2>1, PointersAssumption
  <2> QED
    BY <2>1, <2>2, EnteredTale, EnteredOK, Zenon
<1>2. q.name = n /\ q.health - q.untold = h[x].health - h[x].untold + told
  BY <1>1, Zenon
<1>3. players' = ps /\ heap' = [h EXCEPT ![x] = q]
  OBVIOUS
<1> HIDE DEF x, ps, h
<1> DEFINE g == [h EXCEPT ![x] = q]
<1>4. ps[q.name] = x /\ q.name = h[x].name
  BY <1>1, <1>2, Zenon
<1>5. NamedInv(ps, g) /\ BodyInv(ps, g, left)
  BY <1>1, <1>4, ChangedBody
<1>6. /\ Owes(ps, h, n) = h[x].health - h[x].untold
      /\ Owes(ps, g, n) = q.health - q.untold
      /\ \A m \in Names : ps[m] # x => Owes(ps, g, m) = Owes(ps, h, m)
  <2>1. ps[n] = x
    BY <1>1, Zenon
  <2>2. ps[n] = x => /\ Owes(ps, h, n) = h[x].health - h[x].untold
                     /\ Owes(ps, g, n) = q.health - q.untold
    BY <1>1, ChangedOwes
  <2>3. ASSUME NEW m \in Names, ps[m] # x PROVE Owes(ps, g, m) = Owes(ps, h, m)
    BY <1>1, <2>3, ChangedOwes
  <2> QED
    BY <2>1, <2>2, <2>3, Zenon
<1> HIDE DEF g
<1>7. NamedInv(players', heap') /\ BodyInv(players', heap', left')
  BY <1>3, <1>5, Zenon DEF g
<1>8. \A m \in Names : m # n => ps[m] # x
  BY <1>1, Zenon DEF NamedInv
<1>9. ASSUME NEW m \in Names \ left'
      PROVE  Shows(events', shown', m) = Owes(players', heap', m)
  <2>1. Shows(events, shown, m) = Owes(ps, h, m)
    BY <1>1, <1>9, Zenon DEF TaleInv, ToldInv
  <2>2. CASE m # n
    <3>1. Owes(players', heap', m) = Owes(ps, h, m)
      BY <1>3, <1>8, <1>6, <2>2, Zenon DEF g
    <3> QED
      BY <2>1, <2>2, <3>1, Zenon
  <2>3. CASE m = n
    <3>1. /\ Owes(ps, h, n) = h[x].health - h[x].untold
          /\ Owes(players', heap', n) = q.health - q.untold
      BY <1>3, <1>6, Zenon DEF g
    <3>2. Shows(events', shown', n) = Owes(ps, h, n) + told
      BY <2>1, <2>3, Zenon
    <3> QED
      BY <1>2, <2>3, <3>1, <3>2, Zenon
  <2> QED
    BY <2>2, <2>3
<1> QED
  BY <1>7, <1>9, Zenon DEF TaleInv, ToldInv

LEMMA BuyTale ==
    ASSUME Inv, PlayersInv, TaleInv, NEW n \in Names, Buy(n)
    PROVE  TaleInv'
<1> DEFINE e == Event("cure", n, KitHeal)
<1>1. PICK w \in Entered(n) :
         /\ w.heap[w.players[n]].money >= Price
         /\ heap' = [w.heap EXCEPT ![w.players[n]] = Heal(CostMoney(@), KitHeal)]
         /\ players' = w.players
  BY Zenon DEF Buy, Becomes
<1>2. /\ events' = Push(events, n, e) /\ shown' = shown /\ left' = left
      /\ EventsOK(events) /\ shown \in [Names -> Int] /\ KitHeal \in Nat
  BY NumbersAssumption DEF Buy, history, Inv, HistoryOK
<1> DEFINE x == w.players[n]
           p == w.heap[x]
           q == Heal(CostMoney(p), KitHeal)
<1>3. x \in Addr /\ HeapOK(w.heap) /\ p \in PlayerType /\ p.money >= Price
  BY <1>1, EnteredOK DEF HeapOK
<1>4. heap' = [w.heap EXCEPT ![x] = q]
  BY <1>1, <1>3 DEF HeapOK
<1> HIDE DEF p
<1>5. q \in PlayerType
  BY <1>2, <1>3, PayOK, HealOK
<1>6. q.name = p.name /\ q.health - q.untold = p.health - p.untold + KitHeal
  BY <1>2, <1>3 DEF Heal, CostMoney, PlayerType
<1> HIDE DEF q
<1>7. e \in EventType /\ Effect(e, n) = KitHeal
  <2>1. e \in EventType
    BY <1>2, EventOK DEF Kinds
  <2>2. Effect(e, n) = KitHeal
    BY DEF Effect, Event
  <2> QED
    BY <2>1, <2>2
<1> HIDE DEF e
<1> DEFINE old == Total(QueueIn(events, n), n)
<1>8. /\ old \in Int /\ Total(QueueIn(events', n), n) = old + KitHeal
      /\ \A m \in Names : m # n => Total(QueueIn(events', m), m)
                                      = Total(QueueIn(events, m), m)
  <2>1. old \in Int /\ Total(QueueIn(events', n), n) = old + Effect(e, n)
    BY <1>2, <1>7, TotalPushed
  <2>2. ASSUME NEW m \in Names, m # n
        PROVE  Total(QueueIn(events', m), m) = Total(QueueIn(events, m), m)
    BY <1>2, <1>7, <2>2, TotalPushed
  <2> QED
    BY <1>7, <2>1, <2>2
<1> HIDE DEF old
<1>9. Shows(events', shown', n) = Shows(events, shown, n) + KitHeal
  <2>1. shown[n] \in Int
    BY <1>2
  <2>2. shown'[n] + (old + KitHeal) = (shown[n] + old) + KitHeal
    BY <1>2, <1>8, <2>1
  <2> QED
    BY <1>8, <2>2, Zenon DEF Shows, old
<1>10. \A m \in Names : m # n => Shows(events', shown', m) = Shows(events, shown, m)
  BY <1>2, <1>8, Zenon DEF Shows
<1>11. KitHeal \in Int
  BY <1>2
<1> HIDE DEF x
<1> QED
  BY <1>1, <1>2, <1>4, <1>5, <1>6, <1>9, <1>10, <1>11, HealTale, Zenon DEF p, x

LEMMA ResurrectTale ==
    ASSUME Inv, PlayersInv, TaleInv, NEW n \in Names, Resurrect(n)
    PROVE  TaleInv'
<1>1. PICK w \in Entered(n), delta \in ResurrectHeal :
         /\ heap' = [w.heap EXCEPT ![w.players[n]] = HealUntold(@, delta)]
         /\ players' = w.players
  BY Zenon DEF Resurrect, Becomes
<1>2. /\ UNCHANGED <<events, shown, left>> /\ EventsOK(events)
      /\ shown \in [Names -> Int] /\ delta \in Nat
  BY NumbersAssumption DEF Resurrect, Inv, HistoryOK, history
<1> DEFINE x == w.players[n]
           p == w.heap[x]
           q == HealUntold(p, delta)
<1>3. x \in Addr /\ HeapOK(w.heap) /\ p \in PlayerType
  BY EnteredOK DEF HeapOK
<1>4. heap' = [w.heap EXCEPT ![x] = q]
  BY <1>1, <1>3 DEF HeapOK
<1> HIDE DEF p
<1>5. q \in PlayerType
  BY <1>2, <1>3, HealOK
<1>6. q.name = p.name /\ q.health - q.untold = p.health - p.untold + 0
  BY <1>2, <1>3 DEF Heal, HealUntold, PlayerType
<1> HIDE DEF q
<1>7. Shows(events', shown', n) = Shows(events, shown, n) + 0
  BY <1>2, ShowsType
<1>8. \A m \in Names : m # n => Shows(events', shown', m) = Shows(events, shown, m)
  BY <1>2, Zenon
<1>9. 0 \in Int
  OBVIOUS
<1> QED
  BY <1>1, <1>2, <1>4, <1>5, <1>6, <1>7, <1>8, <1>9, HealTale, Zenon DEF p

\* A hit: both players are told what the one hit has lost.
LEMMA HitTale ==
    ASSUME Inv, PlayersInv, TaleInv, NEW k \in DOMAIN battles, Hit(k)
    PROVE  TaleInv'
<1> DEFINE b == battles[k]
           attacker == b.players[b.turn + 1]
           target == b.players[2 - b.turn]
           p == heap[target]
           one == heap[attacker].name
           two == p.name
<1>1. PICK d \in DamageTo(heap[attacker], p) :
         /\ heap' = [heap EXCEPT ![target] = TakeDamage(@, d)]
         /\ events' = Push(Push(events, one, HealthDrop(p, d)), two, HealthDrop(p, d))
  BY Zenon DEF Hit
<1>2. /\ UNCHANGED <<players, shown, left>> /\ EventsOK(events) /\ PlayersOK(players)
      /\ HeapOK(heap) /\ shown \in [Names -> Int]
  BY DEF Hit, history, Inv, HistoryOK
<1>3. BothAlive(b)
  BY Zenon DEF Hit
<1>4. /\ attacker \in Addr /\ target \in Addr /\ heap[attacker] \in PlayerType
      /\ p \in PlayerType /\ heap[attacker].health # 0 /\ p.health # 0
      /\ attacker # target
  <2>1. b.turn \in 0..1
    BY BattleFacts, Zenon
  <2>2. b.players[1] # b.players[2]
    BY Zenon DEF PlayersInv, DuelsApart
  <2>3. attacker # target
    BY <2>1, <2>2
  <2>4. heap[attacker].health # 0
    BY <1>3, <2>1 DEF BothAlive
  <2> QED
    BY <1>3, <2>3, <2>4, FightersMade, Zenon
<1> HIDE DEF attacker, target
<1>5. d \in Nat
  BY <1>4, DamageOK, Zenon
<1> DEFINE drop == Drop(p, d)
           q == TakeDamage(p, d)
           e == HealthDrop(p, d)
<1>6. drop \in Nat /\ drop <= p.health
  BY <1>4, <1>5, DropOK, Zenon
<1>7. q.name = two /\ q.health - q.untold = p.health - p.untold - drop
  <2>1. q.name = p.name /\ q.health = p.health - drop /\ q.untold = p.untold
    BY <1>4 DEF TakeDamage, PlayerType
  <2> QED
    BY <1>4, <1>6, <2>1 DEF PlayerType
<1>8. one \in Names /\ two \in Names
  BY <1>4 DEF PlayerType
<1>9. e \in EventType /\ Effect(e, two) = 0 - drop /\ \A m : m # two => Effect(e, m) = 0
  <2>1. e = Event("health-drop", two, drop)
    BY DEF HealthDrop
  <2> HIDE DEF drop, two
  <2>2. e \in EventType
    BY <1>6, <1>8, <2>1, EventOK DEF Kinds
  <2>3. Effect(e, two) = 0 - drop /\ \A m : m # two => Effect(e, m) = 0
    BY <2>1 DEF Effect, Event
  <2> QED
    BY <2>2, <2>3
<1> DEFINE g == [heap EXCEPT ![target] = q]
<1>10. heap' = g
  BY <1>1, <1>2, <1>4 DEF HeapOK
<1>11. events' = Push(Push(events, one, e), two, e)
  BY <1>1, Zenon
<1> HIDE DEF drop, q, e, g, p, one, two
<1>12. NamedInv(players, heap) /\ BodyInv(players, heap, left)
  BY Zenon DEF TaleInv
<1>13. NamedInv(players', heap') /\ BodyInv(players', heap', left')
  <2>1. q.name = heap[target].name /\ heap[target].health # 0
    BY <1>4, <1>7, Zenon DEF p, two
  <2>2. NamedInv(players, g) /\ BodyInv(players, g, left)
    BY <1>2, <1>4, <1>12, <2>1, ChangedBody DEF g
  <2> QED
    BY <1>2, <1>10, <2>2, Zenon
<1>14. two \notin left => players[two] = target /\ one # two
  <2> SUFFICES ASSUME two \notin left PROVE players[two] = target /\ one # two
    OBVIOUS
  <2>1. players[two] = target
    BY <1>4, <1>12, Zenon DEF BodyInv, p, two
  <2>2. one \notin left => players[one] = attacker
    BY <1>4, <1>12, Zenon DEF BodyInv, one
  <2> QED
    BY <1>4, <2>1, <2>2, Zenon
<1> DEFINE middle == Push(events, one, e)
<1>15. EventsOK(middle)
  BY <1>2, <1>8, <1>9, PushOK, Zenon
<1>16. ASSUME NEW m \in Names \ left'
       PROVE  Shows(events', shown', m) = Owes(players', heap', m)
  <2>1. Shows(events, shown, m) = Owes(players, heap, m) /\ m \in Names /\ m \notin left
    BY <1>2, <1>16, Zenon DEF TaleInv, ToldInv
  <2>2. CASE m # two
    <3>1. Effect(e, m) = 0
      BY <1>9, <2>2, Zenon
    <3>2. Total(QueueIn(middle, m), m) = Total(QueueIn(events, m), m)
      BY <1>2, <1>9, <3>1, TotalPushedQuietly
    <3>3. Total(QueueIn(events', m), m) = Total(QueueIn(middle, m), m)
      <4>1. Total(QueueIn(Push(middle, two, e), m), m) = Total(QueueIn(middle, m), m)
        BY <1>9, <1>15, <3>1, TotalPushedQuietly
      <4> QED
        BY <1>11, <4>1, Zenon
    <3>4. Shows(events', shown', m) = Shows(events, shown, m)
      BY <1>2, <3>2, <3>3, Zenon DEF Shows
    <3>5. players[m] # target
      BY <1>12, <2>1, <2>2, <1>4, PointersAssumption DEF NamedInv, two, p
    <3>6. Owes(players, g, m) = Owes(players, heap, m)
      BY <1>2, <1>4, <2>1, <3>5, ChangedOwes DEF g
    <3> QED
      BY <1>2, <1>10, <2>1, <3>4, <3>6, Zenon
  <2>3. CASE m = two
    <3>1. players[m] = target /\ one # m
      BY <1>14, <2>1, <2>3, Zenon
    <3> DEFINE t == Total(QueueIn(events, m), m)
    <3>2. t \in Int /\ Total(QueueIn(middle, m), m) = t
      BY <1>2, <1>9, <3>1, TotalPushed
    <3>3. Total(QueueIn(events', m), m) = t + (0 - drop)
      <4>1. Total(QueueIn(Push(middle, two, e), two), two)
               = Total(QueueIn(middle, two), two) + Effect(e, two)
        BY <1>9, <1>15, TotalPushed
      <4> QED
        BY <1>9, <1>11, <2>3, <3>2, <4>1, Zenon
    <3>4. Shows(events', shown', m) = shown[m] + (t + (0 - drop))
      BY <1>2, <3>3, Zenon DEF Shows
    <3>5. Shows(events, shown, m) = shown[m] + t /\ shown[m] \in Int
      BY <1>2, <2>1 DEF Shows
    <3> HIDE DEF t
    <3>6. Owes(players, heap, m) = p.health - p.untold
      BY <1>4, <3>1, PointersAssumption DEF Owes, p
    <3>7. Owes(players, g, m) = q.health - q.untold
      BY <1>2, <1>4, <2>1, <3>1, ChangedOwes DEF g
    <3>8. Owes(players', heap', m) = Owes(players, g, m)
      BY <1>2, <1>10, Zenon
    <3>9. p.health \in Nat /\ p.untold \in Nat
      BY <1>4 DEF PlayerType
    <3>10. p.health - p.untold = shown[m] + t
      BY <2>1, <3>5, <3>6, Zenon
    <3>11. Owes(players', heap', m) = p.health - p.untold - drop
      BY <1>7, <3>7, <3>8, Zenon
    <3>12. shown[m] + (t + (0 - drop)) = p.health - p.untold - drop
      BY <1>6, <3>2, <3>5, <3>9, <3>10
    <3> QED
      BY <3>4, <3>11, <3>12, Zenon
  <2> QED
    BY <2>2, <2>3
<1> QED
  BY <1>13, <1>16, Zenon DEF TaleInv, ToldInv

LEMMA TaleStep ==
    ASSUME Inv, PlayersInv, TaleInv, [Next]_vars
    PROVE  TaleInv'
<1>1. CASE UNCHANGED <<players, heap, events, shown, left>>
  BY <1>1, QuietStep, Zenon
<1>2. CASE UNCHANGED vars
  BY <1>1, <1>2 DEF vars
<1>3. CASE \/ \E n \in Names : Lookup(n) \/ CannotAfford(n)
           \/ \E n, target \in Names : RefuseBattle(n, target)
  <2>1. PICK n \in Names : \E w \in Entered(n) :
           /\ players' = w.players /\ heap' = w.heap
           /\ UNCHANGED <<events, shown, left>>
    BY <1>3, Zenon DEF Lookup, CannotAfford, RefuseBattle, Becomes, history
  <2> QED
    BY <2>1, QuietCommand, Zenon
<1>4. CASE \/ Tick
           \/ \E k \in DOMAIN battles : Crash(k) \/ SkipBattle(k) \/ WaitBattle(k)
  <2>1. UNCHANGED <<players, heap, events, shown, left>>
    BY <1>4, Zenon DEF Tick, Crash, SkipBattle, WaitBattle, history
  <2> QED
    BY <1>1, <2>1, Zenon
<1>5. CASE \E n \in Names : \/ Logout(n) \/ Buy(n) \/ QueryEvent(n) \/ Say(n) \/ Fuck(n)
                            \/ Resurrect(n)
  BY <1>5, LogoutTale, BuyTale, QueryEventTale, SayTale, FuckTale, ResurrectTale, Zenon
<1>6. CASE \E n, target \in Names : StartBattle(n, target)
  BY <1>6, StartBattleTale, Zenon
<1>7. CASE \E k \in DOMAIN battles : \/ \E n \in Names : Escape(n, k)
                                    \/ Hit(k) \/ EndBattle(k)
  BY <1>7, EscapeTale, HitTale, EndBattleTale, Zenon
<1> QED
  BY <1>2, <1>3, <1>4, <1>5, <1>6, <1>7, Zenon DEF Next, UpdateBattle

LEMMA TaleInit ==
    ASSUME Init PROVE TaleInv
<1>1. /\ \A n \in Names : players[n] = None
      /\ \A x \in Addr : heap[x].health = 0
      /\ \A n \in Names : shown[n] = 0
      /\ \A n \in Names : QueueIn(events, n) = <<>>
  BY DEF Init, NewPlayer, QueueIn
<1>2. NamedInv(players, heap) /\ BodyInv(players, heap, left)
  BY <1>1, Zenon DEF NamedInv, BodyInv
<1>3. ASSUME NEW n \in Names PROVE Shows(events, shown, n) = Owes(players, heap, n)
  <2>1. Shows(events, shown, n) = 0 + 0
    BY <1>1, TotalEmpty, Zenon DEF Shows
  <2>2. Owes(players, heap, n) = 0
    BY <1>1, Zenon DEF Owes
  <2> QED
    BY <2>1, <2>2
<1> QED
  BY <1>2, <1>3, Zenon DEF TaleInv, ToldInv

----------------------------------------------------------------------------
(***************************************************************************)
(* The theorem about health.                                               *)
(***************************************************************************)
LEMMA TaleTold ==
    ASSUME Inv, TaleInv PROVE HealthIsTold
<1> SUFFICES ASSUME NEW n \in Names \ left, players[n] # None
             PROVE  heap[players[n]].health
                       = heap[players[n]].untold + shown[n] + Pending(n)
  BY Zenon DEF HealthIsTold
<1> DEFINE p == heap[players[n]]
<1>1. players[n] \in Addr /\ p \in PlayerType /\ shown[n] \in Int
  BY DEF Inv, PlayersOK, HeapOK, HistoryOK
<1>2. p.health \in Nat /\ p.untold \in Nat
  BY <1>1 DEF PlayerType
<1>3. Pending(n) = Total(QueueIn(events, n), n)
  BY DEF Pending, Total, Effects, QueueIn, Queue
<1>4. QueueIn(events, n) \in Seq(EventType)
  BY DEF Inv, EventsOK, QueueIn
<1>5. Pending(n) \in Int
  BY <1>3, <1>4, TotalType
<1>6. Shows(events, shown, n) = Owes(players, heap, n)
  BY Zenon DEF TaleInv, ToldInv
<1>7. shown[n] + Pending(n) = p.health - p.untold
  BY <1>3, <1>6, Zenon DEF Shows, Owes
<1> QED
  BY <1>1, <1>2, <1>5, <1>7

\* The events a player has been given and those that wait for it account for every
\* change of its health that is told at all: Battle::update announces to both what
\* take_damage returned, and neither crossing commands nor other battles, escapes,
\* logouts or memory used again take or announce anything else.
THEOREM HealthFollowsEvents == Spec => []HealthIsTold
<1> DEFINE All == Promises /\ TaleInv
<1>1. Init => All
  BY PromisesInit, TaleInit
<1>2. All /\ [Next]_vars => All'
  <2> SUFFICES ASSUME Promises, TaleInv, [Next]_vars PROVE Promises' /\ TaleInv'
    BY Zenon
  <2>1. Promises'
    BY PromisesStep, Zenon
  <2>2. TaleInv'
    BY TaleStep, Zenon DEF Promises
  <2> QED
    BY <2>1, <2>2
<1>3. All => HealthIsTold
  BY TaleTold DEF Promises
<1> HIDE DEF All
<1> QED
  BY <1>1, <1>2, <1>3, PTL DEF Spec
=============================================================================
