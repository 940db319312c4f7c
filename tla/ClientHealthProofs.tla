------------------------- MODULE ClientHealthProofs -------------------------
(***************************************************************************)
(* Proofs about Client's health: what the client shows against what the    *)
(* server has and what is still on its way.                                *)
(***************************************************************************)
EXTENDS ClientProofs, SumLemmas

----------------------------------------------------------------------------
(***************************************************************************)
(* What the messages behind a position still do to the client's copy of    *)
(* the health: the drops less the cures.                                   *)
(***************************************************************************)
CureOf(m) == IF m.kind = "cure" THEN m.number ELSE 0
Net(m) == DropOf(m) - CureOf(m)
Nets(s) == [i \in DOMAIN s |-> Net(s[i])]
After(s, i) == Sum(Nets(s), Len(s)) - Sum(Nets(s), i)

LEMMA NumbersNatural ==
    ASSUME NEW K, NEW s \in Seq(MessageOf(K))
    PROVE  \A i \in 1..Len(s) : s[i].number \in Nat
<1>1. \A i \in 1..Len(s) : s[i] \in MessageOf(K)
  BY ElementOfSeq
<1> QED
  BY <1>1 DEF MessageOf

LEMMA NetsType ==
    ASSUME NEW K, NEW s \in Seq(MessageOf(K))
    PROVE  /\ Len(s) \in Nat
           /\ \A i \in 1..Len(s) : Nets(s)[i] = Net(s[i]) /\ Net(s[i]) \in Int
<1>1. Len(s) \in Nat /\ DOMAIN s = 1..Len(s)
  BY LenProperties
<1>2. \A i \in 1..Len(s) : s[i].number \in Nat
  BY NumbersNatural
<1>3. \A i \in 1..Len(s) : Net(s[i]) \in Int
  BY <1>2 DEF Net, DropOf, CureOf
<1> QED
  BY <1>1, <1>3 DEF Nets

LEMMA AfterLast ==
    ASSUME NEW K, NEW s \in Seq(MessageOf(K))
    PROVE  /\ After(s, Len(s)) = 0
           /\ \A i \in 0..Len(s) : After(s, i) \in Int
<1>1. Len(s) \in Nat /\ \A i \in 1..Len(s) : Nets(s)[i] \in Int
  BY NetsType
<1>2. ASSUME NEW i \in 0..Len(s) PROVE Sum(Nets(s), i) \in Int
  <2>1. i \in Nat /\ \A j \in 1..i : Nets(s)[j] \in Int
    BY <1>1
  <2> QED
    BY <2>1, SumType
<1>3. Len(s) \in 0..Len(s)
  BY <1>1
<1> QED
  BY <1>2, <1>3 DEF After

LEMMA AfterStep ==
    ASSUME NEW K, NEW s \in Seq(MessageOf(K)), NEW i \in 0..(Len(s) - 1)
    PROVE  After(s, i) = After(s, i + 1) + Net(s[i + 1])
<1>1. Len(s) \in Nat /\ \A j \in 1..Len(s) : Nets(s)[j] = Net(s[j]) /\ Net(s[j]) \in Int
  BY NetsType
<1>2. i \in Nat /\ i + 1 \in 1..Len(s) /\ Len(s) \in 0..Len(s)
  BY <1>1
<1>3. \A j \in 1..(i + 1) : Nets(s)[j] \in Int
  BY <1>1, <1>2
<1>4. Sum(Nets(s), i + 1) = Sum(Nets(s), i) + Net(s[i + 1])
  BY <1>1, <1>2, <1>3, SumNext
<1>5. Sum(Nets(s), i) \in Int /\ Sum(Nets(s), Len(s)) \in Int /\ Net(s[i + 1]) \in Int
  <2>1. \A j \in 1..i : Nets(s)[j] \in Int
    BY <1>2, <1>3
  <2> QED
    BY <1>1, <1>2, <2>1, SumType
<1> QED
  BY <1>4, <1>5 DEF After

\* A message added behind a position adds what it does.
LEMMA AfterAdded ==
    ASSUME NEW K, NEW s \in Seq(MessageOf(K)), NEW t \in Seq(MessageOf(K)), NEW m,
           Added(s, t, m)
    PROVE  /\ \A i \in 0..Len(s) : After(t, i) = After(s, i) + Net(m)
           /\ After(t, Len(s) + 1) = 0
           /\ Net(m) \in Int
<1>1. Len(s) \in Nat /\ \A j \in 1..Len(s) : Nets(s)[j] = Net(s[j]) /\ Net(s[j]) \in Int
  BY NetsType
<1>2. \A j \in 1..Len(t) : Nets(t)[j] = Net(t[j]) /\ Net(t[j]) \in Int
  BY NetsType
<1>3. Len(t) = Len(s) + 1 /\ t[Len(s) + 1] = m /\ \A j \in 1..Len(s) : t[j] = s[j]
  BY DEF Added
<1>4. Net(m) \in Int /\ After(t, Len(s) + 1) = 0
  BY <1>1, <1>2, <1>3, AfterLast
<1>5. ASSUME NEW i \in 0..Len(s) PROVE Sum(Nets(t), i) = Sum(Nets(s), i) /\ Sum(Nets(s), i) \in Int
  <2>1. i \in Nat
    BY <1>1
  <2>2. ASSUME NEW j \in 1..i PROVE Nets(s)[j] \in Int /\ Nets(s)[j] = Nets(t)[j]
    <3>1. j \in 1..Len(s) /\ j \in 1..Len(t)
      BY <1>1, <1>3
    <3>2. t[j] = s[j]
      BY <1>3, <3>1
    <3> QED
      BY <1>1, <1>2, <3>1, <3>2
  <2> QED
    BY <2>1, <2>2, SumSame, SumType
<1>6. Sum(Nets(t), Len(t)) = Sum(Nets(t), Len(s)) + Net(m)
  <2>1. \A j \in 1..(Len(s) + 1) : Nets(t)[j] \in Int
    BY <1>2, <1>3
  <2>2. Sum(Nets(t), Len(s) + 1) = Sum(Nets(t), Len(s)) + Nets(t)[Len(s) + 1]
    BY <1>1, <2>1, SumNext
  <2>3. Nets(t)[Len(s) + 1] = Net(m)
    BY <1>1, <1>2, <1>3
  <2> QED
    BY <1>3, <2>2, <2>3
<1>7. Len(s) \in 0..Len(s)
  BY <1>1
<1>8. Sum(Nets(t), Len(t)) = Sum(Nets(s), Len(s)) + Net(m) /\ Sum(Nets(s), Len(s)) \in Int
  BY <1>5, <1>6, <1>7
<1>9. ASSUME NEW i \in 0..Len(s) PROVE After(t, i) = After(s, i) + Net(m)
  <2>1. Sum(Nets(t), i) = Sum(Nets(s), i) /\ Sum(Nets(s), i) \in Int
    BY <1>5
  <2> QED
    BY <1>4, <1>8, <2>1 DEF After
<1> QED
  BY <1>4, <1>9

\* Taking the first message shifts the positions.
LEMMA AfterShifted ==
    ASSUME NEW K, NEW s \in Seq(MessageOf(K)), NEW t \in Seq(MessageOf(K)), Shifted(s, t)
    PROVE  \A i \in 0..Len(t) : After(t, i) = After(s, i + 1)
<1>1. Len(s) \in Nat /\ \A j \in 1..Len(s) : Nets(s)[j] = Net(s[j]) /\ Net(s[j]) \in Int
  BY NetsType
<1>2. Len(t) \in Nat /\ \A j \in 1..Len(t) : Nets(t)[j] = Net(t[j]) /\ Net(t[j]) \in Int
  BY NetsType
<1>3. Len(s) = Len(t) + 1 /\ \A j \in 1..Len(t) : t[j] = s[j + 1]
  BY <1>1 DEF Shifted
<1>4. ASSUME NEW i \in 0..Len(t)
      PROVE  /\ Sum(Nets(s), i + 1) = Nets(s)[1] + Sum(Nets(t), i)
             /\ Sum(Nets(t), i) \in Int
  <2>1. /\ i \in Nat /\ \A j \in 1..(i + 1) : Nets(s)[j] \in Int
        /\ \A j \in 1..i : Nets(t)[j] = Nets(s)[j + 1] /\ Nets(t)[j] \in Int
    <3>1. \A j \in 1..i : j \in 1..Len(t) /\ j + 1 \in 1..Len(s)
      BY <1>2, <1>3
    <3>2. \A j \in 1..(i + 1) : j \in 1..Len(s)
      BY <1>2, <1>3
    <3> QED
      BY <1>1, <1>2, <1>3, <3>1, <3>2
  <2> QED
    BY <2>1, SumTail, SumType
<1>5. Nets(s)[1] \in Int /\ Len(t) \in 0..Len(t)
  BY <1>1, <1>2, <1>3
<1>6. Sum(Nets(s), Len(s)) = Nets(s)[1] + Sum(Nets(t), Len(t)) /\ Sum(Nets(t), Len(t)) \in Int
  BY <1>3, <1>4, <1>5
<1>7. ASSUME NEW i \in 0..Len(t) PROVE After(t, i) = After(s, i + 1)
  BY <1>4, <1>5, <1>6 DEF After
<1> QED
  BY <1>7

LEMMA AfterBelowDrops ==
    ASSUME NEW K, NEW s \in Seq(MessageOf(K))
    PROVE  After(s, 0) <= Drops(s) /\ Drops(s) \in Int
<1> DEFINE w == Nets(s)
           v == [i \in DOMAIN s |-> DropOf(s[i])]
<1>1. Len(s) \in Nat /\ DOMAIN s = 1..Len(s)
  BY LenProperties
<1>2. \A i \in 1..Len(s) : s[i].number \in Nat
  BY NumbersNatural
<1>3. \A i \in 1..Len(s) : w[i] \in Int /\ v[i] \in Int /\ w[i] <= v[i]
  BY <1>1, <1>2 DEF Nets, Net, DropOf, CureOf
<1>4. Drops(s) = Sum(v, Len(s)) /\ After(s, 0) = Sum(w, Len(s)) - Sum(w, 0)
  BY DEF Drops, After
<1> HIDE DEF v, w
<1>5. Sum(w, Len(s)) <= Sum(v, Len(s)) /\ Sum(v, Len(s)) \in Int /\ Sum(w, Len(s)) \in Int
  BY <1>1, <1>3, SumBelow, SumType
<1>6. Sum(w, 0) = 0
  BY SumEmpty
<1> QED
  BY <1>4, <1>5, <1>6

\* What is still to come behind position i of the replies, the events included.
Ahead(reps, evs, i) == After(reps, i) + After(evs, 0)

Replies == Seq(MessageOf(ReplyKinds))
Events == Seq(MessageOf(EventKinds \ {"none"}))

LEMMA AheadType ==
    ASSUME NEW reps \in Replies, NEW evs \in Events
    PROVE  /\ Len(reps) \in Nat /\ Len(evs) \in Nat
           /\ \A i \in 0..Len(reps) : Ahead(reps, evs, i) \in Int
           /\ \A i \in 0..Len(evs) : After(evs, i) \in Int
           /\ Ahead(reps, evs, Len(reps)) = After(evs, 0)
           /\ After(evs, Len(evs)) = 0
<1>1. Len(reps) \in Nat /\ Len(evs) \in Nat
  BY LenProperties DEF Replies, Events
<1>2. /\ After(reps, Len(reps)) = 0 /\ After(evs, Len(evs)) = 0
      /\ \A i \in 0..Len(reps) : After(reps, i) \in Int
      /\ \A i \in 0..Len(evs) : After(evs, i) \in Int
  BY AfterLast DEF Replies, Events
<1> QED
  BY <1>1, <1>2 DEF Ahead

LEMMA AheadAnswered ==
    ASSUME NEW reps \in Replies, NEW evs \in Events, NEW reps2 \in Replies, NEW m,
           Added(reps, reps2, m), Net(m) = 0
    PROVE  \A i \in 0..Len(reps) : Ahead(reps2, evs, i) = Ahead(reps, evs, i)
<1>1. \A i \in 0..Len(reps) : After(reps2, i) = After(reps, i) + Net(m)
  BY AfterAdded DEF Replies
<1>2. \A i \in 0..Len(reps) : After(reps, i) \in Int
  BY AfterLast DEF Replies
<1> QED
  BY <1>1, <1>2 DEF Ahead

LEMMA AheadTold ==
    ASSUME NEW reps \in Replies, NEW evs \in Events, NEW evs2 \in Events, NEW e,
           Added(evs, evs2, e)
    PROVE  /\ \A i \in 0..Len(reps) : Ahead(reps, evs2, i) = Ahead(reps, evs, i) + Net(e)
           /\ \A i \in 0..Len(evs) : After(evs2, i) = After(evs, i) + Net(e)
           /\ Len(evs2) = Len(evs) + 1 /\ After(evs2, Len(evs) + 1) = 0
           /\ Net(e) \in Int
<1>1. /\ \A i \in 0..Len(evs) : After(evs2, i) = After(evs, i) + Net(e)
      /\ After(evs2, Len(evs) + 1) = 0 /\ Net(e) \in Int
  BY AfterAdded DEF Events
<1>2. /\ \A i \in 0..Len(reps) : After(reps, i) \in Int
      /\ \A i \in 0..Len(evs) : After(evs, i) \in Int
      /\ 0 \in 0..Len(evs)
  BY AfterLast, LenProperties DEF Replies, Events
<1>3. \A i \in 0..Len(reps) : Ahead(reps, evs2, i) = Ahead(reps, evs, i) + Net(e)
  BY <1>1, <1>2 DEF Ahead
<1> QED
  BY <1>1, <1>3 DEF Added

\* Moving the oldest event to the replies changes nothing of what is to come.
LEMMA AheadQueried ==
    ASSUME NEW reps \in Replies, NEW evs \in Events,
           NEW reps2 \in Replies, NEW evs2 \in Events, NEW m,
           Added(reps, reps2, m), Shifted(evs, evs2), m = evs[1]
    PROVE  /\ \A i \in 0..Len(reps) : Ahead(reps2, evs2, i) = Ahead(reps, evs, i)
           /\ \A i \in 0..Len(evs2) : i + 1 \in 0..Len(evs) /\ After(evs2, i) = After(evs, i + 1)
<1>1. /\ \A i \in 0..Len(reps) : After(reps2, i) = After(reps, i) + Net(m)
      /\ Net(m) \in Int
  BY AfterAdded DEF Replies
<1>2. \A i \in 0..Len(evs2) : After(evs2, i) = After(evs, i + 1)
  BY AfterShifted DEF Events
<1>3. Len(evs) \in Nat /\ Len(evs) # 0 /\ Len(evs2) = Len(evs) - 1
  BY LenProperties DEF Events, Shifted
<1>4. After(evs, 0) = After(evs, 0 + 1) + Net(evs[0 + 1])
  <2>1. 0 \in 0..(Len(evs) - 1)
    BY <1>3
  <2> QED
    BY <2>1, AfterStep DEF Events
<1>5. /\ \A i \in 0..Len(reps) : After(reps, i) \in Int
      /\ \A i \in 0..Len(evs) : After(evs, i) \in Int
  BY AfterLast DEF Replies, Events
<1>6. After(evs2, 0) = After(evs, 1) /\ After(evs, 1) \in Int
      /\ After(evs, 0) = After(evs, 1) + Net(m)
  BY <1>2, <1>3, <1>4, <1>5
<1>7. \A i \in 0..Len(reps) : Ahead(reps2, evs2, i) = Ahead(reps, evs, i)
  BY <1>1, <1>5, <1>6 DEF Ahead
<1> QED
  BY <1>2, <1>3, <1>7

LEMMA AheadPolled ==
    ASSUME NEW reps \in Replies, NEW evs \in Events, NEW reps2 \in Replies,
           Shifted(reps, reps2)
    PROVE  /\ \A i \in 0..Len(reps2) : /\ i + 1 \in 0..Len(reps)
                                       /\ Ahead(reps2, evs, i) = Ahead(reps, evs, i + 1)
           /\ Ahead(reps, evs, 0) = Ahead(reps, evs, 1) + Net(reps[1])
<1>1. \A i \in 0..Len(reps2) : After(reps2, i) = After(reps, i + 1)
  BY AfterShifted DEF Replies
<1>2. Len(reps) \in Nat /\ Len(reps) # 0 /\ Len(reps2) = Len(reps) - 1
  BY LenProperties DEF Replies, Shifted
<1>3. After(reps, 0) = After(reps, 0 + 1) + Net(reps[0 + 1])
  <2>1. 0 \in 0..(Len(reps) - 1)
    BY <1>2
  <2> QED
    BY <2>1, AfterStep DEF Replies
<1>4. After(reps, 1) \in Int /\ After(evs, 0) \in Int /\ Net(reps[1]) \in Int
  <2>1. 1 \in 0..Len(reps) /\ 1 \in 1..Len(reps) /\ 0 \in 0..Len(evs)
    BY <1>2, LenProperties DEF Events
  <2> QED
    BY <2>1, AfterLast, NetsType DEF Replies, Events
<1>5. Ahead(reps, evs, 0) = Ahead(reps, evs, 1) + Net(reps[1])
  BY <1>3, <1>4 DEF Ahead
<1> QED
  BY <1>1, <1>2, <1>5 DEF Ahead

----------------------------------------------------------------------------
(***************************************************************************)
(* The client's copy of the health.                                        *)
(***************************************************************************)
\* What the kits have healed, which the client may count twice.
Kept == kits * KitHeal

\* Every cure on its way comes from a kit, and neither the copy nor a login or
\* sync on its way exceeds the health by more than the drops still to come.
Budget ==
    /\ \A i \in 0..Len(events) : 0 <= After(events, i) + Kept
    /\ \A i \in 0..Len(replies) : 0 <= Ahead(replies, events, i) + Kept

Copies ==
    phase = "open" =>
       /\ LoggedIn => you <= health["me"] + Ahead(replies, events, 0) + Kept
       /\ \A i \in 1..Len(replies) :
             replies[i].kind \in {"login", "sync"} =>
                replies[i].number <= health["me"] + Ahead(replies, events, i) + Kept

Lost(m) == m.kind = "game-end" /\ m.about = "me"

ResurrectsCounted ==
    \A i \in 1..Len(requests) : requests[i].kind = "resurrect" => heals # 0

\* Without kits and heals a player who has lost a battle stays dead, and all of
\* the drops are ahead of the game-end.
StaysDead ==
    phase = "open" /\ kits = 0 /\ heals = 0 =>
       /\ \A i \in 1..Len(replies) :
             Lost(replies[i]) => health["me"] + Ahead(replies, events, i) <= 0
       /\ \A i \in 1..Len(events) :
             Lost(events[i]) => health["me"] + After(events, i) <= 0

HealthInv == Budget /\ Copies /\ ResurrectsCounted /\ StaysDead

LEMMA Products ==
    \A x, y \in Nat : x * y \in Nat /\ (x + 1) * y = x * y + y
OBVIOUS

LEMMA HealthTypes ==
    ASSUME TypeOK
    PROVE  /\ replies \in Replies /\ events \in Events
           /\ Kept \in Nat /\ KitHeal \in Nat /\ kits \in Nat /\ heals \in Nat
           /\ (kits + 1) * KitHeal = Kept + KitHeal
           /\ health["me"] \in Nat /\ you \in Nat
           /\ \A i \in 1..Len(replies) : replies[i].number \in Nat
<1>1. replies \in Replies /\ events \in Events
  BY DEF TypeOK, Replies, Events
<1>2. kits \in Nat /\ KitHeal \in Nat /\ you \in Nat /\ heals \in Nat
  BY HealthAssumption DEF TypeOK
<1>3. health["me"] \in Nat
  BY DEF TypeOK, Sides
<1>4. Kept \in Nat /\ (kits + 1) * KitHeal = Kept + KitHeal
  BY <1>2, Products DEF Kept
<1>5. \A i \in 1..Len(replies) : replies[i].number \in Nat
  BY <1>1, NumbersNatural DEF Replies
<1> QED
  BY <1>1, <1>2, <1>3, <1>4, <1>5

\* What polling does to the copy of the health.
LEMMA PollYou ==
    ASSUME TypeOK, Poll
    PROVE  LET h == replies[1]
           IN  /\ h.kind \in {"login", "sync"} => you' = h.number
               /\ h.kind \notin {"login", "sync"} =>
                     \/ you' = you - Net(h)
                     \/ you' = 0 /\ h.kind = "health-drop"
<1> DEFINE h == replies[1]
<1>1. Head(replies) = h /\ h \in MessageOf(ReplyKinds)
  BY PollShape
<1>2. h.number \in Nat /\ you \in Nat
  BY <1>1 DEF MessageOf, TypeOK
<1>3. CASE ReceiveHealthDrop
  BY <1>1, <1>2, <1>3 DEF ReceiveHealthDrop, Receive, Net, DropOf, CureOf
<1>4. CASE ReceiveCure
  BY <1>1, <1>2, <1>4 DEF ReceiveCure, Receive, Net, DropOf, CureOf
<1>5. CASE ReceiveLogin \/ ReceiveSync
  BY <1>1, <1>5 DEF ReceiveLogin, ReceiveSync, Receive
<1>6. CASE ReceiveOther \/ ReceiveGameEnd \/ ReceiveDone \/ ReceiveBattle \/ ReceiveEscaped
  <2>1. you' = you /\ h.kind \in {"none", "shown", "game-end", "refused", "done", "battle", "escaped"}
    BY <1>1, <1>6 DEF ReceiveOther, ReceiveGameEnd, ReceiveDone, ReceiveBattle,
                      ReceiveEscaped, Receive, client
  <2>2. Net(h) = 0
    BY <2>1 DEF Net, DropOf, CureOf
  <2> QED
    BY <2>1, <2>2, <1>2
<1> QED
  BY <1>3, <1>4, <1>5, <1>6 DEF Poll

\* Polling takes from what is to come what it does to the copy.
LEMMA HealthByPoll ==
    ASSUME TypeOK, TypeOK', LoginInv, Budget, Copies, Poll
    PROVE  Budget' /\ Copies'
<1> DEFINE h == replies[1]
           A(i) == Ahead(replies, events, i)
<1>0. /\ Shifted(replies, replies')
      /\ UNCHANGED <<phase, health, kits, events>>
      /\ Len(replies) \in Nat
  BY PollShape, LengthTypes DEF server
<1>1. /\ replies \in Replies /\ events \in Events /\ replies' \in Replies
      /\ Kept \in Nat /\ Kept' = Kept /\ health["me"] \in Nat /\ you \in Nat
      /\ \A i \in 1..Len(replies) : replies[i].number \in Nat
  BY <1>0, HealthTypes DEF TypeOK, Replies, Kept
<1>2. /\ \A i \in 0..Len(replies') : /\ i + 1 \in 0..Len(replies)
                                     /\ Ahead(replies', events, i) = A(i + 1)
      /\ A(0) = A(1) + Net(h)
  BY <1>0, <1>1, AheadPolled
<1>3. /\ Len(replies') = Len(replies) - 1 /\ Len(replies) # 0
      /\ \A i \in 1..Len(replies') : replies'[i] = replies[i + 1] /\ i + 1 \in 1..Len(replies)
  BY <1>0 DEF Shifted
<1>4. \A i \in 0..Len(replies) : A(i) \in Int
  BY <1>1, AheadType
<1>5. /\ \A i \in 0..Len(events) : 0 <= After(events, i) + Kept
      /\ \A i \in 0..Len(replies) : 0 <= A(i) + Kept
  BY DEF Budget
<1>6. Budget'
  <2>1. \A i \in 0..Len(replies') : 0 <= Ahead(replies', events, i) + Kept
    BY <1>2, <1>5
  <2> QED
    BY <1>0, <1>1, <1>5, <2>1 DEF Budget
<1>7. ASSUME phase = "open"
      PROVE  you' <= health["me"] + Ahead(replies', events, 0) + Kept
  <2>1. Ahead(replies', events, 0) = A(1) /\ A(1) \in Int /\ A(0) \in Int
    <3>1. 0 \in 0..Len(replies') /\ 0 \in 0..Len(replies)
      BY <1>0, <1>3
    <3> QED
      BY <1>2, <1>4, <3>1
  <2>2. CASE h.kind \in {"login", "sync"}
    <3>1. you' = h.number
      BY <2>2, PollYou
    <3>2. 1 \in 1..Len(replies)
      BY <1>0, <1>3
    <3>3. h.number <= health["me"] + A(1) + Kept
      BY <1>7, <2>2, <3>2 DEF Copies
    <3> QED
      BY <2>1, <3>1, <3>3
  <2>3. CASE h.kind \notin {"login", "sync"}
    <3>1. you' = you - Net(h) \/ you' = 0
      BY <2>3, PollYou
    <3>2. LoggedIn
      <4>1. state = "unlogged_in" => Len(replies) = 0
        BY DEF LoginInv, Nothing
      <4>2. state = "logging" => h.kind = "login"
        BY <1>0, <1>3 DEF LoginInv, All
      <4> QED
        BY <1>3, <2>3, <4>1, <4>2 DEF LoggedIn
    <3>3. you <= health["me"] + A(0) + Kept
      BY <1>7, <3>2 DEF Copies
    <3>4. Net(h) \in Int
      <4>1. 1 \in 1..Len(replies)
        BY <1>0, <1>3
      <4> QED
        BY <1>1, <4>1, NetsType DEF Replies
    <3>5. 0 <= A(1) + Kept
      <4>1. 1 \in 0..Len(replies)
        BY <1>0, <1>3
      <4> QED
        BY <1>5, <4>1
    <3> HIDE DEF A
    <3>6. CASE you' = you - Net(h)
      <4>1. A(0) = A(1) + Net(h) /\ Ahead(replies', events, 0) = A(1)
        BY <1>2, <2>1
      <4>2. health["me"] \in Int /\ you \in Int /\ Kept \in Int /\ A(1) \in Int
        BY <1>1, <2>1
      <4> QED
        BY <3>3, <3>4, <3>6, <4>1, <4>2
    <3>7. CASE you' = 0
      BY <1>1, <2>1, <3>5, <3>7
    <3> QED
      BY <3>1, <3>6, <3>7
  <2> QED
    BY <2>2, <2>3
<1>8. ASSUME phase = "open", NEW i \in 1..Len(replies'), replies'[i].kind \in {"login", "sync"}
      PROVE  replies'[i].number <= health["me"] + Ahead(replies', events, i) + Kept
  <2>1. i \in 0..Len(replies')
    OBVIOUS
  <2>2. replies[i + 1].number <= health["me"] + A(i + 1) + Kept
    BY <1>3, <1>8 DEF Copies
  <2> QED
    BY <1>2, <1>3, <2>1, <2>2
<1>9. Copies'
  BY <1>0, <1>1, <1>7, <1>8 DEF Copies
<1> QED
  BY <1>6, <1>9

\* How an answer moves the queues: it takes the oldest event, or it is about no
\* health, and then only buying tells the player something, a cure.
Queried(m) == events # <<>> /\ m = events[1] /\ Shifted(events, events')
Bought(m) == /\ m.kind = "done" /\ kits' = kits + 1
             /\ \E e : Added(events, events', e) /\ e.kind = "cure" /\ e.number = KitHeal

\* What an answer does to the health, the kits and the events.
LEMMA ServeMoves ==
    ASSUME TypeOK, NEW c, NEW m, Served(c, m)
    PROVE  /\ \/ Queried(m) /\ kits' = kits
              \/ Bought(m) /\ Net(m) = 0
              \/ events' = events /\ kits' = kits /\ Net(m) = 0
           /\ Bought(m) => c.kind = "buy" /\ health'["me"] = health["me"] + KitHeal
           /\ ~Bought(m) =>
                 \/ health' = Entered /\ c.kind \in {"login", "sync", "query-event"}
                 \/ health'["me"] = health["me"] + ResurrectHeal /\ c.kind = "resurrect"
                 \/ health' = health
           /\ m.kind \in {"login", "sync"} => m.number = health'["me"] /\ events' = events
           /\ m.kind = "game-end" => Queried(m)
<1>0. /\ \A k \in {"login", "sync", "none", "battle", "escaped", "done", "refused"} :
            \A n \in Nat : Net(Message(k, "me", n)) = 0
      /\ "me" \in DOMAIN health
  BY DEF TypeOK, Net, DropOf, CureOf, Message, Sides
<1>1. \A k, n : Message(k, "me", n).kind = k /\ Message(k, "me", n).number = n
  BY DEF Message
<1>2. CASE /\ c.kind \in {"login", "sync"}
           /\ m = Message(c.kind, "me", health'["me"])
           /\ health' = Entered
           /\ UNCHANGED <<events, kits>>
  <2>1. Entered["me"] \in Nat
    BY EnteredType, TypeParts
  <2>2. m.kind = c.kind /\ m.number = health'["me"] /\ Net(m) = 0
    BY <1>0, <1>1, <1>2, <2>1
  <2> QED
    BY <1>2, <2>2 DEF Bought
<1>3. CASE /\ c.kind = "query-event" /\ health' = Entered /\ kits' = kits
           /\ events = <<>> /\ m = Command("none") /\ events' = events
  <2>1. m.kind = "none" /\ Net(m) = 0
    BY <1>0, <1>1, <1>3 DEF Command
  <2> QED
    BY <1>3, <2>1 DEF Bought
<1>4. CASE /\ c.kind = "query-event" /\ health' = Entered /\ kits' = kits
           /\ events # <<>> /\ m = events[1] /\ Shifted(events, events')
           /\ m.kind \in EventKinds \ {"none"}
  <2>1. m.kind \notin {"login", "sync", "done"} /\ Queried(m)
    BY <1>4 DEF Queried, EventKinds
  <2> QED
    BY <1>4, <2>1 DEF Bought
<1>5. CASE /\ c.kind = "battle" /\ m = Message("battle", "me", Len(battles))
           /\ UNCHANGED <<health, events, kits>>
  <2>1. Len(battles) \in Nat
    BY LenProperties DEF TypeOK
  <2>2. m.kind = "battle" /\ Net(m) = 0
    BY <1>0, <1>1, <1>5, <2>1
  <2> QED
    BY <1>5, <2>2 DEF Bought
<1>6. CASE /\ c.kind = "escape" /\ m = Message("escaped", "me", c.number)
           /\ UNCHANGED <<health, events, kits>>
  <2>1. m.kind = "escaped" /\ Net(m) = 0
    BY <1>6 DEF Message, Net, DropOf, CureOf
  <2> QED
    BY <1>6, <2>1 DEF Bought
<1>7. CASE /\ c.kind = "resurrect"
           /\ health' = [health EXCEPT !["me"] = @ + ResurrectHeal]
           /\ m = Command("done") /\ UNCHANGED <<events, kits>>
  <2>1. m.kind = "done" /\ Net(m) = 0 /\ health'["me"] = health["me"] + ResurrectHeal
    BY <1>0, <1>1, <1>7 DEF Command
  <2>2. ~Bought(m)
    BY <1>7 DEF Bought, TypeOK
  <2> QED
    BY <1>7, <2>1, <2>2
<1>8. CASE /\ c.kind = "buy" /\ kits' = kits + 1
           /\ health' = [health EXCEPT !["me"] = @ + KitHeal]
           /\ events' = Append(events, Message("cure", "me", KitHeal))
           /\ m = Command("done")
  <2>1. m.kind = "done" /\ Net(m) = 0 /\ health'["me"] = health["me"] + KitHeal
    BY <1>0, <1>1, <1>8 DEF Command
  <2>2. Added(events, events', Message("cure", "me", KitHeal))
    <3>1. Message("cure", "me", KitHeal) \in MessageOf(EventKinds \ {"none"})
      BY HealthAssumption, MessageType DEF EventKinds, Sides
    <3> QED
      BY <1>8, <3>1, TickAdds
  <2>3. Bought(m)
    BY <1>1, <1>8, <2>1, <2>2 DEF Bought
  <2> QED
    BY <1>8, <2>1, <2>3
<1>9. CASE /\ c.kind \in {"battle", "buy"} /\ m = Command("refused")
           /\ UNCHANGED server
  <2>1. m.kind = "refused" /\ Net(m) = 0 /\ UNCHANGED <<health, events, kits>>
    BY <1>0, <1>1, <1>9 DEF Command, server
  <2> QED
    BY <1>9, <2>1 DEF Bought
<1>10. CASE /\ c.kind = "logout" /\ m = Command("done")
            /\ UNCHANGED <<health, events, kits>>
  <2>1. m.kind = "done" /\ Net(m) = 0
    BY <1>0, <1>1, <1>10 DEF Command
  <2>2. ~Bought(m)
    BY <1>10 DEF Bought, TypeOK
  <2> QED
    BY <1>10, <2>1, <2>2
<1> QED
  BY <1>2, <1>3, <1>4, <1>5, <1>6, <1>7, <1>8, <1>9, <1>10 DEF Served

LEMMA CureNet ==
    \A e : e.kind = "cure" /\ e.number = KitHeal => Net(e) = 0 - KitHeal
BY HealthAssumption DEF Net, DropOf, CureOf

\* While the player is in, serving never takes health, and buying adds a kit's.
LEMMA ServeHealth ==
    ASSUME TypeOK, NEW c, NEW m, Served(c, m), present
    PROVE  /\ health'["me"] \in Nat
           /\ Bought(m) => health'["me"] = health["me"] + KitHeal
           /\ health["me"] <= health'["me"]
<1>1. Entered["me"] = health["me"]
  BY DEF Entered, TypeOK, Sides
<1>2. ResurrectHeal \in Nat /\ KitHeal \in Nat /\ health["me"] \in Nat
  BY HealthAssumption, HealthTypes
<1> QED
  BY <1>1, <1>2, ServeMoves

LEMMA BudgetByServe ==
    ASSUME TypeOK, TypeOK', Budget, Serve
    PROVE  Budget'
<1> DEFINE c == requests[1]
<1>1. PICK m \in MessageOf(ReplyKinds) :
        /\ phase = "gone" => Len(replies') = 0
        /\ phase # "gone" => Added(replies, replies', m)
        /\ Served(c, m)
  BY ServeAdds
<1>2. /\ replies \in Replies /\ events \in Events
      /\ Kept \in Nat /\ KitHeal \in Nat /\ Kept' = kits' * KitHeal
      /\ (kits + 1) * KitHeal = Kept + KitHeal
  BY HealthTypes DEF Kept
<1>3. replies' \in Replies /\ events' \in Events
  BY DEF TypeOK, Replies, Events
<1>4. /\ \A i \in 0..Len(events) : After(events, i) \in Int /\ 0 <= After(events, i) + Kept
      /\ \A i \in 0..Len(replies) : /\ Ahead(replies, events, i) \in Int
                                    /\ 0 <= Ahead(replies, events, i) + Kept
      /\ Len(events) \in Nat /\ Len(replies) \in Nat
  BY <1>2, AheadType DEF Budget
<1>5. /\ Len(replies') \in Nat /\ Len(events') \in Nat
      /\ Ahead(replies', events', Len(replies')) = After(events', 0)
  BY <1>3, AheadType
<1>6. ASSUME \A i \in 0..Len(events') : 0 <= After(events', i) + Kept',
             phase # "gone" =>
                \A i \in 0..Len(replies) : 0 <= Ahead(replies', events', i) + Kept'
      PROVE  Budget'
  <2>1. 0 <= Ahead(replies', events', Len(replies')) + Kept'
    <3>1. 0 \in 0..Len(events')
      BY <1>5
    <3> QED
      BY <1>5, <1>6, <3>1
  <2>2. \A i \in 0..Len(replies') : 0 <= Ahead(replies', events', i) + Kept'
    <3>1. CASE phase = "gone"
      <4>1. \A i \in 0..Len(replies') : i = Len(replies')
        BY <1>1, <3>1
      <4> QED
        BY <2>1, <4>1
    <3>2. CASE phase # "gone"
      <4>1. Len(replies') = Len(replies) + 1
        BY <1>1, <3>2 DEF Added
      <4>2. \A i \in 0..Len(replies') : i = Len(replies') \/ i \in 0..Len(replies)
        BY <1>4, <4>1
      <4> QED
        BY <1>6, <2>1, <3>2, <4>2
    <3> QED
      BY <3>1, <3>2
  <2> QED
    BY <1>6, <2>2 DEF Budget
<1>7. CASE Queried(m) /\ kits' = kits
  <2>1. Kept' = Kept /\ m = events[1] /\ Shifted(events, events')
    BY <1>7 DEF Queried, Kept
  <2>2. \A i \in 0..Len(events') : i + 1 \in 0..Len(events) /\ After(events', i) = After(events, i + 1)
    <3>1. \A i \in 0..Len(events') : After(events', i) = After(events, i + 1)
      BY <1>2, <1>3, <2>1, AfterShifted DEF Events
    <3>2. \A i \in 0..Len(events') : i + 1 \in 0..Len(events)
      BY <1>4, <1>5, <2>1 DEF Shifted
    <3> QED
      BY <3>1, <3>2
  <2>3. phase # "gone" => \A i \in 0..Len(replies) :
                             Ahead(replies', events', i) = Ahead(replies, events, i)
    BY <1>1, <1>2, <1>3, <2>1, AheadQueried
  <2>4. \A i \in 0..Len(events') : 0 <= After(events', i) + Kept'
    BY <1>4, <2>1, <2>2
  <2>5. phase # "gone" => \A i \in 0..Len(replies) : 0 <= Ahead(replies', events', i) + Kept'
    BY <1>4, <2>1, <2>3
  <2> QED
    BY <1>6, <2>4, <2>5
<1>8. CASE Bought(m) /\ Net(m) = 0
  <2>1. PICK e : Added(events, events', e) /\ e.kind = "cure" /\ e.number = KitHeal
    BY <1>8 DEF Bought
  <2>2. Net(e) = 0 - KitHeal /\ Kept' = Kept + KitHeal
    BY <1>2, <1>8, <2>1, CureNet DEF Bought
  <2>3. /\ \A i \in 0..Len(replies) : Ahead(replies, events', i) = Ahead(replies, events, i) + Net(e)
        /\ \A i \in 0..Len(events) : After(events', i) = After(events, i) + Net(e)
        /\ Len(events') = Len(events) + 1 /\ After(events', Len(events) + 1) = 0
    BY <1>2, <1>3, <2>1, AheadTold
  <2>4. phase # "gone" => \A i \in 0..Len(replies) :
                             Ahead(replies', events', i) = Ahead(replies, events', i)
    BY <1>1, <1>2, <1>3, <1>8, AheadAnswered
  <2>5. ASSUME NEW i \in 0..Len(events') PROVE 0 <= After(events', i) + Kept'
    <3>1. CASE i \in 0..Len(events)
      <4> DEFINE A == After(events, i)
                 B == After(events', i)
      <4>1. B = A + Net(e)
        BY <2>3, <3>1, Zenon
      <4>2. 0 <= A + Kept
        BY <1>4, <3>1, Zenon
      <4>3. A \in Int /\ Kept \in Int /\ KitHeal \in Int
        BY <1>2, <1>4, <3>1
      <4> SUFFICES 0 <= B + Kept'
        OBVIOUS
      <4> HIDE DEF A, B
      <4> QED
        BY <2>2, <4>1, <4>2, <4>3
    <3>2. CASE i = Len(events) + 1
      BY <1>2, <2>2, <2>3, <3>2
    <3> QED
      BY <1>4, <2>3, <3>1, <3>2
  <2>6. ASSUME phase # "gone", NEW i \in 0..Len(replies)
        PROVE  0 <= Ahead(replies', events', i) + Kept'
    <3> DEFINE A == Ahead(replies, events, i)
               B == Ahead(replies', events', i)
    <3>1. B = A + Net(e)
      <4>1. Ahead(replies, events', i) = A + Net(e)
        BY <2>3, Zenon
      <4>2. B = Ahead(replies, events', i)
        BY <2>4, <2>6, Zenon
      <4> QED
        BY <4>1, <4>2, Zenon
    <3>2. 0 <= A + Kept /\ A \in Int /\ Kept \in Int /\ KitHeal \in Int
      BY <1>2, <1>4, <2>6
    <3> SUFFICES 0 <= B + Kept'
      OBVIOUS
    <3> HIDE DEF A, B
    <3> QED
      BY <2>2, <3>1, <3>2
  <2> QED
    BY <1>6, <2>5, <2>6
<1>9. CASE events' = events /\ kits' = kits /\ Net(m) = 0
  <2>1. Kept' = Kept
    BY <1>9 DEF Kept
  <2>2. phase # "gone" => \A i \in 0..Len(replies) :
                             Ahead(replies', events, i) = Ahead(replies, events, i)
    BY <1>1, <1>2, <1>3, <1>9, AheadAnswered
  <2> QED
    BY <1>4, <1>6, <1>9, <2>1, <2>2
<1> QED
  BY <1>1, <1>7, <1>8, <1>9, ServeMoves

\* While the player is in, an answer gives no reply on its way less room.
LEMMA ServeRoom ==
    ASSUME TypeOK, TypeOK', present, NEW c, NEW m \in MessageOf(ReplyKinds), Served(c, m),
           Added(replies, replies', m)
    PROVE  \A i \in 0..Len(replies) :
              health["me"] + Ahead(replies, events, i) + Kept
                 <= health'["me"] + Ahead(replies', events', i) + Kept'
<1>1. /\ replies \in Replies /\ events \in Events
      /\ Kept \in Nat /\ KitHeal \in Nat /\ Kept' = kits' * KitHeal
      /\ (kits + 1) * KitHeal = Kept + KitHeal /\ health["me"] \in Nat
  BY HealthTypes DEF Kept
<1>2. replies' \in Replies /\ events' \in Events /\ Kept' \in Nat
  BY HealthAssumption, Products DEF TypeOK, Replies, Events, Kept
<1>3. \A i \in 0..Len(replies) : Ahead(replies, events, i) \in Int
  BY <1>1, AheadType
<1>4. /\ health'["me"] \in Nat
      /\ Bought(m) => health'["me"] = health["me"] + KitHeal
      /\ health["me"] <= health'["me"]
  BY ServeHealth
<1>5. CASE Queried(m) /\ kits' = kits
  <2>1. Kept' = Kept /\ m = events[1] /\ Shifted(events, events')
    BY <1>5 DEF Queried, Kept
  <2>2. \A i \in 0..Len(replies) : Ahead(replies', events', i) = Ahead(replies, events, i)
    BY <1>1, <1>2, <2>1, AheadQueried
  <2> QED
    BY <1>1, <1>3, <1>4, <2>1, <2>2
<1>6. CASE Bought(m) /\ Net(m) = 0
  <2>1. PICK e : Added(events, events', e) /\ e.kind = "cure" /\ e.number = KitHeal
    BY <1>6 DEF Bought
  <2>2. Net(e) = 0 - KitHeal /\ Kept' = Kept + KitHeal
    BY <1>1, <1>6, <2>1, CureNet DEF Bought
  <2>3. \A i \in 0..Len(replies) : Ahead(replies, events', i) = Ahead(replies, events, i) + Net(e)
    BY <1>1, <1>2, <2>1, AheadTold
  <2>4. \A i \in 0..Len(replies) : Ahead(replies', events', i) = Ahead(replies, events', i)
    BY <1>1, <1>2, <1>6, AheadAnswered
  <2>5. \A i \in 0..Len(replies) :
           Ahead(replies', events', i) = Ahead(replies, events, i) - KitHeal
    BY <1>1, <1>3, <2>2, <2>3, <2>4
  <2>6. health'["me"] = health["me"] + KitHeal
    BY <1>4, <1>6
  <2>7. ASSUME NEW i \in 0..Len(replies)
        PROVE  health["me"] + Ahead(replies, events, i) + Kept
                  <= health'["me"] + Ahead(replies', events', i) + Kept'
    <3> DEFINE A == Ahead(replies, events, i)
               B == Ahead(replies', events', i)
    <3>1. A \in Int /\ B = A - KitHeal
      BY <1>3, <2>5
    <3> HIDE DEF A, B
    <3> DEFINE h == health["me"]
               g == health'["me"]
    <3>2. h \in Nat /\ g = h + KitHeal
      BY <1>1, <2>6
    <3> HIDE DEF h, g
    <3>3. Kept \in Nat /\ KitHeal \in Nat /\ Kept' = Kept + KitHeal
      BY <1>1, <2>2
    <3>4. h + A + Kept <= g + B + Kept'
      BY <3>1, <3>2, <3>3
    <3> QED
      BY <3>4 DEF A, B, h, g
  <2> QED
    BY <2>7
<1>7. CASE events' = events /\ kits' = kits /\ Net(m) = 0
  <2>1. Kept' = Kept
    BY <1>7 DEF Kept
  <2>2. \A i \in 0..Len(replies) : Ahead(replies', events, i) = Ahead(replies, events, i)
    BY <1>1, <1>2, <1>7, AheadAnswered
  <2> QED
    BY <1>1, <1>3, <1>4, <1>7, <2>1, <2>2
<1> QED
  BY <1>5, <1>6, <1>7, ServeMoves

LEMMA CopiesByServe ==
    ASSUME TypeOK, TypeOK', LoginInv, Copies, Budget', Serve
    PROVE  Copies'
<1> SUFFICES ASSUME phase' = "open" PROVE Copies'
  BY DEF Copies
<1> DEFINE c == requests[1]
           room(i) == health'["me"] + Ahead(replies', events', i) + Kept'
<1>0. requests # <<>> /\ UNCHANGED <<client, phase>> /\ phase = "open"
  BY ServeFrame
<1>1. PICK m \in MessageOf(ReplyKinds) : Added(replies, replies', m) /\ Served(c, m)
  BY <1>0, ServeAdds
<1>2. /\ Len(replies) \in Nat /\ Len(replies') = Len(replies) + 1
      /\ replies'[Len(replies) + 1] = m
      /\ \A i \in 1..Len(replies) : replies'[i] = replies[i]
      /\ Len(requests) \in Nat /\ Len(requests) # 0
  <2>1. Len(replies) \in Nat /\ Len(requests) \in Nat
    BY LengthTypes
  <2>2. Len(requests) # 0
    BY ServeFrame DEF Shifted
  <2> QED
    BY <1>1, <2>1, <2>2, Zenon DEF Added
<1>3. state' = state /\ you' = you /\ (LoggedIn' <=> LoggedIn)
  BY <1>0 DEF client, LoggedIn
<1>4. replies'[Len(replies) + 1].kind \in {"login", "sync"} =>
         replies'[Len(replies) + 1].number <= room(Len(replies) + 1)
  <2>1. Len(replies) + 1 \in 0..Len(replies')
    BY <1>2
  <2>2. 0 <= Ahead(replies', events', Len(replies) + 1) + Kept'
    BY <2>1 DEF Budget
  <2>3. m.kind \in {"login", "sync"} => m.number = health'["me"]
    BY <1>1, ServeMoves
  <2>4. /\ health'["me"] \in Nat /\ Kept' \in Nat
        /\ Ahead(replies', events', Len(replies) + 1) \in Int
    <3>1. /\ health'["me"] \in Nat
          /\ replies' \in Replies /\ events' \in Events /\ kits' \in Nat
      BY DEF TypeOK, Sides, Replies, Events
    <3>2. Kept' \in Nat
      BY <3>1, HealthAssumption, Products DEF Kept
    <3> QED
      BY <2>1, <3>1, <3>2, AheadType
  <2> QED
    BY <1>2, <2>2, <2>3, <2>4
<1>5. CASE LoggedIn
  <2>1. present
    BY <1>0, <1>5 DEF LoginInv
  <2>2. \A i \in 0..Len(replies) : health["me"] + Ahead(replies, events, i) + Kept <= room(i)
    BY <1>1, <2>1, ServeRoom
  <2>3. /\ replies \in Replies /\ events \in Events /\ replies' \in Replies /\ events' \in Events
        /\ health["me"] \in Nat /\ health'["me"] \in Nat /\ Kept \in Nat /\ Kept' \in Nat /\ you \in Nat
        /\ \A i \in 1..Len(replies) : replies[i].number \in Nat
    <3>1. Kept' \in Nat
      BY HealthAssumption, Products DEF TypeOK, Kept
    <3>2. health'["me"] \in Nat /\ replies' \in Replies /\ events' \in Events
      BY DEF TypeOK, Sides, Replies, Events
    <3> QED
      BY <3>1, <3>2, HealthTypes
  <2>4. \A i \in 0..Len(replies) : /\ Ahead(replies, events, i) \in Int
                                   /\ Ahead(replies', events', i) \in Int
    <3>1. \A i \in 0..Len(replies) : i \in 0..Len(replies')
      BY <1>2
    <3> QED
      BY <2>3, <3>1, AheadType
  <2>5. \A i \in 0..Len(replies) : room(i) \in Int
                      /\ health["me"] + Ahead(replies, events, i) + Kept \in Int
    BY <2>3, <2>4
  <2>6. you <= health["me"] + Ahead(replies, events, 0) + Kept
    BY <1>0, <1>5 DEF Copies
  <2>7. \A i \in 1..Len(replies) : replies[i].kind \in {"login", "sync"} =>
           replies[i].number <= health["me"] + Ahead(replies, events, i) + Kept
    BY <1>0 DEF Copies
  <2> DEFINE old(i) == health["me"] + Ahead(replies, events, i) + Kept
  <2>8. /\ you <= old(0)
        /\ \A i \in 1..Len(replies) : replies[i].kind \in {"login", "sync"} => replies[i].number <= old(i)
        /\ \A i \in 0..Len(replies) : old(i) \in Int /\ room(i) \in Int /\ old(i) <= room(i)
    BY <2>2, <2>5, <2>6, <2>7
  <2> HIDE DEF old, room
  <2>9. you <= room(0)
    BY <1>2, <2>3, <2>8
  <2>10. \A i \in 1..Len(replies) : replies[i].kind \in {"login", "sync"} => replies[i].number <= room(i)
    BY <1>2, <2>3, <2>8
  <2>11. \A i \in 1..Len(replies') : replies'[i].kind \in {"login", "sync"} => replies'[i].number <= room(i)
    BY <1>2, <1>4, <2>10
  <2> QED
    BY <1>3, <2>9, <2>11, Zenon DEF Copies, room
<1>6. CASE ~LoggedIn
  <2>1. state = "logging"
    BY <1>2, <1>6 DEF LoggedIn, LoginInv, Nothing
  <2>2. Len(replies) = 0
    BY <1>2, <2>1 DEF LoginInv
  <2>3. \A i \in 1..Len(replies') : i = Len(replies) + 1
    BY <1>2, <2>2
  <2> HIDE DEF room
  <2>4. \A i \in 1..Len(replies') : replies'[i].kind \in {"login", "sync"} => replies'[i].number <= room(i)
    BY <1>4, <2>3
  <2> QED
    BY <1>3, <1>6, <2>4, Zenon DEF Copies, room
<1> QED
  BY <1>5, <1>6

\* What the game tells a player takes from its copy what it took from its health.
LEMMA TickNet ==
    ASSUME TypeOK, NEW e \in MessageOf(EventKinds \ {"none"}), Ticked(e)
    PROVE  Net(e) \in Nat /\ health'["me"] = health["me"] - Net(e)
<1>1. /\ e.number \in Nat /\ e.about \in Sides
      /\ health \in [Sides -> Nat] /\ health["me"] \in Nat /\ "me" \in Sides
  BY DEF MessageOf, TypeOK, Sides
<1>2. CASE /\ e.kind = "health-drop"
           /\ health' = [health EXCEPT ![e.about] = @ - e.number]
  <2>1. CASE e.about = "me"
    <3>1. health'["me"] = health["me"] - e.number
      BY <1>1, <1>2, <2>1
    <3>2. Net(e) = e.number
      BY <1>1, <1>2, <2>1 DEF Net, DropOf, CureOf
    <3> QED
      BY <1>1, <3>1, <3>2
  <2>2. CASE e.about # "me"
    <3>1. health'["me"] = health["me"]
      BY <1>1, <1>2, <2>2
    <3>2. Net(e) = 0
      BY <1>1, <1>2, <2>2 DEF Net, DropOf, CureOf
    <3> QED
      BY <1>1, <3>1, <3>2
  <2> QED
    BY <2>1, <2>2
<1>3. CASE e.kind \in {"game-end", "shown"} /\ health' = health
  BY <1>1, <1>3 DEF Net, DropOf, CureOf
<1> QED
  BY <1>2, <1>3 DEF Ticked

LEMMA HealthByTick ==
    ASSUME TypeOK, TypeOK', Budget, Copies, Tick
    PROVE  Budget' /\ Copies'
<1>0. UNCHANGED <<client, phase, requests, replies, present, kits>>
  BY TickShape
<1>1. /\ replies \in Replies /\ events \in Events /\ replies' \in Replies /\ events' \in Events
      /\ Kept \in Nat /\ Kept' = Kept /\ health["me"] \in Nat /\ you \in Nat
      /\ \A i \in 1..Len(replies) : replies[i].number \in Nat
  BY <1>0, HealthTypes DEF TypeOK, Replies, Events, Kept
<1>2. state' = state /\ you' = you /\ (LoggedIn' <=> LoggedIn)
  BY <1>0 DEF client, LoggedIn
<1>3. /\ \A i \in 0..Len(replies) : Ahead(replies, events, i) \in Int
      /\ \A i \in 0..Len(events) : After(events, i) \in Int
      /\ Len(replies) \in Nat /\ Len(events) \in Nat
  BY <1>1, AheadType
<1>4. /\ \A i \in 0..Len(events) : 0 <= After(events, i) + Kept
      /\ \A i \in 0..Len(replies) : 0 <= Ahead(replies, events, i) + Kept
  BY DEF Budget
<1>5. CASE events' = events /\ health' = [health EXCEPT !["foe"] = @ + ResurrectHeal]
  <2>1. health'["me"] = health["me"]
    BY <1>5 DEF TypeOK, Sides
  <2>2. Budget'
    BY <1>0, <1>1, <1>4, <1>5 DEF Budget
  <2>3. Copies'
    BY <1>0, <1>1, <1>2, <1>5, <2>1 DEF Copies
  <2> QED
    BY <2>2, <2>3
<1>6. CASE \E e \in MessageOf(EventKinds \ {"none"}) : events' = Append(events, e) /\ Ticked(e)
  <2>1. PICK e \in MessageOf(EventKinds \ {"none"}) : Added(events, events', e) /\ Ticked(e)
    BY <1>6, TickAdds
  <2>2. Net(e) \in Nat /\ health'["me"] = health["me"] - Net(e)
    BY <2>1, TickNet
  <2>3. /\ \A i \in 0..Len(replies) : Ahead(replies, events', i) = Ahead(replies, events, i) + Net(e)
        /\ \A i \in 0..Len(events) : After(events', i) = After(events, i) + Net(e)
        /\ Len(events') = Len(events) + 1 /\ After(events', Len(events) + 1) = 0
    BY <1>1, <2>1, AheadTold
  <2>4. Budget'
    <3>1. ASSUME NEW i \in 0..Len(replies) PROVE 0 <= Ahead(replies, events', i) + Kept
      <4> DEFINE A == Ahead(replies, events, i)
                 B == Ahead(replies, events', i)
      <4>1. A \in Int /\ 0 <= A + Kept /\ B = A + Net(e)
        BY <1>3, <1>4, <2>3
      <4> HIDE DEF A, B
      <4>2. 0 <= B + Kept
        BY <1>1, <2>2, <4>1
      <4> QED
        BY <4>2 DEF B
    <3>2. ASSUME NEW i \in 0..Len(events') PROVE 0 <= After(events', i) + Kept
      <4>1. CASE i \in 0..Len(events)
        <5>1. After(events', i) = After(events, i) + Net(e)
          BY <2>3, <4>1
        <5>2. After(events, i) \in Int /\ 0 <= After(events, i) + Kept
          BY <1>3, <1>4, <4>1
        <5> QED
          BY <1>1, <2>2, <5>1, <5>2
      <4>2. CASE i = Len(events) + 1
        BY <1>1, <2>3, <4>2
      <4> QED
        BY <1>3, <2>3, <4>1, <4>2
    <3> QED
      BY <1>0, <1>1, <3>1, <3>2 DEF Budget
  <2>5. \A i \in 0..Len(replies) :
           health'["me"] + Ahead(replies, events', i) + Kept
              = health["me"] + Ahead(replies, events, i) + Kept
    BY <1>1, <1>3, <2>2, <2>3
  <2>6. ASSUME phase = "open", LoggedIn
        PROVE  you <= health'["me"] + Ahead(replies, events', 0) + Kept
    <3>1. you <= health["me"] + Ahead(replies, events, 0) + Kept
      BY <2>6 DEF Copies
    <3>2. 0 \in 0..Len(replies)
      BY <1>3
    <3> QED
      BY <2>5, <3>1, <3>2
  <2>7. ASSUME phase = "open", NEW i \in 1..Len(replies), replies[i].kind \in {"login", "sync"}
        PROVE  replies[i].number <= health'["me"] + Ahead(replies, events', i) + Kept
    <3>1. replies[i].number <= health["me"] + Ahead(replies, events, i) + Kept
      BY <2>7 DEF Copies
    <3>2. i \in 0..Len(replies)
      BY <1>3
    <3> QED
      BY <2>5, <3>1, <3>2
  <2>8. Copies'
    BY <1>0, <1>1, <1>2, <2>6, <2>7 DEF Copies
  <2> QED
    BY <2>4, <2>8
<1> QED
  BY <1>5, <1>6, TickShape

\* A frame sends requests only, and the end of the process needs no copy.
LEMMA HealthByClient ==
    ASSUME TypeOK, TypeOK', LoginInv, Budget, Copies, Frame \/ Close \/ Exit
    PROVE  Budget' /\ Copies'
<1>1. CASE /\ UNCHANGED <<you, replies, server>>
           /\ phase' = "open" => phase = "open" /\ (LoggedIn' => LoggedIn)
  <2>1. health' = health /\ kits' = kits /\ events' = events /\ replies' = replies /\ you' = you
    BY <1>1 DEF server
  <2>2. Kept' = Kept
    BY <2>1 DEF Kept
  <2> QED
    BY <1>1, <2>1, <2>2 DEF Budget, Copies
<1>2. CASE Exit
  <2>1. phase' = "gone" /\ replies' = <<>> /\ UNCHANGED server
    BY <1>2 DEF Exit
  <2>2. Kept' = Kept /\ events' = events
    BY <2>1 DEF Kept, server
  <2>3. replies' \in Replies /\ events' \in Events /\ Len(replies') = 0 /\ Len(events) \in Nat
    BY <2>1, LengthTypes DEF TypeOK, Replies, Events
  <2>4. Ahead(replies', events', 0) = After(events', 0)
    BY <2>3, AheadType
  <2>5. 0 <= Ahead(replies', events', 0) + Kept'
    <3>1. 0 <= After(events, 0) + Kept
      BY <2>3 DEF Budget
    <3> QED
      BY <2>2, <2>4, <3>1
  <2>6. \A i \in 0..Len(replies') : i = 0
    BY <2>3
  <2>7. Budget'
    <3>1. \A i \in 0..Len(replies') : 0 <= Ahead(replies', events', i) + Kept'
      BY <2>5, <2>6, Zenon
    <3>2. \A i \in 0..Len(events') : 0 <= After(events', i) + Kept'
      BY <2>2 DEF Budget
    <3> QED
      BY <3>1, <3>2, Zenon DEF Budget
  <2>8. Copies'
    BY <2>1 DEF Copies
  <2> QED
    BY <2>7, <2>8
<1>3. CASE Frame /\ ~Login
  <2>1. UNCHANGED <<you, phase, replies, server>> /\ phase = "open" /\ LoggedIn
    BY <1>3, FrameShape
  <2> QED
    BY <1>1, <2>1
<1>4. CASE Login
  <2>1. UNCHANGED <<you, phase, replies, server>> /\ phase = "open" /\ ~LoggedIn'
    BY <1>4 DEF Login, LoggedIn
  <2> QED
    BY <1>1, <2>1
<1>5. CASE Close
  <2>1. UNCHANGED <<you, replies, server>> /\ phase' = "closing"
    BY <1>5 DEF Close, client
  <2> QED
    BY <1>1, <2>1
<1> QED
  BY <1>2, <1>3, <1>4, <1>5

----------------------------------------------------------------------------
(***************************************************************************)
(* A player who has lost.                                                  *)
(***************************************************************************)
LEMMA ResurrectsStep ==
    ASSUME TypeOK, ResurrectsCounted, [Next]_vars
    PROVE  ResurrectsCounted'
<1>0. Len(requests) \in Nat /\ heals \in Nat
  BY LengthTypes, HealthTypes
<1>1. CASE Login
  <2>1. Added(requests, requests', Command("login")) /\ UNCHANGED heals
    BY <1>1, LoginAdds
  <2>2. Command("login").kind # "resurrect"
    BY DEF Command, Message
  <2> QED
    BY <1>0, <2>1, <2>2 DEF ResurrectsCounted, Added
<1>2. CASE Frame /\ ~Login
  <2>1. heals' \in {heals, heals + 1}
    BY <1>2, FrameShape
  <2>2. /\ Len(requests') \in Nat /\ Len(requests') >= Len(requests)
        /\ \A i \in 1..Len(requests) : requests'[i] = requests[i]
        /\ \A i \in (Len(requests) + 1)..Len(requests') :
              requests'[i].kind = "sync" \/ ButtonCommand(requests'[i])
    BY <1>2, FrameElements
  <2>3. \A i \in 1..Len(requests') :
           i \in 1..Len(requests) \/ i \in (Len(requests) + 1)..Len(requests')
    BY <1>0, <2>2
  <2>4. ASSUME NEW i \in 1..Len(requests'), requests'[i].kind = "resurrect"
        PROVE  heals' # 0
    <3>1. CASE i \in 1..Len(requests)
      BY <1>0, <2>1, <2>2, <2>4, <3>1 DEF ResurrectsCounted
    <3>2. CASE i \in (Len(requests) + 1)..Len(requests')
      <4>1. heals' = heals + 1
        BY <2>2, <2>4, <3>2 DEF ButtonCommand
      <4> QED
        BY <1>0, <4>1
    <3> QED
      BY <2>3, <3>1, <3>2
  <2> QED
    BY <2>4 DEF ResurrectsCounted
<1>3. CASE Close \/ Exit
  <2>1. CASE /\ requests' = Append(requests, Command("logout"))
             /\ UNCHANGED heals
    <3>1. Command("logout").kind = "logout" /\ Command("logout") \in MessageOf(Commands)
      BY CommandTypes DEF Command, Message, Commands
    <3>2. Added(requests, requests', Command("logout"))
      BY <2>1, <3>1, AppendAdds DEF TypeOK
    <3> QED
      BY <1>0, <2>1, <3>1, <3>2 DEF ResurrectsCounted, Added
  <2>2. CASE /\ UNCHANGED heals
             /\ requests' \in Seq(MessageOf(Commands))
             /\ Len(requests') <= Len(requests)
             /\ \A i \in 1..Len(requests') : requests'[i] = requests[i]
    <3>1. Len(requests') \in Nat
      BY <2>2, LenProperties
    <3>2. \A i \in 1..Len(requests') : i \in 1..Len(requests)
      BY <1>0, <2>2, <3>1
    <3> QED
      BY <2>2, <3>2 DEF ResurrectsCounted
  <2> QED
    BY <1>3, <2>1, <2>2, CloseExitShape
<1>4. CASE Poll
  <2>1. UNCHANGED heals
    BY <1>4, PollShape
  <2>2. CASE requests' = requests
    BY <2>1, <2>2 DEF ResurrectsCounted
  <2>3. CASE /\ Added(requests, requests', Command("query-event"))
             /\ Command("query-event").kind = "query-event"
    BY <1>0, <2>1, <2>3 DEF ResurrectsCounted, Added
  <2> QED
    BY <1>4, <2>2, <2>3, PollAdds
<1>5. CASE Serve
  <2>1. Shifted(requests, requests') /\ UNCHANGED heals
    BY <1>5, ServeFrame
  <2>2. \A i \in 1..Len(requests') : i + 1 \in 1..Len(requests)
    BY <1>0, <2>1 DEF Shifted
  <2>3. \A i \in 1..Len(requests') : requests'[i] = requests[i + 1]
    BY <2>1 DEF Shifted
  <2> QED
    BY <2>1, <2>2, <2>3, Zenon DEF ResurrectsCounted
<1>6. CASE Tick
  <2>1. requests' = requests /\ heals' \in {heals, heals + 1}
    BY <1>6, TickShape DEF Ticked
  <2> QED
    BY <1>0, <2>1 DEF ResurrectsCounted
<1>7. CASE UNCHANGED vars
  BY <1>7 DEF vars, ResurrectsCounted
<1> QED
  BY <1>1, <1>2, <1>3, <1>4, <1>5, <1>6, <1>7, NextCases

LEMMA DeadByClient ==
    ASSUME TypeOK, StaysDead, Frame \/ Close \/ Exit
    PROVE  StaysDead'
<1> SUFFICES ASSUME phase' = "open", heals' = 0 PROVE StaysDead'
  BY DEF StaysDead
<1>1. UNCHANGED <<replies, server>> /\ phase = "open" /\ heals' \in {heals, heals + 1}
  <2>1. CASE Login
    BY <2>1 DEF Login
  <2>2. CASE Frame /\ ~Login
    BY <2>2, FrameShape
  <2>3. CASE Close
    BY <2>3 DEF Close
  <2>4. CASE Exit
    BY <2>4 DEF Exit
  <2> QED
    BY <2>1, <2>2, <2>3, <2>4
<1>2. heals = 0
  BY <1>1, HealthTypes
<1>3. health' = health /\ kits' = kits /\ events' = events /\ replies' = replies
  BY <1>1 DEF server
<1> QED
  BY <1>1, <1>2, <1>3 DEF StaysDead

LEMMA DeadByPoll ==
    ASSUME TypeOK, TypeOK', StaysDead, Poll
    PROVE  StaysDead'
<1>1. /\ Shifted(replies, replies')
      /\ UNCHANGED <<phase, health, kits, events, heals>>
      /\ Len(replies) \in Nat
  BY PollShape, LengthTypes DEF server
<1>2. replies \in Replies /\ events \in Events /\ replies' \in Replies
  BY HealthTypes DEF TypeOK, Replies
<1>3. \A i \in 0..Len(replies') : /\ i + 1 \in 0..Len(replies)
                                  /\ Ahead(replies', events, i) = Ahead(replies, events, i + 1)
  BY <1>1, <1>2, AheadPolled
<1>4. \A i \in 1..Len(replies') : /\ replies'[i] = replies[i + 1] /\ i + 1 \in 1..Len(replies)
                                  /\ i \in 0..Len(replies')
  BY <1>1 DEF Shifted
<1>5. ASSUME phase = "open", kits = 0, heals = 0, NEW i \in 1..Len(replies'), Lost(replies'[i])
      PROVE  health["me"] + Ahead(replies', events, i) <= 0
  <2>1. health["me"] + Ahead(replies, events, i + 1) <= 0
    BY <1>4, <1>5 DEF StaysDead
  <2> QED
    BY <1>3, <1>4, <2>1
<1> QED
  BY <1>1, <1>5 DEF StaysDead

\* Nothing that is served heals the dead when nothing is bought or resurrected.
LEMMA DeadByServe ==
    ASSUME TypeOK, TypeOK', LoginInv, ResurrectsCounted, StaysDead, Serve
    PROVE  StaysDead'
<1> SUFFICES ASSUME phase' = "open", kits' = 0, heals' = 0 PROVE StaysDead'
  BY DEF StaysDead
<1> DEFINE c == requests[1]
<1>0. requests # <<>> /\ UNCHANGED <<client, phase, heals>> /\ phase = "open" /\ heals = 0
  BY ServeFrame
<1>1. PICK m \in MessageOf(ReplyKinds) : Added(replies, replies', m) /\ Served(c, m)
  BY <1>0, ServeAdds
<1>2. /\ Len(replies) \in Nat /\ Len(events) \in Nat /\ Len(replies') = Len(replies) + 1
      /\ replies'[Len(replies) + 1] = m
      /\ \A i \in 1..Len(replies) : replies'[i] = replies[i]
      /\ Len(requests) \in Nat /\ 1 \in 1..Len(requests)
  <2>1. Len(replies) \in Nat /\ Len(requests) \in Nat /\ Len(events) \in Nat
    BY LengthTypes
  <2>2. Len(requests) # 0
    BY ServeFrame DEF Shifted
  <2>3. 1 \in 1..Len(requests)
    BY <2>1, <2>2
  <2> QED
    BY <1>1, <2>1, <2>3, Zenon DEF Added
<1>3. ~Bought(m)
  BY HealthTypes DEF Bought
<1>4. c.kind # "resurrect"
  BY <1>0, <1>2 DEF ResurrectsCounted
<1>5. /\ \/ Queried(m) /\ kits' = kits
         \/ events' = events /\ kits' = kits /\ Net(m) = 0
      /\ health' = Entered \/ health' = health
      /\ m.kind = "game-end" => Queried(m)
  BY <1>1, <1>3, <1>4, ServeMoves
<1>6. kits = 0
  BY <1>5
<1>7. CASE present
  <2>1. health'["me"] = health["me"]
    BY <1>5, <1>7 DEF Entered, TypeOK, Sides
  <2>2. /\ replies \in Replies /\ events \in Events /\ replies' \in Replies /\ events' \in Events
    BY HealthTypes DEF TypeOK, Replies, Events
  <2>3. /\ \A i \in 1..Len(replies) :
              Lost(replies[i]) => health["me"] + Ahead(replies, events, i) <= 0
        /\ \A i \in 1..Len(events) :
              Lost(events[i]) => health["me"] + After(events, i) <= 0
    BY <1>0, <1>6 DEF StaysDead
  <2>4. Len(events') \in Nat /\ Ahead(replies', events', Len(replies) + 1) = After(events', 0)
    BY <1>2, <2>2, AheadType
  <2>5. CASE Queried(m)
    <3>1. m = events[1] /\ Shifted(events, events')
      BY <2>5 DEF Queried
    <3>2. /\ \A i \in 0..Len(replies) : Ahead(replies', events', i) = Ahead(replies, events, i)
          /\ \A i \in 0..Len(events') : /\ i + 1 \in 0..Len(events)
                                        /\ After(events', i) = After(events, i + 1)
      BY <1>1, <2>2, <3>1, AheadQueried
    <3>3. /\ \A i \in 1..Len(events') : /\ events'[i] = events[i + 1]
                                        /\ i + 1 \in 1..Len(events) /\ i \in 0..Len(events')
          /\ 0 \in 0..Len(events') /\ 1 \in 1..Len(events)
      BY <1>2, <2>4, <3>1 DEF Shifted
    <3>4. ASSUME NEW i \in 1..Len(events'), Lost(events'[i])
          PROVE  health'["me"] + After(events', i) <= 0
      <4>1. health["me"] + After(events, i + 1) <= 0
        BY <2>3, <3>3, <3>4
      <4> QED
        BY <2>1, <3>2, <3>3, <4>1
    <3>5. ASSUME NEW i \in 1..Len(replies'), Lost(replies'[i])
          PROVE  health'["me"] + Ahead(replies', events', i) <= 0
      <4>1. CASE i \in 1..Len(replies)
        <5>1. health["me"] + Ahead(replies, events, i) <= 0 /\ i \in 0..Len(replies)
          BY <1>2, <2>3, <3>5, <4>1
        <5> QED
          BY <2>1, <3>2, <5>1
      <4>2. CASE i = Len(replies) + 1
        <5>1. health["me"] + After(events, 1) <= 0
          BY <1>2, <2>3, <3>1, <3>3, <3>5, <4>2
        <5>2. After(events', 0) = After(events, 0 + 1)
          BY <3>2, <3>3
        <5> QED
          BY <2>1, <2>4, <4>2, <5>1, <5>2
      <4> QED
        BY <1>2, <4>1, <4>2
    <3> QED
      BY <3>4, <3>5 DEF StaysDead
  <2>6. CASE ~Queried(m)
    <3>1. events' = events /\ Net(m) = 0 /\ m.kind # "game-end"
      BY <1>5, <2>6
    <3>2. \A i \in 0..Len(replies) : Ahead(replies', events, i) = Ahead(replies, events, i)
      BY <1>1, <2>2, <3>1, AheadAnswered
    <3>3. ASSUME NEW i \in 1..Len(replies'), Lost(replies'[i])
          PROVE  health'["me"] + Ahead(replies', events', i) <= 0
      <4>1. i \in 1..Len(replies)
        BY <1>2, <3>1, <3>3 DEF Lost
      <4>2. health["me"] + Ahead(replies, events, i) <= 0 /\ i \in 0..Len(replies)
        BY <1>2, <2>3, <3>3, <4>1
      <4> QED
        BY <2>1, <3>1, <3>2, <4>2
    <3> QED
      BY <2>1, <2>3, <3>1, <3>3 DEF StaysDead
  <2> QED
    BY <2>5, <2>6
<1>8. CASE ~present
  <2>1. state = "logging" /\ Len(events) = 0 /\ Len(replies) = 0
    <3>1. ~LoggedIn
      BY <1>0, <1>8 DEF LoginInv
    <3> QED
      BY <1>2, <1>8, <3>1 DEF LoggedIn, LoginInv, Nothing
  <2>2. ~Queried(m)
    BY <2>1, HealthTypes DEF Queried, Shifted, Events
  <2>3. events' = events /\ m.kind # "game-end"
    BY <1>5, <2>2
  <2>4. \A i \in 1..Len(replies') : replies'[i] = m
    BY <1>2, <2>1
  <2>5. \A i \in 1..Len(replies') : ~Lost(replies'[i])
    BY <2>3, <2>4 DEF Lost
  <2>6. \A i \in 1..Len(events') : FALSE
    BY <2>1, <2>3
  <2> QED
    BY <2>5, <2>6 DEF StaysDead
<1> QED
  BY <1>7, <1>8

LEMMA DeadByTick ==
    ASSUME TypeOK, TypeOK', StaysDead, Tick
    PROVE  StaysDead'
<1> SUFFICES ASSUME phase' = "open", kits' = 0, heals' = 0 PROVE StaysDead'
  BY DEF StaysDead
<1>0. UNCHANGED <<phase, replies, kits>> /\ heals \in Nat /\ phase = "open" /\ kits = 0
  BY TickShape, HealthTypes
<1>1. PICK e \in MessageOf(EventKinds \ {"none"}) : Added(events, events', e) /\ Ticked(e)
  <2>1. heals' # heals + 1
    BY <1>0
  <2> QED
    BY <2>1, TickShape, TickAdds
<1>2. heals = 0
  BY <1>1 DEF Ticked
<1>3. /\ replies \in Replies /\ events \in Events /\ events' \in Events
      /\ health["me"] \in Nat
  BY HealthTypes DEF TypeOK, Events
<1>4. Net(e) \in Nat /\ health'["me"] = health["me"] - Net(e)
  BY <1>1, TickNet
<1>5. /\ \A i \in 0..Len(replies) : Ahead(replies, events', i) = Ahead(replies, events, i) + Net(e)
      /\ \A i \in 0..Len(events) : After(events', i) = After(events, i) + Net(e)
      /\ Len(events') = Len(events) + 1 /\ After(events', Len(events) + 1) = 0
      /\ events'[Len(events) + 1] = e /\ \A i \in 1..Len(events) : events'[i] = events[i]
  BY <1>1, <1>3, AheadTold DEF Added
<1>6. /\ \A i \in 0..Len(replies) : Ahead(replies, events, i) \in Int
      /\ \A i \in 0..Len(events) : After(events, i) \in Int
      /\ Len(replies) \in Nat /\ Len(events) \in Nat
  BY <1>3, AheadType
<1>7. ASSUME NEW i \in 1..Len(replies), Lost(replies[i])
      PROVE  health'["me"] + Ahead(replies, events', i) <= 0
  <2>1. health["me"] + Ahead(replies, events, i) <= 0 /\ i \in 0..Len(replies)
    BY <1>0, <1>2, <1>6, <1>7 DEF StaysDead
  <2> QED
    BY <1>3, <1>4, <1>5, <1>6, <2>1
<1>8. ASSUME NEW i \in 1..Len(events'), Lost(events'[i])
      PROVE  health'["me"] + After(events', i) <= 0
  <2>1. CASE i \in 1..Len(events)
    <3>1. health["me"] + After(events, i) <= 0 /\ i \in 0..Len(events)
      BY <1>0, <1>2, <1>5, <1>6, <1>8, <2>1 DEF StaysDead
    <3> QED
      BY <1>3, <1>4, <1>5, <1>6, <3>1
  <2>2. CASE i = Len(events) + 1
    <3>1. health["me"] = 0 /\ health' = health
      BY <1>1, <1>5, <1>8, <2>2 DEF Lost, Ticked
    <3> QED
      BY <1>5, <2>2, <3>1
  <2> QED
    BY <1>5, <1>6, <2>1, <2>2
<1> QED
  BY <1>0, <1>7, <1>8 DEF StaysDead

LEMMA HealthInit == Init => HealthInv
<1> SUFFICES ASSUME Init PROVE HealthInv
  OBVIOUS
<1>1. TypeOK
  BY InitType
<1>2. replies \in Replies /\ events \in Events /\ Kept \in Nat
  BY <1>1, HealthTypes
<1>3. Len(replies) = 0 /\ Len(events) = 0 /\ Len(requests) = 0 /\ ~LoggedIn
  BY DEF Init, LoggedIn
<1>4. /\ \A i \in 0..Len(replies) : i = 0
      /\ \A i \in 0..Len(events) : i = 0
  BY <1>3
<1>5. After(events, 0) = 0 /\ Ahead(replies, events, 0) = 0
  BY <1>2, <1>3, AheadType
<1>6. Budget
  BY <1>2, <1>4, <1>5 DEF Budget
<1>7. Copies /\ ResurrectsCounted /\ StaysDead
  BY <1>3 DEF Copies, ResurrectsCounted, StaysDead
<1> QED
  BY <1>6, <1>7 DEF HealthInv

LEMMA HealthStep ==
    ASSUME TypeOK, TypeOK', LoginInv, HealthInv, [Next]_vars
    PROVE  HealthInv'
<1>1. Budget /\ Copies /\ ResurrectsCounted /\ StaysDead
  BY DEF HealthInv
<1>2. ResurrectsCounted'
  BY <1>1, ResurrectsStep
<1>3. CASE Frame \/ Close \/ Exit
  BY <1>1, <1>2, <1>3, HealthByClient, DeadByClient DEF HealthInv
<1>4. CASE Poll
  BY <1>1, <1>2, <1>4, HealthByPoll, DeadByPoll DEF HealthInv
<1>5. CASE Serve
  <2>1. Budget'
    BY <1>1, <1>5, BudgetByServe
  <2>2. Copies' /\ StaysDead'
    BY <1>1, <1>5, <2>1, CopiesByServe, DeadByServe
  <2> QED
    BY <1>2, <2>1, <2>2 DEF HealthInv
<1>6. CASE Tick
  BY <1>1, <1>2, <1>6, HealthByTick, DeadByTick DEF HealthInv
<1>7. CASE UNCHANGED vars
  <2>1. UNCHANGED <<phase, state, you, health, kits, heals, requests, replies, events>>
    BY <1>7 DEF vars, client, server
  <2>2. Kept' = Kept /\ (LoggedIn' <=> LoggedIn)
    BY <2>1 DEF Kept, LoggedIn
  <2>3. Budget' /\ Copies' /\ StaysDead'
    BY <1>1, <2>1, <2>2 DEF Budget, Copies, StaysDead
  <2> QED
    BY <1>2, <2>3 DEF HealthInv
<1> QED
  BY <1>3, <1>4, <1>5, <1>6, <1>7, NextCases

\* The invariant from which both theorems below follow.
LEMMA HealthInvariant == Spec => []HealthInv
<1>1. HealthInv /\ (TypeOK /\ LoginInv) /\ (TypeOK /\ LoginInv)' /\ [Next]_vars => HealthInv'
  BY HealthStep
<1>2. ClientInv => TypeOK /\ LoginInv
  BY DEF ClientInv
<1> QED
  BY HealthInit, ClientInvariant, <1>1, <1>2, PTL DEF Spec

\* The copy of the health that the client shows, and decides by, exceeds the
\* server's only by drops on their way and by what kits have healed, although a
\* sync overtakes the events it already includes (sync and process_event).
THEOREM CopyNeverTooHealthy == Spec => []NeverTooHealthy
<1>1. TypeOK /\ HealthInv => NeverTooHealthy
  <2> SUFFICES ASSUME TypeOK, HealthInv, LoggedIn, phase = "open"
               PROVE  you <= health["me"] + Drops(replies) + Drops(events) + kits * KitHeal
    BY DEF NeverTooHealthy
  <2>1. you <= health["me"] + Ahead(replies, events, 0) + Kept
    BY DEF HealthInv, Copies
  <2>2. /\ replies \in Replies /\ events \in Events
        /\ Kept \in Nat /\ health["me"] \in Nat /\ you \in Nat
    BY HealthTypes
  <2>3. /\ After(replies, 0) <= Drops(replies) /\ Drops(replies) \in Int
        /\ After(events, 0) <= Drops(events) /\ Drops(events) \in Int
    BY <2>2, AfterBelowDrops DEF Replies, Events
  <2>4. After(replies, 0) \in Int /\ After(events, 0) \in Int
    <3>1. 0 \in 0..Len(replies) /\ 0 \in 0..Len(events)
      BY <2>2, LenProperties DEF Replies, Events
    <3> QED
      BY <2>2, <3>1, AfterLast DEF Replies, Events
  <2>5. you <= health["me"] + Drops(replies) + Drops(events) + Kept
    BY <2>1, <2>2, <2>3, <2>4 DEF Ahead
  <2> QED
    BY <2>5 DEF Kept
<1> QED
  BY TypeCorrect, HealthInvariant, <1>1, PTL

\* Whoever was dead when its battle ended has an empty copy when the game-end
\* arrives, so the verdict the client draws from the copy is right, as long as
\* nothing was bought and nobody was resurrected.
THEOREM LosersAreTold == Spec => []LoserIsTold
<1>1. ClientInv /\ HealthInv => LoserIsTold
  <2> SUFFICES ASSUME ClientInv, HealthInv, phase = "open", kits = 0, heals = 0,
                      replies # <<>>, Head(replies).kind = "game-end",
                      Head(replies).about = "me"
               PROVE  you = 0
    BY DEF LoserIsTold
  <2>0. TypeOK /\ LoginInv
    BY DEF ClientInv
  <2>1. /\ replies \in Replies /\ events \in Events /\ health["me"] \in Nat /\ you \in Nat
        /\ Kept = 0
    BY <2>0, HealthTypes, HealthAssumption DEF Kept
  <2>2. /\ Tail(replies) \in Replies /\ Shifted(replies, Tail(replies))
        /\ Head(replies) = replies[1]
    BY <2>1, TailShifts DEF Replies
  <2>3. /\ Len(replies) \in Nat /\ 1 \in 1..Len(replies) /\ 1 \in 0..Len(replies)
    BY <2>1, LenProperties DEF Replies
  <2>4. LoggedIn
    <3>1. state = "unlogged_in" => Len(replies) = 0
      BY <2>0 DEF LoginInv, Nothing
    <3>2. state = "logging" => replies[1].kind = "login"
      BY <2>0, <2>3 DEF LoginInv, All
    <3> QED
      BY <2>2, <2>3, <3>1, <3>2 DEF LoggedIn
  <2>5. Ahead(replies, events, 0) = Ahead(replies, events, 1) + Net(replies[1])
    BY <2>1, <2>2, AheadPolled
  <2>6. Net(replies[1]) = 0
    BY <2>2 DEF Net, DropOf, CureOf
  <2>7. health["me"] + Ahead(replies, events, 1) <= 0
    BY <2>2, <2>3 DEF HealthInv, StaysDead, Lost
  <2>8. you <= health["me"] + Ahead(replies, events, 0) + Kept
    BY <2>4 DEF HealthInv, Copies
  <2>9. Ahead(replies, events, 1) \in Int
    BY <2>1, <2>3, AheadType
  <2> QED
    BY <2>1, <2>5, <2>6, <2>7, <2>8, <2>9
<1> QED
  BY ClientInvariant, HealthInvariant, <1>1, PTL
=============================================================================
