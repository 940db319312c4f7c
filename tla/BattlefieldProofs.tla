-------------------------- MODULE BattlefieldProofs --------------------------
(***************************************************************************)
(* Proofs about Battlefield, for every map, every granularity of movement  *)
(* and every speed of the main loop.                                       *)
(***************************************************************************)
EXTENDS Battlefield, SequenceTheorems, TLAPS

\* A coordinate inside the map lies in one of its cells.
LEMMA CellInMap ==
    ASSUME NEW s \in Nat \ {0}, NEW u \in Nat \ {0}, NEW x \in Nat, x < s * u
    PROVE  x \div u \in 0..(s - 1)
  <1> DEFINE q == x \div u
  <1> DEFINE r == x % u
  <1>1. q \in Int /\ r \in 0..(u - 1) /\ x = u * q + r
    OBVIOUS
  <1> HIDE DEF q, r
  <1>2. q >= 0
    <2>1. SUFFICES ASSUME q <= -1 PROVE FALSE
      BY <1>1
    <2>2. u * q <= u * (-1)
      BY <1>1, <2>1
    <2> QED
      BY <1>1, <2>2
  <1>3. q < s
    <2>1. SUFFICES ASSUME q >= s PROVE FALSE
      BY <1>1
    <2>2. u * q >= u * s
      BY <1>1, <2>1
    <2> QED
      BY <1>1, <2>2
  <1> QED
    BY <1>1, <1>2, <1>3 DEF q

\* The larger of two coordinates lies in the later cell.
LEMMA CellsInOrder ==
    ASSUME NEW u \in Nat \ {0}, NEW x \in Nat, NEW y \in Nat, x <= y
    PROVE  x \div u <= y \div u
  <1> DEFINE q == x \div u
  <1> DEFINE p == y \div u
  <1>1. q \in Int /\ x % u \in 0..(u - 1) /\ x = u * q + (x % u)
    OBVIOUS
  <1>2. p \in Int /\ y % u \in 0..(u - 1) /\ y = u * p + (y % u)
    OBVIOUS
  <1> HIDE DEF q, p
  <1>3. SUFFICES ASSUME p + 1 <= q PROVE FALSE
    BY <1>1, <1>2 DEF q, p
  <1>4. u * (p + 1) <= u * q
    BY <1>1, <1>2, <1>3
  <1> QED
    BY <1>1, <1>2, <1>4

----------------------------------------------------------------------------
(***************************************************************************)
(* The inductive invariant.                                                *)
(***************************************************************************)
OnMap == \A n \in DOMAIN position : \A a \in Axes : position[n][a] < Size[a] * Unit

\* Where a player is heading that no client that has ended sends anywhere: it
\* stands, unless its client holds a key or has a move on its way, and when no key
\* is held the last of these moves will stop it.
SteeredFor(n) ==
    /\ n \notin playing => requests[n] = <<>>
    /\ n \in playing /\ down[n] = {} /\ requests[n] # <<>> =>
          requests[n][Len(requests[n])].dir = Still
    /\ /\ n \in DOMAIN position /\ n \notin inherited /\ requests[n] = <<>>
       /\ n \in playing => down[n] = {}
       => direction[n] = Still

IInv == TypeOK /\ OnMap /\ \A n \in Names : SteeredFor(n)

LEMMA StepsAreDirections ==
    /\ Still \in Steps
    /\ \A key \in Keys : DirectionOf(key) \in Steps
    /\ \A dir \in Steps, a \in Axes : dir[a] \in -1..1
  BY DEF Steps, Still, Keys, DirectionOf, Axes

LEMMA SizePositive ==
    \A a \in Axes : /\ Size[a] \in Nat \ {0}
                    /\ Size[a] * Unit \in Nat
                    /\ (Size[a] - 1) * Unit \in Nat
                    /\ (Size[a] - 1) * Unit < Size[a] * Unit
  <1>1. SUFFICES ASSUME NEW a \in Axes
                 PROVE  /\ Size[a] \in Nat \ {0}
                        /\ Size[a] * Unit \in Nat
                        /\ (Size[a] - 1) * Unit \in Nat
                        /\ (Size[a] - 1) * Unit < Size[a] * Unit
    OBVIOUS
  <1>2. Size[a] \in Nat \ {0} /\ Unit \in Nat \ {0}
    BY MapAssumption DEF Axes, Size
  <1>3. ASSUME NEW s \in Nat \ {0}, NEW u \in Nat \ {0}
        PROVE  s * u \in Nat /\ (s - 1) * u \in Nat /\ (s - 1) * u < s * u
    <2>1. (s - 1) * u = s * u - u
      OBVIOUS
    <2>2. s * u \in Nat /\ (s - 1) * u \in Nat
      OBVIOUS
    <2> QED
      BY <2>1, <2>2
  <1> QED
    BY <1>2, <1>3

\* Whatever coordinate the movement arrives at, the corrected one is on the map.
LEMMA RevisedOK ==
    ASSUME NEW a \in Axes, NEW q \in Int
    PROVE  Revised(a, q) \in Nat /\ Revised(a, q) < Size[a] * Unit
  <1>1. 0 < Size[a] * Unit
    BY SizePositive
  <1> QED
    BY <1>1, SizePositive DEF Revised

LEMMA DoMoveOK ==
    ASSUME NEW p \in [Axes -> Nat], NEW dir \in Steps, NEW delta \in Nat
    PROVE  /\ DoMove(p, dir, delta) \in [Axes -> Nat]
           /\ \A a \in Axes : DoMove(p, dir, delta)[a] < Size[a] * Unit
  <1>1. \A a \in Axes : p[a] + delta * dir[a] \in Int
    <2>1. \A a \in Axes : p[a] \in Nat /\ dir[a] \in Int
      BY StepsAreDirections
    <2> QED
      BY <2>1
  <1> QED
    BY <1>1, RevisedOK DEF DoMove

----------------------------------------------------------------------------
LEMMA InitEstablishes == Init => IInv
  <1> SUFFICES ASSUME Init PROVE IInv
    OBVIOUS
  <1>1. DOMAIN position = {} /\ DOMAIN direction = {}
    BY DEF Init
  <1>2. TypeOK
    BY <1>1 DEF Init, TypeOK
  <1>3. ASSUME NEW n \in Names PROVE SteeredFor(n)
    BY <1>1, <1>3 DEF Init, SteeredFor
  <1> QED
    BY <1>1, <1>2, <1>3 DEF IInv, OnMap

\* The shape of a queue after something is added at its end, or taken from its front.
LEMMA Appended ==
    ASSUME NEW S, NEW s \in Seq(S), NEW e \in S, NEW t, t = Append(s, e)
    PROVE  t \in Seq(S) /\ t # <<>> /\ t[Len(t)] = e
  <1>1. t \in Seq(S) /\ Len(s) \in Nat /\ Len(t) = Len(s) + 1
    OBVIOUS
  <1>2. t # <<>>
    BY <1>1
  <1>3. t[Len(s) + 1] = e
    OBVIOUS
  <1> QED
    BY <1>1, <1>2, <1>3

LEMMA EmptyIsZero ==
    ASSUME NEW S, NEW s \in Seq(S)
    PROVE  s = <<>> <=> Len(s) = 0
  OBVIOUS

LEMMA Taken ==
    ASSUME NEW S, NEW s \in Seq(S), s # <<>>, NEW t, t = Tail(s)
    PROVE  /\ t \in Seq(S) /\ Head(s) \in S
           /\ t = <<>> => Head(s) = s[Len(s)]
           /\ t # <<>> => t[Len(t)] = s[Len(s)]
  <1>1. Len(s) \in Nat /\ Len(s) >= 1 /\ Head(s) = s[1] /\ s[1] \in S
    OBVIOUS
  <1>2. t \in Seq(S) /\ Len(t) = Len(s) - 1
    OBVIOUS
  <1>3. \A i \in 1..Len(t) : t[i] = s[i + 1]
    BY <1>1, <1>2
  <1>4. t = <<>> <=> Len(t) = 0
    BY <1>2, EmptyIsZero, Zenon
  <1>5. ASSUME t # <<>> PROVE t[Len(t)] = s[Len(s)]
    <2>1. Len(t) \in 1..Len(t) /\ Len(t) + 1 = Len(s)
      BY <1>1, <1>2, <1>4, <1>5
    <2> QED
      BY <1>3, <2>1
  <1>6. ASSUME t = <<>> PROVE Head(s) = s[Len(s)]
    BY <1>1, <1>2, <1>4, <1>6
  <1> QED
    BY <1>1, <1>2, <1>5, <1>6

LEMMA ExceptTyped ==
    ASSUME NEW D, NEW S, NEW f \in [D -> S], NEW d \in D, NEW e \in S
    PROVE  /\ [f EXCEPT ![d] = e] \in [D -> S]
           /\ [f EXCEPT ![d] = e][d] = e
           /\ \A x \in D : x # d => [f EXCEPT ![d] = e][x] = f[x]
  OBVIOUS

\* What a client sends is added behind what it sent before.
LEMMA SendAppends ==
    ASSUME TypeOK, NEW n \in Names, NEW r \in Requests, Send(n, r)
    PROVE  /\ requests' \in [Names -> Seq(Requests)]
           /\ \A m \in Names : m # n => requests'[m] = requests[m]
           /\ requests'[n] # <<>> /\ requests'[n][Len(requests'[n])] = r
  <1> DEFINE s == requests[n]
             t == Append(s, r)
  <1>1. requests \in [Names -> Seq(Requests)] /\ requests' = [requests EXCEPT ![n] = t]
    BY DEF TypeOK, Send
  <1>2. s \in Seq(Requests)
    BY <1>1
  <1> HIDE DEF s
  <1>3. t \in Seq(Requests) /\ t # <<>> /\ t[Len(t)] = r
    BY <1>2, Appended
  <1> HIDE DEF t
  <1>4. /\ requests' \in [Names -> Seq(Requests)] /\ requests'[n] = t
        /\ \A m \in Names : m # n => requests'[m] = requests[m]
    BY <1>1, <1>3, ExceptTyped, Zenon
  <1> QED
    BY <1>3, <1>4, Zenon

\* What arrives first leaves the last one at its end.
LEMMA ArrivesTakes ==
    ASSUME TypeOK, NEW n \in Names, NEW r, Arrives(n, r)
    PROVE  /\ requests' \in [Names -> Seq(Requests)] /\ r \in Requests
           /\ \A m \in Names : m # n => requests'[m] = requests[m]
           /\ requests[n] # <<>>
           /\ requests'[n] = <<>> => r = requests[n][Len(requests[n])]
           /\ requests'[n] # <<>> =>
                 requests'[n][Len(requests'[n])] = requests[n][Len(requests[n])]
           /\ stale' = stale /\ inherited' = inherited \ {n}
  <1> DEFINE s == requests[n]
             t == Tail(s)
  <1>1. /\ requests \in [Names -> Seq(Requests)] /\ requests' = [requests EXCEPT ![n] = t]
        /\ s # <<>> /\ r = Head(s) /\ stale' = stale /\ inherited' = inherited \ {n}
    BY DEF TypeOK, Arrives
  <1>2. s \in Seq(Requests)
    BY <1>1
  <1> HIDE DEF s
  <1>3. /\ t \in Seq(Requests) /\ Head(s) \in Requests
        /\ t = <<>> => Head(s) = s[Len(s)]
        /\ t # <<>> => t[Len(t)] = s[Len(s)]
    BY <1>1, <1>2, Taken
  <1> HIDE DEF t
  <1>4. /\ requests' \in [Names -> Seq(Requests)] /\ requests'[n] = t
        /\ \A m \in Names : m # n => requests'[m] = requests[m]
    BY <1>1, <1>3, ExceptTyped, Zenon
  <1> QED
    BY <1>1, <1>3, <1>4, Zenon DEF s

LEMMA ArrivesLateTakes ==
    ASSUME TypeOK, NEW n \in Names, NEW r, ArrivesLate(n, r)
    PROVE  /\ stale' \in [Names -> Seq(Requests)] /\ r \in Requests
           /\ requests' = requests /\ inherited' = inherited \cup {n}
  <1> DEFINE s == stale[n]
             t == Tail(s)
  <1>1. /\ stale \in [Names -> Seq(Requests)] /\ stale' = [stale EXCEPT ![n] = t]
        /\ s # <<>> /\ r = Head(s) /\ requests' = requests
        /\ inherited' = inherited \cup {n}
    BY DEF TypeOK, ArrivesLate
  <1>2. s \in Seq(Requests)
    BY <1>1
  <1> HIDE DEF s
  <1>3. t \in Seq(Requests) /\ Head(s) \in Requests
    BY <1>1, <1>2, Taken
  <1> HIDE DEF t
  <1>4. stale' \in [Names -> Seq(Requests)]
    BY <1>1, <1>3, ExceptTyped, Zenon
  <1> QED
    BY <1>1, <1>3, <1>4, Zenon

\* A step that concerns other names only.
LEMMA SteeredKept ==
    ASSUME NEW m \in Names, SteeredFor(m),
           m \in playing' <=> m \in playing,
           m \in DOMAIN position' <=> m \in DOMAIN position,
           m \in inherited' <=> m \in inherited,
           m \in DOMAIN position => direction'[m] = direction[m],
           requests'[m] = requests[m], down'[m] = down[m]
    PROVE  SteeredFor(m)'
  BY DEF SteeredFor

LEMMA KeyPreserves ==
    ASSUME IInv, NEW n \in Names, NEW key \in Keys, Press(n, key) \/ Release(n, key)
    PROVE  IInv'
  <1>0. TypeOK /\ OnMap /\ \A m \in Names : SteeredFor(m)
    BY DEF IInv
  <1>1. /\ down' \in [Names -> SUBSET Keys]
        /\ \A m \in Names : m # n => down'[m] = down[m]
    <2>1. down \in [Names -> SUBSET Keys]
      BY <1>0 DEF TypeOK
    <2>2. PICK K \in SUBSET Keys : down' = [down EXCEPT ![n] = K]
      <3>1. down[n] \cup {key} \in SUBSET Keys /\ down[n] \ {key} \in SUBSET Keys
        BY <2>1
      <3>2. \/ down' = [down EXCEPT ![n] = down[n] \cup {key}]
            \/ down' = [down EXCEPT ![n] = down[n] \ {key}]
        BY DEF Press, Release
      <3> QED
        BY <3>1, <3>2, Zenon
    <2> QED
      BY <2>1, <2>2
  <1>2. UNCHANGED <<position, direction, map, playing, stale, inherited>>
    BY DEF Press, Release
  <1>3. OnMap'
    BY <1>0, <1>2 DEF OnMap
  <1>4. CASE n \notin playing
    <2>1. requests' = requests
      BY <1>4 DEF Press, Release
    <2>2. TypeOK'
      BY <1>0, <1>1, <1>2, <2>1 DEF TypeOK
    <2>3. ASSUME NEW m \in Names PROVE SteeredFor(m)'
      <3>1. SteeredFor(m)
        BY <1>0
      <3>2. m \in playing => down'[m] = down[m]
        BY <1>1, <1>4
      <3> QED
        BY <1>2, <2>1, <3>1, <3>2 DEF SteeredFor
    <2> QED
      BY <1>3, <2>2, <2>3 DEF IInv
  <1>5. CASE n \in playing
    <2>1. PICK dir \in Steps :
             /\ Send(n, Request("move", dir))
             /\ down'[n] = {} => dir = Still
      <3>1. CASE Press(n, key)
        <4>1. key \in down'[n] /\ Send(n, Request("move", DirectionOf(key)))
          BY <1>0, <1>5, <3>1 DEF Press, TypeOK
        <4> QED
          BY <4>1, StepsAreDirections
      <3>2. CASE Release(n, key)
        BY <1>5, <3>2, StepsAreDirections DEF Release
      <3> QED
        BY <3>1, <3>2
    <2> DEFINE r == Request("move", dir)
    <2>2. r \in Requests /\ r.dir = dir
      BY DEF Request, Requests
    <2> HIDE DEF r
    <2>3. Send(n, r)
      BY <2>1 DEF r
    <2>4. /\ requests' \in [Names -> Seq(Requests)]
          /\ \A m \in Names : m # n => requests'[m] = requests[m]
          /\ requests'[n] # <<>> /\ requests'[n][Len(requests'[n])] = r
      BY <1>0, <2>2, <2>3, SendAppends, Zenon
    <2>5. TypeOK'
      BY <1>0, <1>1, <1>2, <2>4 DEF TypeOK
    <2>6. ASSUME NEW m \in Names, m # n PROVE SteeredFor(m)'
      BY <1>0, <1>1, <1>2, <2>4, <2>6, SteeredKept
    <2>7. SteeredFor(n)'
      BY <1>2, <1>5, <2>1, <2>2, <2>4 DEF SteeredFor
    <2> QED
      BY <1>3, <2>5, <2>6, <2>7 DEF IInv
  <1> QED
    BY <1>4, <1>5

LEMMA LoggedInPreserves ==
    ASSUME IInv, NEW n \in Names, LoggedIn(n)
    PROVE  IInv'
  <1>0. TypeOK /\ OnMap /\ \A m \in Names : SteeredFor(m)
    BY DEF IInv
  <1>1. /\ n \in DOMAIN position /\ n \notin playing /\ playing' = playing \cup {n}
        /\ UNCHANGED <<position, direction, map, down, requests, stale, inherited>>
    BY DEF LoggedIn
  <1>2. TypeOK' /\ OnMap'
    BY <1>0, <1>1 DEF TypeOK, OnMap
  <1>3. ASSUME NEW m \in Names PROVE SteeredFor(m)'
    <2>1. SteeredFor(m)
      BY <1>0
    <2>2. CASE m = n
      BY <1>1, <2>1, <2>2 DEF SteeredFor
    <2>3. CASE m # n
      BY <1>1, <2>1, <2>3, SteeredKept
    <2> QED
      BY <2>2, <2>3
  <1> QED
    BY <1>2, <1>3 DEF IInv

\* Some of what a client sent, from the first on.
LEMMA PrefixTyped ==
    ASSUME NEW s \in Seq(Requests), NEW length \in 0..Len(s)
    PROVE  SubSeq(s, 1, length) \in Seq(Requests)
  <1>1. length \in Int /\ 1 \in Int /\ Len(s) \in Nat
    OBVIOUS
  <1>2. \A i \in 1..length : s[i] \in Requests
    OBVIOUS
  <1> QED
    BY <1>1, <1>2, SubSeqProperties

\* Who has ended leaves a queue of its own, and an inherited direction.
LEMMA QuitPreserves ==
    ASSUME IInv, NEW n \in Names, Quit(n)
    PROVE  IInv'
  <1>0. TypeOK /\ OnMap /\ \A m \in Names : SteeredFor(m)
    BY DEF IInv
  <1> DEFINE sent == Append(requests[n], Request("logout", Still))
  <1>1. PICK length \in 0..Len(sent) : stale' = [stale EXCEPT ![n] = SubSeq(sent, 1, length)]
    BY DEF Quit
  <1>2. /\ playing' = playing \ {n} /\ inherited' = inherited \cup {n}
        /\ requests' = [requests EXCEPT ![n] = <<>>] /\ down' = [down EXCEPT ![n] = {}]
        /\ UNCHANGED <<position, direction, map>>
    BY DEF Quit
  <1>3. sent \in Seq(Requests)
    <2>1. Request("logout", Still) \in Requests
      BY StepsAreDirections DEF Request, Requests
    <2>2. requests[n] \in Seq(Requests)
      BY <1>0 DEF TypeOK
    <2> QED
      BY <2>1, <2>2
  <1> HIDE DEF sent
  <1>4. SubSeq(sent, 1, length) \in Seq(Requests)
    BY <1>3, PrefixTyped, Zenon
  <1>5. stale' \in [Names -> Seq(Requests)]
    BY <1>0, <1>1, <1>4, ExceptTyped, Zenon DEF TypeOK
  <1>6. /\ requests' \in [Names -> Seq(Requests)] /\ requests'[n] = <<>>
        /\ \A m \in Names : m # n => requests'[m] = requests[m]
    <2>1. <<>> \in Seq(Requests)
      OBVIOUS
    <2> QED
      BY <1>0, <1>2, <2>1, ExceptTyped, Zenon DEF TypeOK
  <1>7. /\ down' \in [Names -> SUBSET Keys]
        /\ \A m \in Names : m # n => down'[m] = down[m]
    BY <1>0, <1>2 DEF TypeOK
  <1>8. TypeOK' /\ OnMap'
    BY <1>0, <1>2, <1>5, <1>6, <1>7 DEF TypeOK, OnMap
  <1>9. ASSUME NEW m \in Names PROVE SteeredFor(m)'
    <2>1. CASE m = n
      BY <1>2, <1>6, <2>1 DEF SteeredFor
    <2>2. CASE m # n
      BY <1>0, <1>2, <1>6, <1>7, <2>2, SteeredKept
    <2> QED
      BY <2>1, <2>2
  <1> QED
    BY <1>8, <1>9 DEF IInv

\* Whoever is missing is created inside the map, and nobody else is touched.
LEMMA EnteredOnMap ==
    ASSUME TypeOK, OnMap, NEW n \in Names, position' \in Entered(n)
    PROVE  /\ DOMAIN position' = DOMAIN position \cup {n}
           /\ \A m \in DOMAIN position : position'[m] = position[m]
           /\ \A m \in DOMAIN position' :
                 /\ position'[m] \in [Axes -> Nat]
                 /\ \A a \in Axes : position'[m][a] < Size[a] * Unit
  <1>1. CASE n \in DOMAIN position
    <2>1. Entered(n) = {position}
      BY <1>1 DEF Entered
    <2>2. position' = position
      BY <2>1, Zenon
    <2>3. DOMAIN position = DOMAIN position \cup {n}
      BY <1>1
    <2> QED
      BY <2>2, <2>3 DEF TypeOK, OnMap
  <1>2. CASE n \notin DOMAIN position
    <2> DEFINE made(x, y) == [m \in DOMAIN position \cup {n} |->
                                 IF m = n THEN <<x * Unit, y * Unit>> ELSE position[m]]
    <2>0. PICK x \in 0..(Height - 1), y \in 0..(Width - 1) : position' = made(x, y)
      <3>1. Entered(n) = {made(x, y) : x \in 0..(Height - 1), y \in 0..(Width - 1)}
        BY <1>2 DEF Entered
      <3> HIDE DEF made
      <3> QED
        BY <3>1
    <2>1. ASSUME NEW h \in Nat \ {0}, NEW u \in Nat \ {0}, NEW z \in 0..(h - 1)
          PROVE  z * u \in Nat /\ z * u < h * u
      <3>1. (z + 1) * u = z * u + u /\ z * u \in Nat
        OBVIOUS
      <3>2. (z + 1) * u <= h * u
        OBVIOUS
      <3> QED
        BY <3>1, <3>2
    <2>2. Height \in Nat \ {0} /\ Width \in Nat \ {0} /\ Unit \in Nat \ {0}
      BY MapAssumption
    <2> DEFINE px == x * Unit
               py == y * Unit
    <2>3. /\ px \in Nat /\ px < Height * Unit
          /\ py \in Nat /\ py < Width * Unit
      BY <2>1, <2>2
    <2>4. /\ DOMAIN position' = DOMAIN position \cup {n} /\ position'[n] = <<px, py>>
          /\ \A m \in DOMAIN position : position'[m] = position[m]
      BY <1>2, <2>0
    <2>5. px < Size[1] * Unit /\ py < Size[2] * Unit
      BY <2>3 DEF Size
    <2> HIDE DEF px, py
    <2>6. /\ position'[n] \in [Axes -> Nat]
          /\ \A a \in Axes : position'[n][a] < Size[a] * Unit
      BY <2>3, <2>4, <2>5 DEF Axes
    <2> QED
      BY <2>4, <2>6 DEF TypeOK, OnMap
  <1> QED
    BY <1>1, <1>2

LEMMA HeadingFacts ==
    ASSUME TypeOK, NEW n \in Names, NEW dir \in Steps, direction' = Heading(n, dir)
    PROVE  /\ DOMAIN direction' = DOMAIN position \cup {n}
           /\ direction'[n] = dir
           /\ \A m \in DOMAIN position : m # n => direction'[m] = direction[m]
           /\ \A m \in DOMAIN direction' : direction'[m] \in Steps
  BY DEF Heading, TypeOK

\* What creating a player and giving one a direction leave as it was.
LEMMA TurnedPreserves ==
    ASSUME IInv, NEW n \in Names, NEW dir \in Steps,
           position' \in Entered(n), direction' = Heading(n, dir),
           UNCHANGED <<map, playing, down>>,
           requests' \in [Names -> Seq(Requests)], stale' \in [Names -> Seq(Requests)],
           \A m \in Names : m # n => requests'[m] = requests[m],
           inherited' = inherited \ {n} \/ inherited' = inherited \cup {n},
           SteeredFor(n)'
    PROVE  IInv'
  <1>0. TypeOK /\ OnMap /\ \A m \in Names : SteeredFor(m)
    BY DEF IInv
  <1>1. /\ DOMAIN position' = DOMAIN position \cup {n}
        /\ \A m \in DOMAIN position' :
              /\ position'[m] \in [Axes -> Nat]
              /\ \A a \in Axes : position'[m][a] < Size[a] * Unit
    BY <1>0, EnteredOnMap, Zenon
  <1>2. /\ DOMAIN direction' = DOMAIN position'
        /\ \A m \in DOMAIN position : m # n => direction'[m] = direction[m]
        /\ \A m \in DOMAIN direction' : direction'[m] \in Steps
    BY <1>0, <1>1, HeadingFacts, Zenon
  <1>3. inherited' \subseteq Names
    BY <1>0 DEF TypeOK
  <1>4. TypeOK'
    BY <1>0, <1>1, <1>2, <1>3 DEF TypeOK
  <1>5. OnMap'
    BY <1>1 DEF OnMap
  <1>6. ASSUME NEW m \in Names PROVE SteeredFor(m)'
    <2>1. CASE m = n
      BY <2>1
    <2>2. CASE m # n
      <3>1. m \in inherited' <=> m \in inherited
        BY <2>2
      <3>2. m \in DOMAIN position' <=> m \in DOMAIN position
        BY <1>1, <2>2
      <3>3. m \in DOMAIN position => direction'[m] = direction[m]
        BY <1>2, <2>2
      <3> QED
        BY <1>0, <2>2, <3>1, <3>2, <3>3, SteeredKept
    <2> QED
      BY <2>1, <2>2
  <1> QED
    BY <1>4, <1>5, <1>6 DEF IInv

LEMMA EnterPreserves ==
    ASSUME IInv, NEW n \in Names, Enter(n)
    PROVE  IInv'
  <1>0. TypeOK /\ OnMap /\ SteeredFor(n)
    BY DEF IInv
  <1>1. /\ position' \in Entered(n) /\ direction' = Heading(n, Still)
        /\ inherited' = inherited \ {n}
        /\ UNCHANGED <<map, playing, down, requests, stale>>
    BY DEF Enter
  <1>2. Still \in Steps /\ direction'[n] = Still
    BY <1>0, <1>1, StepsAreDirections, HeadingFacts
  <1>3. SteeredFor(n)'
    BY <1>0, <1>1, <1>2 DEF SteeredFor
  <1>4. requests' \in [Names -> Seq(Requests)] /\ stale' \in [Names -> Seq(Requests)]
    BY <1>0, <1>1 DEF TypeOK
  <1> QED
    BY <1>1, <1>2, <1>3, <1>4, TurnedPreserves

\* The move that was sent last decides where a client without keys is heading.
LEMMA MovePreserves ==
    ASSUME IInv, NEW n \in Names, NEW dir \in Steps, Move(n, dir)
    PROVE  IInv'
  <1>0. TypeOK /\ OnMap /\ SteeredFor(n)
    BY DEF IInv
  <1> DEFINE r == Request("move", dir)
  <1>1. /\ position' \in Entered(n) /\ direction' = Heading(n, dir)
        /\ UNCHANGED <<map, playing, down>>
        /\ Arrives(n, r) \/ ArrivesLate(n, r)
    BY DEF Move
  <1>2. direction'[n] = dir
    BY <1>0, <1>1, HeadingFacts
  <1>3. r.dir = dir
    BY DEF Request
  <1> HIDE DEF r
  <1>4. CASE Arrives(n, r)
    <2>1. /\ requests' \in [Names -> Seq(Requests)]
          /\ \A m \in Names : m # n => requests'[m] = requests[m]
          /\ requests[n] # <<>>
          /\ requests'[n] = <<>> => r = requests[n][Len(requests[n])]
          /\ requests'[n] # <<>> =>
                requests'[n][Len(requests'[n])] = requests[n][Len(requests[n])]
          /\ stale' = stale /\ inherited' = inherited \ {n}
      BY <1>0, <1>4, ArrivesTakes, Zenon
    <2>2. SteeredFor(n)'
      BY <1>0, <1>1, <1>2, <1>3, <2>1 DEF SteeredFor
    <2>3. stale' \in [Names -> Seq(Requests)]
      BY <1>0, <2>1 DEF TypeOK
    <2> QED
      BY <1>1, <2>1, <2>2, <2>3, TurnedPreserves
  <1>5. CASE ArrivesLate(n, r)
    <2>1. /\ stale' \in [Names -> Seq(Requests)] /\ requests' = requests
          /\ inherited' = inherited \cup {n}
      BY <1>0, <1>5, ArrivesLateTakes, Zenon
    <2>2. SteeredFor(n)'
      BY <1>0, <1>1, <2>1 DEF SteeredFor
    <2>3. requests' \in [Names -> Seq(Requests)]
      BY <1>0, <2>1 DEF TypeOK
    <2> QED
      BY <1>1, <2>1, <2>2, <2>3, TurnedPreserves
  <1> QED
    BY <1>1, <1>4, <1>5

LEMMA LogoutPreserves ==
    ASSUME IInv, NEW n \in Names, Logout(n)
    PROVE  IInv'
  <1>0. TypeOK /\ OnMap /\ \A m \in Names : SteeredFor(m)
    BY DEF IInv
  <1>1. /\ stale' \in [Names -> Seq(Requests)] /\ requests' = requests
        /\ inherited' = inherited \cup {n}
    BY <1>0, ArrivesLateTakes DEF Logout
  <1>2. /\ position' = [m \in DOMAIN position \ {n} |-> position[m]]
        /\ direction' = [m \in DOMAIN direction \ {n} |-> direction[m]]
        /\ UNCHANGED <<map, playing, down>>
    BY DEF Logout
  <1>3. TypeOK' /\ OnMap'
    BY <1>0, <1>1, <1>2 DEF TypeOK, OnMap
  <1>4. ASSUME NEW m \in Names PROVE SteeredFor(m)'
    <2>1. SteeredFor(m)
      BY <1>0
    <2>2. CASE m = n
      BY <1>1, <1>2, <2>1, <2>2 DEF SteeredFor
    <2>3. CASE m # n
      <3>1. /\ m \in DOMAIN position' <=> m \in DOMAIN position
            /\ m \in DOMAIN position => direction'[m] = direction[m]
            /\ m \in inherited' <=> m \in inherited
        BY <1>0, <1>1, <1>2, <2>3 DEF TypeOK
      <3> QED
        BY <1>1, <1>2, <2>1, <3>1, SteeredKept
    <2> QED
      BY <2>2, <2>3
  <1> QED
    BY <1>3, <1>4 DEF IInv

LEMMA UpdatePreserves ==
    ASSUME IInv, Update
    PROVE  IInv'
  <1>0. TypeOK /\ OnMap /\ \A m \in Names : SteeredFor(m)
    BY DEF IInv
  <1>1. PICK delta \in Deltas :
           position' = [n \in DOMAIN position |-> DoMove(position[n], direction[n], delta)]
    BY DEF Update
  <1>2. UNCHANGED <<direction, playing, down, requests, stale, inherited>>
    BY DEF Update
  <1>3. delta \in Nat
    BY MovementAssumption
  <1>4. ASSUME NEW n \in DOMAIN position
        PROVE  /\ position'[n] \in [Axes -> Nat]
               /\ \A a \in Axes : position'[n][a] < Size[a] * Unit
    <2>1. position[n] \in [Axes -> Nat] /\ direction[n] \in Steps
      BY <1>0 DEF TypeOK
    <2>2. position'[n] = DoMove(position[n], direction[n], delta)
      BY <1>1
    <2> QED
      BY <1>3, <2>1, <2>2, DoMoveOK
  <1>5. DOMAIN position' = DOMAIN position
    BY <1>1
  <1>6. TypeOK' /\ OnMap'
    BY <1>0, <1>2, <1>4, <1>5 DEF TypeOK, OnMap
  <1>7. ASSUME NEW m \in Names PROVE SteeredFor(m)'
    BY <1>0, <1>2, <1>5, SteeredKept
  <1> QED
    BY <1>6, <1>7 DEF IInv

LEMMA NextPreserves == IInv /\ [Next]_vars => IInv'
  <1> SUFFICES ASSUME IInv, [Next]_vars PROVE IInv'
    OBVIOUS
  <1>1. CASE UNCHANGED vars
    BY <1>1 DEF vars, IInv, TypeOK, OnMap, SteeredFor
  <1>2. ASSUME NEW n \in Names, LoggedIn(n) \/ Quit(n) \/ Enter(n) \/ Logout(n)
        PROVE  IInv'
    BY <1>2, LoggedInPreserves, QuitPreserves, EnterPreserves, LogoutPreserves
  <1>3. ASSUME NEW n \in Names, NEW key \in Keys, Press(n, key) \/ Release(n, key)
        PROVE  IInv'
    BY <1>3, KeyPreserves
  <1>4. ASSUME NEW n \in Names, NEW dir \in Steps, Move(n, dir)
        PROVE  IInv'
    BY <1>4, MovePreserves
  <1>5. CASE Update
    BY <1>5, UpdatePreserves
  <1> QED
    BY <1>1, <1>2, <1>3, <1>4, <1>5 DEF Next

\* The variables keep their types, whatever a client that has ended left behind.
THEOREM TypeCorrect == Spec => []TypeOK
  <1>1. IInv => TypeOK
    BY DEF IInv
  <1> QED
    BY <1>1, InitEstablishes, NextPreserves, PTL DEF Spec

\* The map is never written outside its cells, whatever its size and however far
\* one iteration of the main loop moves a player.
THEOREM OnTheMap == Spec => []EveryoneOnTheMap
  <1>1. ASSUME IInv PROVE EveryoneOnTheMap
    <2>1. SUFFICES ASSUME NEW n \in DOMAIN position, NEW a \in Axes
                   PROVE  Cell(position[n])[a] \in 0..(Size[a] - 1)
      BY DEF EveryoneOnTheMap
    <2>2. position[n][a] \in Nat /\ position[n][a] < Size[a] * Unit
      BY <1>1 DEF IInv, TypeOK, OnMap
    <2>3. Size[a] \in Nat \ {0} /\ Unit \in Nat \ {0}
      BY SizePositive, MapAssumption
    <2>4. position[n][a] \div Unit \in 0..(Size[a] - 1)
      BY <2>2, <2>3, CellInMap
    <2> QED
      BY <2>4 DEF Cell
  <1> QED
    BY <1>1, InitEstablishes, NextPreserves, PTL DEF Spec

\* A player whose client holds no key stands once the moves of that client are
\* handled, whatever an earlier client of its name left on the server or on its way,
\* unless it is with that client's direction that it runs.
THEOREM Stops == Spec => []StopsWhenReleased
  <1>1. ASSUME IInv PROVE StopsWhenReleased
    <2>1. \A n \in DOMAIN position : n \in Names /\ SteeredFor(n)
      BY <1>1 DEF IInv, TypeOK
    <2> QED
      BY <2>1 DEF SteeredFor, StopsWhenReleased
  <1> QED
    BY <1>1, InitEstablishes, NextPreserves, PTL DEF Spec

LEMMA CellOfMultiple ==
    ASSUME NEW u \in Nat \ {0}, NEW s \in Nat
    PROVE  (s * u) \div u = s
  <1> DEFINE x == s * u
  <1> DEFINE q == x \div u
  <1>1. x \in Nat /\ x = u * s
    OBVIOUS
  <1> HIDE DEF x
  <1>2. q \in Int /\ x % u \in 0..(u - 1) /\ x = u * q + (x % u)
    BY <1>1
  <1> HIDE DEF q
  <1>3. u * q <= u * s /\ u * s < u * q + u
    BY <1>1, <1>2
  <1>4. q <= s
    <2>1. SUFFICES ASSUME q >= s + 1 PROVE FALSE
      BY <1>2
    <2>2. u * q >= u * (s + 1)
      BY <1>2, <2>1
    <2> QED
      BY <1>2, <1>3, <2>2
  <1>5. q >= s
    <2>1. SUFFICES ASSUME q + 1 <= s PROVE FALSE
      BY <1>2
    <2>2. u * (q + 1) <= u * s
      BY <1>2, <2>1
    <2> QED
      BY <1>2, <1>3, <2>2
  <1> QED
    BY <1>2, <1>4, <1>5 DEF q, x

\* Moving along an axis and being corrected leads to no cell against the direction.
LEMMA OneWay ==
    ASSUME NEW a \in Axes, NEW p \in Nat, p < Size[a] * Unit,
           NEW d \in -1..1, NEW delta \in Nat
    PROVE  LET from == p \div Unit
               to == Revised(a, p + delta * d) \div Unit
           IN  (d >= 0 => to >= from) /\ (d <= 0 => to <= from)
  <1> DEFINE r == Revised(a, p + delta * d)
  <1>1. Unit \in Nat \ {0} /\ Size[a] \in Nat \ {0} /\ Size[a] * Unit \in Nat
    BY SizePositive, MapAssumption
  <1>2. p + delta * d \in Int /\ (d >= 0 => p + delta * d >= p) /\ (d <= 0 => p + delta * d <= p)
    <2>1. d = -1 \/ d = 0 \/ d = 1
      OBVIOUS
    <2> QED
      BY <2>1
  <1>3. r \in Nat
    BY <1>2, RevisedOK
  <1>4. ASSUME d <= 0 PROVE r <= p
    BY <1>1, <1>2, <1>4 DEF Revised
  <1>5. ASSUME d >= 0 PROVE r >= p \/ r = (Size[a] - 1) * Unit
    BY <1>1, <1>2, <1>5 DEF Revised
  <1> HIDE DEF r
  <1>6. ASSUME d <= 0 PROVE r \div Unit <= p \div Unit
    BY <1>1, <1>3, <1>4, <1>6, CellsInOrder
  <1>7. ASSUME d >= 0 PROVE r \div Unit >= p \div Unit
    <2>1. CASE r >= p
      BY <1>1, <1>3, <2>1, CellsInOrder
    <2>2. CASE r = (Size[a] - 1) * Unit
      <3>1. r \div Unit = Size[a] - 1
        BY <1>1, <2>2, CellOfMultiple
      <3>2. p \div Unit \in 0..(Size[a] - 1)
        BY <1>1, CellInMap
      <3> QED
        BY <1>1, <3>1, <3>2
    <2> QED
      BY <1>5, <1>7, <2>1, <2>2
  <1> QED
    BY <1>6, <1>7 DEF r

\* The correction at the border never puts a player in a cell against its
\* direction, however far the movement went beyond the border.
THEOREM NoThrowingBack == Spec => NobodyIsThrownBack
  <1> DEFINE Along(n) ==
        \A a \in Axes :
          LET from == Cell(position[n])[a]
              to == Cell(position'[n])[a]
          IN  /\ direction[n][a] >= 0 => to >= from
              /\ direction[n][a] <= 0 => to <= from
  <1>1. ASSUME IInv, [Next]_vars, NEW n \in DOMAIN position \cap DOMAIN position'
        PROVE  Along(n)
    <2>1. position[n] \in [Axes -> Nat] /\ direction[n] \in Steps
      BY <1>1 DEF IInv, TypeOK
    <2>2. CASE position'[n] = position[n]
      <3>1. \A a \in Axes : Cell(position[n])[a] \in Int
        BY <2>1, MapAssumption DEF Cell
      <3> QED
        BY <2>2, <3>1
    <2>3. CASE Update
      <3>1. PICK delta \in Deltas : position'[n] = DoMove(position[n], direction[n], delta)
        BY <1>1, <2>3 DEF Update
      <3>2. delta \in Nat
        BY MovementAssumption
      <3>3. ASSUME NEW a \in Axes
            PROVE  LET from == Cell(position[n])[a]
                       to == Cell(position'[n])[a]
                   IN  /\ direction[n][a] >= 0 => to >= from
                       /\ direction[n][a] <= 0 => to <= from
        <4>1. position[n][a] \in Nat /\ position[n][a] < Size[a] * Unit
          BY <1>1, <2>1 DEF IInv, OnMap
        <4>2. direction[n][a] \in -1..1
          BY <2>1, StepsAreDirections
        <4>3. /\ Cell(position[n])[a] = position[n][a] \div Unit
              /\ Cell(position'[n])[a] =
                    Revised(a, position[n][a] + delta * direction[n][a]) \div Unit
          BY <3>1 DEF Cell, DoMove
        <4> QED
          BY <3>2, <4>1, <4>2, <4>3, OneWay
      <3> QED
        BY <3>3
    <2>4. position'[n] = position[n] \/ Update
      <3>1. CASE UNCHANGED vars
        BY <3>1 DEF vars
      <3>2. ASSUME NEW m \in Names, position' \in Entered(m) PROVE position'[n] = position[n]
        BY <1>1, <3>2, EnteredOnMap DEF IInv
      <3>3. ASSUME NEW m \in Names, Logout(m) PROVE position'[n] = position[n]
        BY <1>1, <3>3 DEF Logout
      <3>4. ASSUME NEW m \in Names, LoggedIn(m) \/ Quit(m)
            PROVE  position'[n] = position[n]
        BY <3>4 DEF LoggedIn, Quit
      <3>5. ASSUME NEW m \in Names, NEW key \in Keys, Press(m, key) \/ Release(m, key)
            PROVE  position'[n] = position[n]
        BY <3>5 DEF Press, Release
      <3>6. ASSUME NEW m \in Names, Enter(m) \/ \E dir \in Steps : Move(m, dir)
            PROVE  position'[n] = position[n]
        BY <3>2, <3>6 DEF Enter, Move
      <3> QED
        BY <1>1, <3>1, <3>3, <3>4, <3>5, <3>6 DEF Next
    <2> QED
      BY <2>2, <2>3, <2>4
  <1>2. IInv /\ [Next]_vars => [\A n \in DOMAIN position \cap DOMAIN position' : Along(n)]_vars
    BY <1>1
  <1> QED
    BY <1>2, InitEstablishes, NextPreserves, PTL DEF Spec, NobodyIsThrownBack
=============================================================================
