--------------------------- MODULE GameLoopProofs ---------------------------
(***************************************************************************)
(* Proofs about GameLoop, for every length of the tick and of the hit      *)
(* interval and whatever time the steps take.                              *)
(***************************************************************************)
EXTENDS GameLoop, TLAPS

\* What a battle has been told has passed did pass since it hit.
Waits == battling => since <= last - hitAt

\* After an iteration that did not update, the sleep takes the loop past the
\* time of the next update; that is when what the player was moved for too much
\* is at most what the next update makes up for.
Catches ==
    /\ skipped /\ pc = "sleep" => last <= now /\ now < last + TickInterval
    /\ skipped /\ pc = "poll" => clock >= last + TickInterval
    /\ skipped /\ pc = "tick" => now >= last + TickInterval

Moves ==
    /\ ~skipped => moved <= 2 * last
    /\ skipped /\ pc = "sleep" => moved <= last + now
    /\ skipped => moved <= 2 * last + TickInterval

Inv == TypeOK /\ Waits /\ Catches /\ Moves

\* The part of TypeOK about numbers.
Numbers ==
    /\ clock \in Nat /\ last \in Nat /\ now \in Nat
    /\ pc \in {"poll", "tick", "sleep"}
    /\ last <= clock /\ now <= clock
    /\ pc = "tick" => last <= now
    /\ since \in 0..(HitInterval - 1)
    /\ hitAt \in Nat /\ hitAt <= clock
    /\ moved \in Nat

LEMMA Parts == TypeOK <=> Numbers /\ battling \in BOOLEAN /\ skipped \in BOOLEAN
  BY Zenon DEF TypeOK, Numbers

LEMMA InitEstablishes == Init => Inv
<1> SUFFICES ASSUME Init PROVE Inv
  OBVIOUS
<1>1. ~battling /\ ~skipped /\ battling \in BOOLEAN /\ skipped \in BOOLEAN
  BY Zenon DEF Init
<1>2. Numbers
  BY TimesAssumption DEF Init, Numbers
<1>3. Waits /\ Catches
  BY <1>1, Zenon DEF Waits, Catches
<1>4. moved = 0 /\ last = 0
  BY DEF Init
<1>5. moved <= 2 * last
  BY <1>4
<1>6. Moves
  BY <1>1, <1>5, Zenon DEF Moves
<1> QED
  BY <1>1, <1>2, <1>3, <1>6, Parts DEF Inv

LEMMA PollPreserves == Inv /\ Poll => Inv'
<1> SUFFICES ASSUME Inv, Poll PROVE Inv'
  OBVIOUS
<1>1. Numbers /\ battling \in BOOLEAN /\ skipped \in BOOLEAN
  BY Parts DEF Inv
<1>2. /\ pc = "poll" /\ pc' = "tick"
      /\ clock' \in Nat /\ clock' >= clock
      /\ now' = clock'
      /\ last' = last /\ moved' = moved /\ skipped' = skipped
  BY <1>1, TimesAssumption DEF Poll, Passes, Numbers
<1>3. \/ battling' = battling /\ since' = since /\ hitAt' = hitAt
      \/ battling' = TRUE /\ since' = 0 /\ hitAt' = last
      \/ battling' = FALSE /\ since' = since /\ hitAt' = hitAt
  BY Zenon DEF Poll
<1>4. battling' \in BOOLEAN /\ skipped' \in BOOLEAN
  BY <1>1, <1>2, <1>3, Zenon
<1>5. \/ since' = since /\ hitAt' = hitAt
      \/ since' = 0 /\ hitAt' = last
  BY <1>3, Zenon
<1>6. Numbers'
  BY <1>1, <1>2, <1>5, TimesAssumption DEF Numbers
<1>7. battling' => since' <= last' - hitAt'
  <2>1. 0 <= last - last
    BY <1>1 DEF Numbers
  <2>2. battling' = battling /\ since' = since /\ hitAt' = hitAt
        => (battling' => since' <= last' - hitAt')
    BY <1>2, Zenon DEF Inv, Waits
  <2>3. since' = 0 /\ hitAt' = last => since' <= last' - hitAt'
    BY <2>1, <1>2, Zenon
  <2> QED
    BY <2>2, <2>3, <1>3, Zenon
<1>8. Catches'
  <2>1. skipped => now' >= last' + TickInterval
    <3>1. clock >= last + TickInterval => now' >= last' + TickInterval
      BY <1>1, <1>2, TimesAssumption DEF Numbers
    <3> QED
      BY <3>1, <1>2, Zenon DEF Inv, Catches
  <2>2. pc' # "sleep" /\ pc' # "poll"
    BY <1>2
  <2> QED
    BY <2>1, <2>2, <1>2, Zenon DEF Catches
<1>9. Moves'
  <2>1. pc' # "sleep"
    BY <1>2
  <2> QED
    BY <2>1, <1>2, Zenon DEF Inv, Moves
<1> QED
  <2>1. TypeOK'
    BY <1>4, <1>6, Zenon DEF TypeOK, Numbers
  <2> QED
    BY <2>1, <1>7, <1>8, <1>9, Zenon DEF Inv, Waits

\* An update that comes on time makes up for a skipped iteration.
LEMMA MakesUp ==
    ASSUME NEW t \in Int, NEW l \in Int, NEW n \in Int, NEW e \in Int, NEW m \in Int,
           l + t <= n, n <= e, m <= 2 * l + t
    PROVE  m + (n - l) <= 2 * e
  OBVIOUS

LEMMA UpdatePreserves == Inv /\ Update => Inv'
<1> SUFFICES ASSUME Inv, Update PROVE Inv'
  OBVIOUS
<1>1. Numbers /\ battling \in BOOLEAN /\ skipped \in BOOLEAN
  BY Parts DEF Inv
<1>2. /\ pc = "tick" /\ pc' = "sleep"
      /\ clock' \in Nat /\ clock' >= clock
      /\ now >= last + TickInterval
      /\ now' = now /\ last' = clock' /\ moved' = moved + (now - last)
      /\ battling' = battling
  BY <1>1, TimesAssumption
     DEF Update, UpdateDue, Passes, Numbers, Delta, LastUpdate
<1>3. ~skipped' /\ skipped' \in BOOLEAN
  BY Zenon DEF Update
<1>4. \/ since' = 0 /\ hitAt' \in clock..clock'
      \/ /\ battling
         /\ ~(since + (now - last) >= HitInterval)
         /\ since' = since + (now - last) /\ hitAt' = hitAt
      \/ ~battling /\ since' = since /\ hitAt' = hitAt
  BY DEF Update, UpdateBattle, HitDue, Delta
<1>5. \/ since' = 0 /\ hitAt' \in clock..clock'
      \/ /\ since + (now - last) < HitInterval
         /\ since' = since + (now - last) /\ hitAt' = hitAt
      \/ since' = since /\ hitAt' = hitAt
  BY <1>1, <1>4, TimesAssumption DEF Numbers
<1>6. Numbers'
  BY <1>1, <1>2, <1>5, TimesAssumption DEF Numbers
<1>7. battling' => since' <= last' - hitAt'
  BY <1>1, <1>2, <1>4 DEF Inv, Waits, Numbers
<1>8. Catches'
  BY <1>3, Zenon DEF Catches
<1>9. Moves'
  <2>1. \/ moved <= 2 * last
        \/ moved <= 2 * last + TickInterval
    <3>1. skipped \/ ~skipped
      OBVIOUS
    <3> QED
      BY <3>1, Zenon DEF Inv, Moves
  <2>2. moved' <= 2 * last'
    <3>1. /\ last \in Int /\ now \in Int /\ moved \in Int
          /\ last' \in Int /\ now <= last'
          /\ moved' = moved + (now - last)
          /\ last + TickInterval <= now
      BY <1>1, <1>2, TimesAssumption DEF Numbers
    <3>2. moved <= 2 * last + TickInterval
      BY <2>1, <3>1, TimesAssumption
    <3>3. TickInterval \in Int
      BY TimesAssumption
    <3>4. moved + (now - last) <= 2 * last'
      BY <3>1, <3>2, <3>3, MakesUp, Zenon
    <3> QED
      BY <3>1, <3>4, Zenon
  <2> QED
    BY <2>2, <1>3, Zenon DEF Moves
<1> QED
  <2>1. battling' \in BOOLEAN
    BY <1>1, <1>2, Zenon
  <2>2. TypeOK'
    BY <2>1, <1>3, <1>6, Zenon DEF TypeOK, Numbers
  <2> QED
    BY <2>2, <1>7, <1>8, <1>9, Zenon DEF Inv, Waits

LEMMA SkipPreserves == Inv /\ Skip => Inv'
<1> SUFFICES ASSUME Inv, Skip PROVE Inv'
  OBVIOUS
<1> USE TimesAssumption DEF Inv, TypeOK, Skip, UpdateDue, Passes, Delta
<1>1. TypeOK'
  OBVIOUS
<1>2. Waits'
  BY DEF Waits
<1>3. Catches'
  BY DEF Catches
<1>4. ~skipped
  BY DEF Catches
<1>5. Moves'
  BY <1>4 DEF Moves
<1> QED
  BY <1>1, <1>2, <1>3, <1>5

LEMMA SleepPreserves == Inv /\ Sleep => Inv'
<1> SUFFICES ASSUME Inv, Sleep PROVE Inv'
  OBVIOUS
<1> USE TimesAssumption DEF Inv, TypeOK, Sleep
<1>1. TypeOK'
  OBVIOUS
<1>2. Waits'
  BY DEF Waits
<1>3. Catches'
  BY DEF Catches
<1>4. Moves'
  BY DEF Moves
<1> QED
  BY <1>1, <1>2, <1>3, <1>4

LEMMA NextPreserves == Inv /\ [Next]_vars => Inv'
<1> SUFFICES ASSUME Inv, [Next]_vars PROVE Inv'
  OBVIOUS
<1>1. CASE UNCHANGED vars
  BY <1>1 DEF vars, Inv, TypeOK, Waits, Catches, Moves
<1> QED
  BY <1>1, PollPreserves, UpdatePreserves, SkipPreserves, SleepPreserves DEF Next

LEMMA Invariance == Spec => []Inv
  BY InitEstablishes, NextPreserves, PTL DEF Spec

\* The readings of the clock never run backwards and no battle waits longer than
\* the interval.
THEOREM ClockInOrder == Spec => []TypeOK
<1>1. Inv => TypeOK
  BY DEF Inv
<1> QED
  BY <1>1, Invariance, PTL

\* Battles are updated in every second iteration at least.
THEOREM BattlesAreUpdated == Spec => []NoSecondSkip
<1>1. Inv => NoSecondSkip
  BY DEF Inv, Catches, NoSecondSkip, UpdateDue
<1> QED
  BY <1>1, Invariance, PTL

\* Counting skipped iterations again never more than doubles a movement.
THEOREM MovementIsBounded == Spec => []MovesAtMostDouble
<1>1. Inv => MovesAtMostDouble
  BY TimesAssumption DEF Inv, TypeOK, Catches, Moves, MovesAtMostDouble
<1> QED
  BY <1>1, Invariance, PTL

\* Two hits of one battle are never closer than the interval.
THEOREM HitsAreApart == Spec => HitsKeepTheirDistance
<1> DEFINE Apart == pc = "tick" /\ hitAt' # hitAt => hitAt' - hitAt >= HitInterval
<1>1. Inv /\ [Next]_vars => Apart
  <2> SUFFICES ASSUME Inv, [Next]_vars, pc = "tick", hitAt' # hitAt
               PROVE  hitAt' - hitAt >= HitInterval
    OBVIOUS
  <2>1. Update /\ HitDue
    BY DEF Next, vars, Poll, Skip, Sleep, Update, UpdateBattle
  <2> QED
    BY <2>1, TimesAssumption
       DEF Inv, TypeOK, Waits, Update, Passes, Delta, HitDue, UpdateBattle
<1>2. Spec => [][Apart]_vars
  BY <1>1, Invariance, PTL DEF Spec
<1> QED
  BY <1>2 DEF HitsKeepTheirDistance
=============================================================================
