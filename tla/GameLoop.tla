------------------------------ MODULE GameLoop ------------------------------
(***************************************************************************)
(* The timing of Server::run_main_game_loop (src/src/server/server.cpp):   *)
(* what a battle and a player see of the time that passes while the loop   *)
(* polls, updates, moves and sleeps.  The clock is read twice in an        *)
(* iteration that updates the battles, and each step may take any time.    *)
(* Time is in arbitrary units; one battle and one moving player stand for  *)
(* all, as they do not influence each other's time.                        *)
(***************************************************************************)
EXTENDS Integers

CONSTANTS TickInterval,  \* tick_interval(): 1s / max_tick_per_second
          HitInterval,   \* the 2s of Battle::update
          MaxTime,       \* bound on the clock
          MaxStep        \* bound on the time one step takes

ASSUME TimesAssumption ==
    /\ TickInterval \in Nat \ {0}
    /\ HitInterval \in Nat \ {0}
    /\ MaxTime \in Nat
    /\ MaxStep \in Nat

VARIABLES clock,       \* steady_clock
          pc,          \* what the loop does next
          last, now,   \* last_update and now, of the current iteration
          battling,    \* whether there is a battle that has not ended
          since,       \* its _time_since_last_update
          hitAt,       \* when it last hit; before that, what last_update was
                       \* when it started
          moved,       \* the time the player has been moved for
          skipped      \* whether the last iteration did not update

vars == <<clock, pc, last, now, battling, since, hitAt, moved, skipped>>

Delta == now - last

Init ==
    /\ clock = 0
    /\ pc = "poll"
    /\ last = 0 /\ now = 0
    /\ battling = FALSE /\ since = 0 /\ hitAt = 0
    /\ moved = 0
    /\ skipped = FALSE

\* Time passes while a step runs.
Passes == clock' \in clock..(clock + MaxStep) /\ clock' <= MaxTime

\* poll() handles commands: one may start a battle, another end it.  Then the
\* clock is read.
Poll ==
    /\ pc = "poll"
    /\ Passes
    /\ now' = clock'
    /\ \/ UNCHANGED <<battling, since, hitAt>>
       \/ /\ ~battling
          /\ battling' = TRUE
          /\ since' = 0
          /\ hitAt' = last
       \/ /\ battling
          /\ battling' = FALSE
          /\ UNCHANGED <<since, hitAt>>
    /\ pc' = "tick"
    /\ UNCHANGED <<last, moved, skipped>>

UpdateDue == now >= last + TickInterval

HitDue == battling /\ since + Delta >= HitInterval

\* Mutant: the time beyond the interval is kept for the next hit.
UpdateBattleKeepsRest ==
    IF HitDue THEN since' = since + Delta - HitInterval /\ hitAt' \in clock..clock'
              ELSE /\ since' = IF battling THEN since + Delta ELSE since
                   /\ hitAt' = hitAt

\* Battle::update of the battle, at some moment while all battles are updated.
UpdateBattle ==
    IF HitDue THEN since' = 0 /\ hitAt' \in clock..clock'
              ELSE /\ since' = IF battling THEN since + Delta ELSE since
                   /\ hitAt' = hitAt

\* Mutant: last_update becomes what the next iteration should start at.
NextTick == now + TickInterval

\* The clock is read again after the battles were updated.
LastUpdate == clock'

\* do_move has still the time until now.
Update ==
    /\ pc = "tick"
    /\ UpdateDue
    /\ Passes
    /\ UpdateBattle
    /\ last' = LastUpdate
    /\ moved' = moved + Delta
    /\ skipped' = FALSE
    /\ pc' = "sleep"
    /\ UNCHANGED <<now, battling>>

\* Too early to update: do_move moves the players all the same, and last_update
\* stays where it was.
Skip ==
    /\ pc = "tick"
    /\ ~UpdateDue
    /\ Passes
    /\ moved' = moved + Delta
    /\ skipped' = TRUE
    /\ pc' = "sleep"
    /\ UNCHANGED <<last, now, battling, since, hitAt>>

\* Mutant: a short sleep, for the processor's sake only.
SleepBriefly ==
    /\ pc = "sleep"
    /\ clock' = clock + 1
    /\ clock' <= MaxTime
    /\ pc' = "poll"
    /\ UNCHANGED <<last, now, battling, since, hitAt, moved, skipped>>

\* sleep_until(now + tick_interval()) does not sleep when that is over.
Sleep ==
    /\ pc = "sleep"
    /\ \/ clock >= now + TickInterval /\ clock' = clock
       \/ clock < now + TickInterval /\ clock' = now + TickInterval
    /\ clock' <= MaxTime
    /\ pc' = "poll"
    /\ UNCHANGED <<last, now, battling, since, hitAt, moved, skipped>>

Next == Poll \/ Update \/ Skip \/ Sleep

Spec == Init /\ [][Next]_vars

----------------------------------------------------------------------------
(***************************************************************************)
(* Properties.                                                             *)
(***************************************************************************)
\* The readings of the clock are in order: a difference of two of them, the time
\* a battle or a player is told has passed, is never negative, and a battle that
\* waits has not reached the time it waits for.
TypeOK ==
    /\ clock \in Nat /\ last \in Nat /\ now \in Nat
    /\ pc \in {"poll", "tick", "sleep"}
    /\ last <= clock /\ now <= clock
    /\ pc = "tick" => last <= now
    /\ battling \in BOOLEAN /\ skipped \in BOOLEAN
    /\ since \in 0..(HitInterval - 1)
    /\ hitAt \in Nat /\ hitAt <= clock
    /\ moved \in Nat

\* Two hits of a battle are never closer in time than the interval, however long
\* polling, updating and moving take and however many ticks are skipped; the
\* first one is that far from the update before the battle started.
HitsKeepTheirDistance ==
    [][pc = "tick" /\ hitAt' # hitAt => hitAt' - hitAt >= HitInterval]_vars

\* Reading last_update after the battles were updated makes the next iteration
\* come too early for an update, but never two in a row: battles are updated in
\* every second iteration at least.
NoSecondSkip == ~(skipped /\ pc = "tick" /\ ~UpdateDue)

\* An iteration that does not update moves the players for time that the next
\* one counts again.  They never move for more than twice the time that passed.
MovesAtMostDouble == moved <= 2 * clock
=============================================================================
