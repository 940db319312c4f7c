-------------------------------- MODULE Duel --------------------------------
(***************************************************************************)
(* What one battle is to the players in it: once every interval the two    *)
(* strike in turn, the one who started it first; each blow costs the other *)
(* one health and nobody else any; the blows stop when one of them is      *)
(* dead, which ends it, and leaving ends it at any time, for good.         *)
(***************************************************************************)
EXTENDS Naturals

CONSTANT Interval  \* ticks from one blow to the next

Fighters == 1..2  \* the one who started the battle, the one challenged

VARIABLES stage,   \* "none", "running" or "over"
          turn,    \* who strikes next, less one
          waited,  \* ticks since the last blow
          health   \* of the two fighters

duel == <<stage, turn, waited, health>>

Dead == \E f \in Fighters : health[f] = 0

Init ==
    /\ stage = "none"
    /\ turn = 0
    /\ waited = 0
    /\ health \in [Fighters -> Nat]

Begin ==
    /\ stage = "none"
    /\ stage' = "running"
    /\ turn' = 0
    /\ waited' = 0
    /\ health' \in [Fighters -> Nat]

Wait ==
    /\ stage = "running"
    /\ waited + 1 < Interval
    /\ waited' = waited + 1
    /\ UNCHANGED <<stage, turn, health>>

TimeIsUp ==
    /\ stage = "running"
    /\ waited + 1 = Interval
    /\ waited' = 0

Blow ==
    LET struck == 2 - turn
    IN  /\ TimeIsUp
        /\ ~Dead
        /\ \E left \in 0..(health[struck] - 1) :
              health' = [health EXCEPT ![struck] = left]
        /\ turn' = 1 - turn
        /\ UNCHANGED stage

Finish ==
    /\ TimeIsUp
    /\ Dead
    /\ stage' = "over"
    /\ UNCHANGED <<turn, health>>

\* The command to leave may itself put a new player where a fighter was.
Leave ==
    /\ stage = "running"
    /\ stage' = "over"
    /\ health' \in [Fighters -> Nat]
    /\ UNCHANGED <<turn, waited>>

\* Kits, resurrections and other battles change the fighters' health, and what
\* the battle takes for a fighter may have become somebody else.
Outside ==
    /\ health' \in [Fighters -> Nat]
    /\ UNCHANGED <<stage, turn, waited>>

Next == Begin \/ Wait \/ Blow \/ Finish \/ Leave \/ Outside

Spec == Init /\ [][Next]_duel
=============================================================================
