---------------------------- MODULE MCGameServer ----------------------------
(* The instances of GameServer that the runs check. *)
EXTENDS GameServer, TLC

CONSTANTS n1, n2, n3,  \* players
          at1, at2, at3  \* addresses

Nobody == {}
OneName == {n1}
TwoNames == {n1, n2}
ThreeNames == {n1, n2, n3}
TwoAddr == {at1, at2}
ThreeAddr == {at1, at2, at3}
One == {1}
OneOrTwo == {1, 2}
JustTwo == {2}
JustThree == {3}

\* Addresses are interchangeable, and so are names: the one CHOOSE picks in Init
\* names memory that is never read.
Symmetry == Permutations(Addr) \cup Permutations(Names)
=============================================================================
