---------------------------- MODULE MCConnection ----------------------------
(* The instances of Connection that the runs check. *)
EXTENDS Connection

NoRequest == {}
NoEnd == {}
BothEnds == Ends
SecondRequest == {2}
FourthRequest == {4}
=============================================================================
