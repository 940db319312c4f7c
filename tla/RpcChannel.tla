----------------------------- MODULE RpcChannel -----------------------------
(***************************************************************************)
(* What a connection between one client and the server promises to the     *)
(* code above it: requests are handled in the order they were issued, each *)
(* at most once and none skipped, and the i-th callback is given the reply *)
(* to the i-th request.                                                    *)
(***************************************************************************)
EXTENDS Naturals, Sequences

VARIABLES issued,    \* how many requests the client has issued
          handled,   \* the requests the server has handled, in order
          delivered  \* <<callback, reply>> pairs the client has run, in order

channel == <<issued, handled, delivered>>

Init ==
    /\ issued = 0
    /\ handled = <<>>
    /\ delivered = <<>>

Issue ==
    /\ issued' = issued + 1
    /\ UNCHANGED <<handled, delivered>>

Handle ==
    /\ Len(handled) < issued
    /\ handled' = Append(handled, Len(handled) + 1)
    /\ UNCHANGED <<issued, delivered>>

\* The callback may issue the next request before it returns.
Answer ==
    LET i == Len(delivered) + 1
    IN  /\ i <= Len(handled)
        /\ delivered' = Append(delivered, <<i, i>>)
        /\ issued' \in {issued, issued + 1}
        /\ UNCHANGED handled

Next == Issue \/ Handle \/ Answer

Spec == Init /\ [][Next]_channel
=============================================================================
