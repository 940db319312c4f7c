------------------------ MODULE ServerShutdownProofs ------------------------
(***************************************************************************)
(* Theorems about module ServerShutdown, for any set of clients, any       *)
(* number of descriptors and requests, and SIGINT at any steps.            *)
(*                                                                         *)
(* The invariant has one part per question: which Server main works with   *)
(* (PortInv), what a signal leaves behind for the loop (RoundInv), and     *)
(* what do_close leaves behind for a session (RequestInv).                 *)
(***************************************************************************)
EXTENDS ServerShutdown, FiniteSetTheorems, TLAPS

Serving == {"polling", "inserting", "working"}

\* A Server exists when main runs it; the one a signal has made, on the default
\* port, comes with the flag set, and so main never serves with it.
PortInv ==
    /\ main \in {"starting", "testing"} \cup Serving => port # NoServer
    /\ main \in Serving => port # DefaultPort
    /\ port = DefaultPort => stop

\* A signal sets the flag or ends the process; once an iteration has been
\* finished since, the loop is not entered any more.
RoundInv ==
    /\ signalled => stop \/ main \in Ended
    /\ rounds > 0 => signalled /\ main \notin Serving
    /\ rounds <= 1

\* A session that has handled a request after do_close writes its reply or has
\* nothing outstanding, and its flag is cleared: it never reads again.
RequestInv ==
    \A c \in Clients :
        /\ extra[c] <= 1
        /\ extra[c] > 0 => /\ conn[c] \in {"replying", "idle"}
                           /\ ~shouldRead[c]

Inv == TypeOK /\ PortInv /\ RoundInv /\ RequestInv

----------------------------------------------------------------------------
LEMMA InitInv == Init => Inv
<1> SUFFICES ASSUME Init PROVE Inv
  OBVIOUS
<1>1. TypeOK
  <2>1. 0 \in 0..MaxRequests
    BY ShutdownAssumption
  <2>2. /\ conn \in [Clients -> {"away", "backlog", "inserting", "reading",
                                 "replying", "idle"}]
        /\ left \in [Clients -> BOOLEAN] /\ shouldRead \in [Clients -> BOOLEAN]
    BY DEF Init
  <2>3. sent \in [Clients -> 0..MaxRequests] /\ handled \in [Clients -> 0..MaxRequests]
    BY <2>1 DEF Init
  <2>4. extra \in [Clients -> Nat] /\ \A c \in Clients : handled[c] <= sent[c]
    BY DEF Init
  <2> QED
    BY <2>2, <2>3, <2>4 DEF Init, TypeOK, Running
<1>2. PortInv /\ RoundInv
  BY DEF Init, PortInv, RoundInv, Serving, NoServer, DefaultPort
<1>3. RequestInv
  BY DEF Init, RequestInv
<1> QED
  BY <1>1, <1>2, <1>3 DEF Inv

\* Steps of main() and run() that touch no session.
MainStep == \/ CallInstance \/ Construct \/ BindFails \/ Start \/ TestFlag
            \/ EndPoll \/ Work \/ ReturnFromMain \/ Exit

LEMMA MainStepInv == Inv /\ MainStep => Inv'
<1> SUFFICES ASSUME Inv, MainStep PROVE Inv'
  OBVIOUS
<1>1. UNCHANGED clients
  BY DEF MainStep, CallInstance, Construct, BindFails, Start, TestFlag, EndPoll,
         Work, ReturnFromMain, Exit, Goto
<1>2. TypeOK'
  BY <1>1 DEF Inv, TypeOK, MainStep, CallInstance, Construct, BindFails, Start,
         TestFlag, EndPoll, Work, ReturnFromMain, Exit, Goto, clients, Running, Ended
<1>3. PortInv'
  BY DEF Inv, TypeOK, PortInv, Serving, NoServer, DefaultPort, ServerPort,
         MainStep, CallInstance, Construct, BindFails, Start,
         TestFlag, EndPoll, Work, ReturnFromMain, Exit, Goto
<1>4. RoundInv'
  BY DEF Inv, TypeOK, RoundInv, Serving, Ended,
         MainStep, CallInstance, Construct, BindFails, Start,
         TestFlag, EndPoll, Work, ReturnFromMain, Exit, Goto
<1>5. RequestInv'
  BY <1>1 DEF Inv, RequestInv, clients
<1> QED
  BY <1>2, <1>3, <1>4, <1>5 DEF Inv

\* A handler stays inside poll and leaves the server and the flag alone.
LEMMA HandlerInv ==
    ASSUME Inv, NEW c \in Clients, Handler(c)
    PROVE  Inv'
<1>1. /\ UNCHANGED <<port, stop, signalled, rounds>>
      /\ main \in {"polling", "inserting"} /\ main' \in {"polling", "inserting"}
  BY DEF Handler, BeginAccept, EndAccept, AcceptFails, Handle, Replied, Fails,
         vars, process
<1>2. PortInv' /\ RoundInv'
  BY <1>1 DEF Inv, PortInv, RoundInv, Serving, Ended
<1>3. TypeOK'
  <2>1. UNCHANGED <<left, sent>>
    BY DEF Handler, BeginAccept, EndAccept, AcceptFails, Handle, Replied, Fails,
           vars, clients
  <2>2. conn' \in [Clients -> {"away", "backlog", "inserting", "reading",
                               "replying", "idle"}]
    BY DEF Inv, TypeOK, Handler, BeginAccept, EndAccept, AcceptFails, Handle,
           Replied, Fails, vars, clients
  <2>3. shouldRead' \in [Clients -> BOOLEAN]
    BY DEF Inv, TypeOK, Handler, BeginAccept, EndAccept, AcceptFails, Handle,
           Replied, Fails, vars, clients
  <2>4. CASE Handle(c)
    <3>1. /\ handled' = [handled EXCEPT ![c] = handled[c] + 1]
          /\ handled[c] < sent[c]
          /\ extra' = [extra EXCEPT ![c] = IF shouldRead[c] THEN extra[c] ELSE extra[c] + 1]
      BY <2>4 DEF Handle
    <3>2. handled[c] + 1 \in 0..MaxRequests /\ handled[c] + 1 <= sent[c]
      BY <3>1, ShutdownAssumption DEF Inv, TypeOK
    <3>3. handled' \in [Clients -> 0..MaxRequests]
      BY <3>1, <3>2 DEF Inv, TypeOK
    <3>4. \A d \in Clients : handled'[d] <= sent[d]
      BY <3>1, <3>2 DEF Inv, TypeOK
    <3>5. extra' \in [Clients -> Nat]
      BY <3>1 DEF Inv, TypeOK
    <3> QED
      BY <1>1, <2>1, <2>2, <2>3, <3>3, <3>4, <3>5 DEF Inv, TypeOK, Running
  <2>5. CASE ~Handle(c)
    <3>1. UNCHANGED <<handled, extra>>
      BY <2>5 DEF Handler, BeginAccept, EndAccept, AcceptFails, Replied, Fails,
                  vars, clients
    <3> QED
      BY <1>1, <2>1, <2>2, <2>3, <3>1 DEF Inv, TypeOK, Running
  <2> QED
    BY <2>4, <2>5
<1>4. RequestInv'
  BY DEF Inv, TypeOK, RequestInv, Handler, BeginAccept, EndAccept, AcceptFails,
         Handle, Replied, Fails, vars, clients
<1> QED
  BY <1>2, <1>3, <1>4 DEF Inv

\* What comes in is counted within the bound.
LEMMA ClientInv ==
    ASSUME Inv, NEW c \in Clients, Connect(c) \/ Send(c) \/ LeaveServer(c)
    PROVE  Inv'
<1>1. UNCHANGED <<process, signalled, rounds, handled, shouldRead, extra>>
  BY DEF Connect, Send, LeaveServer
<1>2. PortInv' /\ RoundInv'
  BY <1>1 DEF Inv, PortInv, RoundInv, process
<1>3. TypeOK'
  <2>1. conn' \in [Clients -> {"away", "backlog", "inserting", "reading",
                               "replying", "idle"}]
    BY DEF Inv, TypeOK, Connect, Send, LeaveServer
  <2>2. left' \in [Clients -> BOOLEAN]
    BY DEF Inv, TypeOK, Connect, Send, LeaveServer
  <2>3. CASE Send(c)
    <3>1. sent' = [sent EXCEPT ![c] = sent[c] + 1] /\ sent[c] < MaxRequests
      BY <2>3 DEF Send
    <3>2. sent[c] \in 0..MaxRequests /\ sent[c] + 1 \in 0..MaxRequests
      BY <3>1, ShutdownAssumption DEF Inv, TypeOK
    <3>3. sent' \in [Clients -> 0..MaxRequests]
      BY <3>1, <3>2 DEF Inv, TypeOK
    <3>4. \A d \in Clients : handled[d] <= sent'[d]
      BY <3>1, <3>2, ShutdownAssumption DEF Inv, TypeOK
    <3> QED
      BY <1>1, <2>1, <2>2, <3>3, <3>4 DEF Inv, TypeOK, process
  <2>4. CASE Connect(c) \/ LeaveServer(c)
    <3>1. sent' = sent
      BY <2>4 DEF Connect, LeaveServer
    <3> QED
      BY <1>1, <2>1, <2>2, <3>1 DEF Inv, TypeOK, process
  <2> QED
    BY <2>3, <2>4
<1>4. RequestInv'
  BY <1>1 DEF Inv, TypeOK, RequestInv, Connect, Send, LeaveServer
<1> QED
  BY <1>2, <1>3, <1>4 DEF Inv

\* do_close only clears flags.
LEMMA DoCloseClears ==
    ASSUME TypeOK, DoClose
    PROVE  /\ shouldRead' \in [Clients -> BOOLEAN]
           /\ \A c \in Clients : shouldRead'[c] => shouldRead[c]
BY DEF TypeOK, DoClose

LEMMA SignalInv == Inv /\ Signal => Inv'
<1> SUFFICES ASSUME Inv, Signal PROVE Inv'
  OBVIOUS
<1>1. CASE Shutdown
  <2>1. /\ shouldRead' \in [Clients -> BOOLEAN]
        /\ \A c \in Clients : shouldRead'[c] => shouldRead[c]
    BY <1>1, DoCloseClears DEF Inv, Shutdown
  <2>2. UNCHANGED <<main, conn, left, sent, handled, extra, rounds>> /\ stop' /\ signalled'
    BY <1>1 DEF Shutdown, Signal
  <2>3. port' = IF port = NoServer THEN DefaultPort ELSE port
    BY <1>1 DEF Shutdown
  <2>4. TypeOK'
    BY <2>1, <2>2, <2>3, <1>1 DEF Inv, TypeOK, Signal, Shutdown
  <2>5. PortInv'
    BY <2>2, <2>3 DEF Inv, TypeOK, PortInv, Serving, NoServer, DefaultPort
  <2>6. RoundInv'
    BY <2>2 DEF Inv, RoundInv
  <2>7. RequestInv'
    BY <2>1, <2>2 DEF Inv, RequestInv
  <2> QED
    BY <2>4, <2>5, <2>6, <2>7 DEF Inv
<1>2. CASE InsideLogCall \/ Undefined
  <2>1. /\ main' \in {"dead", "stuck"} /\ signalled'
        /\ UNCHANGED <<port, stop, clients, rounds>>
    BY <1>2 DEF InsideLogCall, Undefined, Signal
  <2>2. TypeOK'
    BY <2>1 DEF Inv, TypeOK, clients, Ended, Signal
  <2>3. PortInv' /\ RoundInv'
    BY <2>1 DEF Inv, PortInv, RoundInv, Serving, Ended
  <2>4. RequestInv'
    BY <2>1 DEF Inv, RequestInv, clients
  <2> QED
    BY <2>2, <2>3, <2>4 DEF Inv
<1> QED
  BY <1>1, <1>2 DEF Signal

LEMMA NextInv == Inv /\ [Next]_vars => Inv'
<1> SUFFICES ASSUME Inv, [Next]_vars PROVE Inv'
  OBVIOUS
<1>1. CASE MainStep
  BY <1>1, MainStepInv
<1>2. ASSUME NEW c \in Clients, Handler(c) PROVE Inv'
  BY <1>2, HandlerInv
<1>3. ASSUME NEW c \in Clients, Connect(c) \/ Send(c) \/ LeaveServer(c) PROVE Inv'
  BY <1>3, ClientInv
<1>4. CASE Signal
  BY <1>4, SignalInv
<1>5. CASE UNCHANGED vars
  <2>1. TypeOK'
    BY <1>5 DEF Inv, TypeOK, vars, process, clients
  <2>2. PortInv' /\ RoundInv' /\ RequestInv'
    BY <1>5 DEF Inv, PortInv, RoundInv, RequestInv, vars, process, clients
  <2> QED
    BY <2>1, <2>2 DEF Inv
<1> QED
  BY <1>1, <1>2, <1>3, <1>4, <1>5 DEF Next, Main, MainStep

LEMMA InvHolds == Spec => []Inv
BY InitInv, NextInv, PTL DEF Spec

----------------------------------------------------------------------------
(***************************************************************************)
(* The theorems.                                                           *)
(***************************************************************************)

\* No session handles more requests than its client has sent, and every place
\* the process may be in is one of main's, poll's or an end.
THEOREM TypeCorrect == Spec => []TypeOK
<1>1. Inv => TypeOK
  BY DEF Inv
<1> QED
  BY <1>1, InvHolds, PTL

\* Server::instance: the loop serves players on the port main has asked for,
\* also when a signal was faster than main and constructed the Server.
THEOREM ServesTheRightPort == Spec => []ServesItsOwnPort
<1>1. Inv => ServesItsOwnPort
  BY DEF Inv, TypeOK, PortInv, ServesItsOwnPort, Serving
<1> QED
  BY <1>1, InvHolds, PTL

\* Server::shutdown: at most one more iteration is finished after a signal.
THEOREM StopsAfterTheRound == Spec => []OneMoreRound
<1>1. Inv => OneMoreRound
  BY DEF Inv, RoundInv, OneMoreRound
<1> QED
  BY <1>1, InvHolds, PTL

\* Session_repository::do_close: at most one more request of each session is
\* handled, for any number of clients, requests and signals.
THEOREM StopsAfterTheRequest == Spec => []OneMoreRequest
<1>1. Inv => OneMoreRequest
  BY DEF Inv, RequestInv, OneMoreRequest
<1> QED
  BY <1>1, InvHolds, PTL

\* While every descriptor is taken and a client waits, a step of the server or
\* of a client opens and closes none.
LEMMA NoDescriptorComesBack ==
    ASSUME Inv, [Next]_vars, AcceptsForEver
    PROVE  AcceptsForEver' \/ main' = "stuck"
<1>1. main = "polling" /\ ~(Cardinality(Open) < Descriptors)
  <2>1. IsFiniteSet(Open)
    BY ShutdownAssumption, FS_Subset DEF Open
  <2>2. Cardinality(Open) \in Nat
    BY <2>1, FS_CardinalityType
  <2> QED
    BY <2>2, ShutdownAssumption DEF AcceptsForEver
<1>2. PICK w \in Clients : conn[w] = "backlog"
  BY DEF AcceptsForEver
<1>3. ASSUME main' = "polling", conn'[w] = "backlog",
             \A d \in Clients : conn'[d] \in {"inserting", "reading", "replying", "idle"}
                          <=> conn[d] \in {"inserting", "reading", "replying", "idle"}
      PROVE  AcceptsForEver'
  <2>1. Open' = Open
    BY <1>3 DEF Open
  <2> QED
    BY <1>3, <2>1 DEF AcceptsForEver
<1>4. CASE MainStep
  \* Only the end of poll would be a step, and w has still to be accepted.
  BY <1>1, <1>2, <1>4 DEF MainStep, CallInstance, Construct, BindFails, Start,
     TestFlag, EndPoll, Work, ReturnFromMain, Exit
<1>5. ASSUME NEW c \in Clients, Handler(c) PROVE AcceptsForEver'
  <2>1. ~BeginAccept(c) /\ ~EndAccept(c)
    BY <1>1 DEF BeginAccept, EndAccept
  <2>2. main' = "polling" /\ conn \in [Clients -> {"away", "backlog", "inserting",
                                                   "reading", "replying", "idle"}]
    BY <1>1, <1>5, <2>1 DEF Inv, TypeOK, Handler, AcceptFails, Handle, Replied,
       Fails, vars, process
  <2>3. \/ conn' = conn
        \/ /\ conn[c] \in {"reading", "replying"}
           /\ \E to \in {"reading", "replying", "idle"} : conn' = [conn EXCEPT ![c] = to]
    BY <1>5, <2>1 DEF Handler, AcceptFails, Handle, Replied, Fails, vars, clients
  <2> QED
    BY <1>2, <1>3, <2>2, <2>3
<1>6. ASSUME NEW c \in Clients, Connect(c) \/ Send(c) \/ LeaveServer(c)
      PROVE  AcceptsForEver'
  <2>1. main' = "polling" /\ conn \in [Clients -> {"away", "backlog", "inserting",
                                                   "reading", "replying", "idle"}]
    BY <1>1, <1>6 DEF Inv, TypeOK, Connect, Send, LeaveServer, process
  <2>2. \/ conn' = conn
        \/ conn[c] = "away" /\ conn' = [conn EXCEPT ![c] = "backlog"]
    BY <1>6 DEF Connect, Send, LeaveServer
  <2> QED
    BY <1>2, <1>3, <2>1, <2>2
<1>7. CASE Signal
  <2>1. CASE Shutdown
    BY <1>1, <1>2, <1>3, <2>1 DEF Shutdown
  <2>2. CASE InsideLogCall \/ Undefined
    BY <1>1, <2>2 DEF InsideLogCall, Undefined
  <2> QED
    BY <1>7, <2>1, <2>2 DEF Signal
<1>8. CASE UNCHANGED vars
  BY <1>1, <1>2, <1>3, <1>8 DEF vars, process, clients
<1> QED
  BY <1>4, <1>5, <1>6, <1>7, <1>8 DEF Next, Main, MainStep

\* Session_repository: once the descriptors are used up and a client waits, the
\* main loop stands still for good, whatever clients do and however often SIGINT
\* comes: sessions are never erased, so no descriptor comes back.
THEOREM OutOfDescriptorsForGood == Spec => NeverGetsOneBack
<1>1. Inv /\ [Next]_vars => [AcceptsForEver => AcceptsForEver' \/ main' = "stuck"]_vars
  BY NoDescriptorComesBack
<1> QED
  BY <1>1, InvHolds, PTL DEF Spec, NeverGetsOneBack
=============================================================================
