--------------------------- MODULE ServerShutdown ---------------------------
(***************************************************************************)
(* The server process from main() to its end: the construction of the      *)
(* Server singleton, its main loop, the sessions it accepts, and SIGINT,   *)
(* whose handler calls Server::instance().shutdown() on top of whatever    *)
(* the one thread of the process is doing.  A signal handler runs to its   *)
(* end before the interrupted code goes on, so a delivery is one step; it  *)
(* may come between any two steps of main.                                 *)
(*                                                                         *)
(* Connection shows that a session of the server has one read or one reply *)
(* pending, never both (ServerAlternates): here a session is in one of     *)
(* these two states.                                                       *)
(***************************************************************************)
EXTENDS Integers, FiniteSets

CONSTANTS Clients,      \* the clients that may connect, once each
          Descriptors,  \* sockets the process may open for sessions
          MaxRequests   \* bound on the requests of one client

ASSUME ShutdownAssumption ==
    /\ IsFiniteSet(Clients)
    /\ Descriptors \in Nat
    /\ MaxRequests \in Nat

NoServer == -1       \* the port of a Server that has not been constructed
ServerPort == 1438   \* the argument main() passes to Server::instance
DefaultPort == 0     \* instance's default argument: the system picks a port

VARIABLES
    main,        \* what the process is doing
    port,        \* the port the singleton was constructed with
    stop,        \* Server::_main_game_loop_should_stop
    conn,        \* where each client's connection is
    left,        \* whether the client has closed its end
    sent,        \* how many requests it has sent
    handled,     \* how many of them _on_read has handled
    shouldRead,  \* _sessions_should_read
    signalled,   \* history: SIGINT has been delivered
    rounds,      \* history: iterations finished since then
    extra        \* history: requests of a session handled after do_close

process == <<main, port, stop>>
clients == <<conn, left, sent, handled, shouldRead, extra>>
vars == <<process, clients, signalled, rounds>>

\* "inserting" is the part of "polling" that links a session into the map.
Running == {"main", "building", "starting", "testing", "polling",
            "inserting", "working", "over", "leaving"}
Ended == {"exited", "dead", "stuck"}

Open == {c \in Clients : conn[c] \in {"inserting", "reading", "replying", "idle"}}

\* std::signal has been called; the static Server does not exist yet.
Init ==
    /\ main = "main"
    /\ port = NoServer
    /\ stop = FALSE
    /\ conn = [c \in Clients |-> "away"]
    /\ left = [c \in Clients |-> FALSE]
    /\ sent = [c \in Clients |-> 0]
    /\ handled = [c \in Clients |-> 0]
    /\ shouldRead = [c \in Clients |-> FALSE]
    /\ signalled = FALSE
    /\ rounds = 0
    /\ extra = [c \in Clients |-> 0]

----------------------------------------------------------------------------
(***************************************************************************)
(* main() and Server::run().                                               *)
(***************************************************************************)
\* Main goes on to another place and touches nothing else.
Goto(to) == main' = to /\ UNCHANGED <<port, stop, clients, signalled, rounds>>

\* Server::instance(1438): nothing to construct when a signal was faster.
CallInstance ==
    /\ main = "main"
    /\ Goto(IF port = NoServer THEN "building" ELSE "starting")

Construct ==
    /\ main = "building"
    /\ port' = ServerPort
    /\ main' = "starting"
    /\ UNCHANGED <<stop, clients, signalled, rounds>>

\* The port is in use: the acceptor's constructor throws, and the process ends
\* by std::terminate or, in a release build, by main's catch clause.
BindFails == main = "building" /\ Goto("dead")

\* Mutant: run() clears the flag before it enters the loop.
StartAfresh ==
    /\ main = "starting"
    /\ stop' = FALSE
    /\ main' = "testing"
    /\ UNCHANGED <<port, clients, signalled, rounds>>

\* Session_service::start arms the acceptor; the flag is left as it is, so a
\* shutdown that came first still counts.
Start == main = "starting" /\ Goto("testing")

TestFlag == main = "testing" /\ Goto(IF stop THEN "over" ELSE "polling")

Readable(c) == conn[c] = "reading" /\ (handled[c] < sent[c] \/ left[c])

\* Mutant: io_context::run, which returns when there is nothing to wait for;
\* the next accept always is.
RunInstead == main = "polling" /\ FALSE /\ Goto("working")

\* io_context::poll returns when no handler is ready; a reply the client does
\* not take in need not be.
EndPoll ==
    /\ main = "polling"
    /\ \A c \in Clients : conn[c] # "backlog" /\ ~Readable(c)
    /\ Goto("working")

\* Battles are updated, players moved, and main sleeps until the next tick.
Work ==
    /\ main = "working"
    /\ main' = "testing"
    /\ rounds' = IF signalled THEN rounds + 1 ELSE rounds
    /\ UNCHANGED <<port, stop, clients, signalled>>

ReturnFromMain == main = "over" /\ Goto("leaving")

\* The static Server is destroyed and the process is gone.
Exit == main = "leaving" /\ Goto("exited")

----------------------------------------------------------------------------
(***************************************************************************)
(* The handlers poll() runs (Session_repository).                          *)
(***************************************************************************)

\* do_accept's handler: a session is made for the socket and, while the map's
\* node is linked, the map is in no state in which it can be walked.
BeginAccept(c) ==
    /\ main = "polling"
    /\ conn[c] = "backlog"
    /\ Cardinality(Open) < Descriptors
    /\ main' = "inserting"
    /\ conn' = [conn EXCEPT ![c] = "inserting"]
    /\ shouldRead' = [shouldRead EXCEPT ![c] = TRUE]
    /\ UNCHANGED <<port, stop, left, sent, handled, extra, signalled, rounds>>

\* ... then do_read starts the first read, and do_accept the next accept.
EndAccept(c) ==
    /\ main = "inserting"
    /\ conn[c] = "inserting"
    /\ main' = "polling"
    /\ conn' = [conn EXCEPT ![c] = "reading"]
    /\ UNCHANGED <<port, stop, left, sent, handled, shouldRead, extra,
                   signalled, rounds>>

\* No descriptor is left: the handler logs the error and accepts again, which
\* fails at once, for the connection is still waiting.
AcceptFails(c) ==
    /\ main = "polling"
    /\ conn[c] = "backlog"
    /\ Cardinality(Open) >= Descriptors
    /\ UNCHANGED vars

\* Mutant: the end of the connection is taken for a packet.
HandleAnyway(c) ==
    /\ main = "polling"
    /\ Readable(c)
    /\ conn' = [conn EXCEPT ![c] = "replying"]
    /\ handled' = [handled EXCEPT ![c] = @ + 1]
    /\ extra' = [extra EXCEPT ![c] = IF shouldRead[c] THEN @ ELSE @ + 1]
    /\ UNCHANGED <<process, left, sent, shouldRead, signalled, rounds>>

\* do_read's callback: _on_read, then the reply is scheduled.
Handle(c) ==
    /\ main = "polling"
    /\ conn[c] = "reading"
    /\ handled[c] < sent[c]
    /\ conn' = [conn EXCEPT ![c] = "replying"]
    /\ handled' = [handled EXCEPT ![c] = @ + 1]
    /\ extra' = [extra EXCEPT ![c] = IF shouldRead[c] THEN @ ELSE @ + 1]
    /\ UNCHANGED <<process, left, sent, shouldRead, signalled, rounds>>

\* Mutant: post_write reads on without looking at the flag.
RepliedReadsOn(c) ==
    /\ main = "polling"
    /\ conn[c] = "replying"
    /\ conn' = [conn EXCEPT ![c] = "reading"]
    /\ UNCHANGED <<process, left, sent, handled, shouldRead, extra, signalled, rounds>>

\* post_write reads on unless do_close has cleared the session's flag.  A
\* session that does not read on stays in the map with its socket.
Replied(c) ==
    /\ main = "polling"
    /\ conn[c] = "replying"
    /\ conn' = [conn EXCEPT ![c] = IF shouldRead[c] THEN "reading" ELSE "idle"]
    /\ UNCHANGED <<process, left, sent, handled, shouldRead, extra, signalled, rounds>>

\* Mutant: the session is destroyed, and its socket closed, with its handler.
FailsAndCloses(c) ==
    /\ main = "polling"
    /\ left[c]
    /\ \/ conn[c] = "reading" /\ handled[c] = sent[c]
       \/ conn[c] = "replying"
    /\ conn' = [conn EXCEPT ![c] = "away"]
    /\ UNCHANGED <<process, left, sent, handled, shouldRead, extra, signalled, rounds>>

\* Once the client has gone the read ends in eof, and a write may fail: the
\* handler returns, and the session and its descriptor stay in the map.
Fails(c) ==
    /\ main = "polling"
    /\ left[c]
    /\ \/ conn[c] = "reading" /\ handled[c] = sent[c]
       \/ conn[c] = "replying"
    /\ conn' = [conn EXCEPT ![c] = "idle"]
    /\ UNCHANGED <<process, left, sent, handled, shouldRead, extra, signalled, rounds>>

----------------------------------------------------------------------------
(***************************************************************************)
(* The clients: the system completes a connection by itself, and requests  *)
(* may be sent before it is accepted.  What comes for a session that does  *)
(* not read any more, or after the loop has ended, is never looked at.     *)
(***************************************************************************)
Listening ==
    /\ port = ServerPort
    /\ main \in {"starting", "testing", "polling", "inserting", "working"}

Connect(c) ==
    /\ Listening
    /\ conn[c] = "away" /\ ~left[c]
    /\ conn' = [conn EXCEPT ![c] = "backlog"]
    /\ UNCHANGED <<process, left, sent, handled, shouldRead, extra, signalled, rounds>>

Send(c) ==
    /\ Listening
    /\ conn[c] \notin {"away", "idle"} /\ ~left[c]
    /\ sent[c] < MaxRequests
    /\ sent' = [sent EXCEPT ![c] = @ + 1]
    /\ UNCHANGED <<process, conn, left, handled, shouldRead, extra, signalled, rounds>>

LeaveServer(c) ==
    /\ Listening
    /\ conn[c] \notin {"away", "idle"} /\ ~left[c]
    /\ left' = [left EXCEPT ![c] = TRUE]
    /\ UNCHANGED <<process, conn, sent, handled, shouldRead, extra, signalled, rounds>>

----------------------------------------------------------------------------
(***************************************************************************)
(* signal_handler.                                                         *)
(***************************************************************************)

\* Session_repository::do_close clears the flag of every session it walks over;
\* one that is being linked may be missed.
DoClose ==
    \E missed \in SUBSET {c \in Clients : conn[c] = "inserting"} :
        shouldRead' = [c \in Clients |-> c \in missed /\ shouldRead[c]]

\* Mutant: the sessions are closed, the loop is not told.
ShutdownSessionsOnly ==
    /\ main \in Running \ {"building"}
    /\ port' = IF port = NoServer THEN DefaultPort ELSE port
    /\ DoClose
    /\ UNCHANGED <<main, stop, conn, left, sent, handled, extra, rounds>>

\* Server::instance().shutdown().  instance() constructs the server when main
\* has not come to it yet; shutdown logs, stops the service and sets the flag.
Shutdown ==
    /\ main \in Running \ {"building"}
    /\ port' = IF port = NoServer THEN DefaultPort ELSE port
    /\ DoClose
    /\ stop' = TRUE
    /\ UNCHANGED <<main, conn, left, sent, handled, extra, rounds>>

\* A log call of the code it interrupts holds the mutex of a sink, and the
\* handler's own first log call waits for it for ever.
InsideLogCall ==
    /\ main \in {"starting", "polling", "over"}
    /\ main' = "stuck"
    /\ UNCHANGED <<port, stop, clients, rounds>>

\* What it may do where it is not defined: while the static Server is
\* constructed (the initialisation is entered again) or destroyed, while the
\* code it interrupts links a session's node (the walk may fail), and in main(),
\* whose allocations it may interrupt with its own.
Undefined ==
    /\ main \in {"main", "building", "inserting", "leaving"}
    /\ main' \in {"dead", "stuck"}
    /\ UNCHANGED <<port, stop, clients, rounds>>

Signal == signalled' = TRUE /\ (Shutdown \/ InsideLogCall \/ Undefined)

----------------------------------------------------------------------------
Handler(c) == \/ BeginAccept(c) \/ EndAccept(c) \/ AcceptFails(c)
              \/ Handle(c) \/ Replied(c) \/ Fails(c)

Main ==
    \/ CallInstance \/ Construct \/ BindFails \/ Start \/ TestFlag
    \/ EndPoll \/ Work \/ ReturnFromMain \/ Exit
    \/ \E c \in Clients : Handler(c)

Next ==
    \/ Main
    \/ Signal
    \/ \E c \in Clients : Connect(c) \/ Send(c) \/ LeaveServer(c)

Spec == Init /\ [][Next]_vars

\* The one thread goes on whenever it can; signals and clients are not fair.
FairSpec == Spec /\ WF_vars(Main)

----------------------------------------------------------------------------
(***************************************************************************)
(* Properties.                                                             *)
(***************************************************************************)
TypeOK ==
    /\ main \in Running \cup Ended
    /\ port \in {NoServer, DefaultPort, ServerPort}
    /\ stop \in BOOLEAN
    /\ conn \in [Clients -> {"away", "backlog", "inserting", "reading",
                            "replying", "idle"}]
    /\ left \in [Clients -> BOOLEAN]
    /\ sent \in [Clients -> 0..MaxRequests]
    /\ handled \in [Clients -> 0..MaxRequests]
    /\ \A c \in Clients : handled[c] <= sent[c]
    /\ shouldRead \in [Clients -> BOOLEAN]
    /\ signalled \in BOOLEAN
    /\ rounds \in Nat
    /\ extra \in [Clients -> Nat]

\* A signal that comes before main has constructed the Server makes one that
\* listens on a port nobody knows (instance's default argument); whatever the
\* order, it is never that one the main loop serves (server.cpp:7, 24).
ServesItsOwnPort ==
    main \in {"polling", "inserting", "working"} => port = ServerPort

\* Wherever the signal comes, even before the loop or the Server exist, the
\* loop finishes the iteration it is in and starts no other (server.cpp:78).
OneMoreRound == rounds <= 1

\* A session do_close has been told to stop handles at most the one request it
\* was already reading, however many the client has sent ahead and however the
\* signal falls between the reply and the next read (session-repository.cpp:37).
OneMoreRequest == \A c \in Clients : extra[c] <= 1

\* Every descriptor is taken and a client waits: each accept fails at once, the
\* next one is started by its handler, and poll does not return any more.
AcceptsForEver ==
    /\ main = "polling"
    /\ Cardinality(Open) >= Descriptors
    /\ \E c \in Clients : conn[c] = "backlog"

\* A server out of descriptors with a client waiting never leaves that poll: no
\* client that goes away, no failed read, no reply and no do_close gives one
\* back, as nothing is ever erased from the map of sessions
\* (session-repository.cpp:29), so the loop is over for every player.  Only a
\* signal that hangs in its own handler changes what the process does.
NeverGetsOneBack == [][AcceptsForEver => AcceptsForEver' \/ main' = "stuck"]_vars

\* After a signal the process ends, unless it cannot get out of poll for want of
\* descriptors: no connection that is open, no client that went away and no
\* request still to be handled keeps the loop from testing the flag.
ServerEnds == signalled ~> main \in Ended \/ AcceptsForEver
=============================================================================
