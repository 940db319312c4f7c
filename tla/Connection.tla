----------------------------- MODULE Connection -----------------------------
(***************************************************************************)
(* One client's Session and the server's Session for it, joined by a TCP   *)
(* connection.  The client (src/src/client/application.cpp) issues         *)
(* requests through schedule_request; the server answers each with         *)
(* Session_repository::do_read (src/src/server/session-repository.cpp),    *)
(* which reads one packet, handles it, writes the reply and only then      *)
(* reads again.  Each process runs its handlers from io_context::poll() on *)
(* one thread, so a completion handler is one step.                        *)
(***************************************************************************)
EXTENDS Session

CONSTANTS MaxRequests,  \* bound on the requests the client issues
          Throwing,     \* requests whose on_replied may throw std::runtime_error
          Unparsable,   \* requests the server's JSON parser rejects
          Faults        \* ends that may go away while the other is running

ASSUME ConstantsAssumption ==
    /\ MaxRequests \in Nat
    /\ Throwing \subseteq 1..MaxRequests
    /\ Unparsable \subseteq 1..MaxRequests

Ends == {"client", "server"}

ASSUME FaultsAssumption == Faults \subseteq Ends

Peer(e) == IF e = "client" THEN "server" ELSE "client"

OnRequest == 0  \* the one callback of the server's session: handle and reply

VARIABLES sess,        \* the Session object of each end
          net,         \* fragments each end has sent and its peer not received
          up,          \* whether the end's process and socket still exist
          shouldRead,  \* the server's _sessions_should_read[session]
          issued, handled, delivered  \* history, as in RpcChannel

vars == <<sess, net, up, shouldRead, issued, handled, delivered>>
history == <<issued, handled, delivered>>

\* The client has connected, the server has accepted and called do_read.
Init ==
    /\ sess = [e \in Ends |-> IF e = "server"
                              THEN ScheduleRead(NewSession, OnRequest)
                              ELSE NewSession]
    /\ net = [e \in Ends |-> <<>>]
    /\ up = [e \in Ends |-> TRUE]
    /\ shouldRead = TRUE
    /\ issued = 0
    /\ handled = <<>>
    /\ delivered = <<>>

----------------------------------------------------------------------------
(***************************************************************************)
(* The kernel and asio's composed operations: async_write hands over the   *)
(* buffer piecemeal, and async_read_until receives until the buffer holds  *)
(* a newline, possibly receiving more than one line.                       *)
(***************************************************************************)
KernelSend(e) ==
    LET buf == sess[e].wbuf
    IN  /\ up[e] /\ up[Peer(e)]
        /\ sess[e].writing > 0
        /\ \E k \in 1..Len(buf) :
              /\ net' = [net EXCEPT ![e] = @ \o SubSeq(buf, 1, k)]
              /\ sess' = [sess EXCEPT ![e].wbuf = SubSeq(buf, k + 1, Len(buf))]
        /\ UNCHANGED <<up, shouldRead, history>>

KernelReceive(e) ==
    LET in == net[Peer(e)]
    IN  /\ up[e]
        /\ sess[e].reading > 0
        /\ ~HasLine(sess[e].rbuf)
        /\ \E k \in 1..Len(in) :
              /\ sess' = [sess EXCEPT ![e].rbuf = @ \o SubSeq(in, 1, k)]
              /\ net' = [net EXCEPT ![Peer(e)] = SubSeq(in, k + 1, Len(in))]
        /\ UNCHANGED <<up, shouldRead, history>>

----------------------------------------------------------------------------
(***************************************************************************)
(* Completion handlers.                                                    *)
(***************************************************************************)
WriteDone(e) ==
    /\ up[e]
    /\ sess[e].writing > 0
    /\ sess[e].wbuf = <<>>
    /\ sess' = [sess EXCEPT ![e] = Written(@, e = "client" \/ shouldRead)]
    /\ UNCHANGED <<net, up, shouldRead, history>>

LineReady(e) ==
    /\ up[e]
    /\ sess[e].reading > 0
    /\ HasLine(sess[e].rbuf)

\* Mutant: the next read is scheduled with the reply, not after it.
ServeAndReadOn(s, p) ==
    PopRead(ScheduleRead(ScheduleWrite(TakeLine(s), p, OnRequest), OnRequest))

\* What do_read's callback does with a packet that parses: handle it and
\* schedule the reply; the next read is scheduled when the reply is written.
Serve(s, p) == PopRead(ScheduleWrite(TakeLine(s), p, OnRequest))

ServerRead ==
    LET p == FirstPacket(sess["server"].rbuf)
    IN  /\ LineReady("server")
        /\ p \notin Unparsable
        /\ handled' = Append(handled, p)
        /\ sess' = [sess EXCEPT !["server"] = Serve(@, p)]
        /\ UNCHANGED <<net, up, shouldRead, issued, delivered>>

\* json::parse stands before the try block, and its exception is not a
\* runtime_error: it leaves poll() and run() and ends the process.
ServerParseError ==
    /\ LineReady("server")
    /\ FirstPacket(sess["server"].rbuf) \in Unparsable
    /\ up' = [up EXCEPT !["server"] = FALSE]
    /\ sess' = [sess EXCEPT !["server"] = TakeLine(@)]
    /\ UNCHANGED <<net, shouldRead, history>>

\* The callback at the front of the queue is given the packet, whichever
\* request the packet answers.
Deliver(s) ==
    delivered' = Append(delivered, <<Head(s.reads), FirstPacket(s.rbuf)>>)

ClientRead ==
    LET s == sess["client"]
    IN  /\ LineReady("client")
        /\ Deliver(s)
        /\ sess' = [sess EXCEPT !["client"] = PopRead(TakeLine(s))]
        /\ UNCHANGED <<net, up, shouldRead, issued, handled>>

\* schedule_continuous_query_event: the callback issues the next request.
ClientReadAndRequest ==
    LET s == sess["client"]
    IN  /\ LineReady("client")
        /\ issued < MaxRequests
        /\ Deliver(s)
        /\ issued' = issued + 1
        /\ sess' = [sess EXCEPT !["client"] =
                        PopRead(ScheduleRequest(TakeLine(s), issued + 1))]
        /\ UNCHANGED <<net, up, shouldRead, handled>>

\* The callback throws, as those of "move" and "speed-up" do when the reply is
\* an error, and the handler catches: the queue is not popped and no read is
\* started.
ClientReadThrows ==
    LET s == sess["client"]
    IN  /\ LineReady("client")
        /\ Head(s.reads) \in Throwing
        /\ Deliver(s)
        /\ sess' = [sess EXCEPT !["client"] = TakeLine(s)]
        /\ UNCHANGED <<net, up, shouldRead, issued, handled>>

\* An operation of one end fails once the other has gone; a reset may discard
\* what was still in flight.
ReadFails(e) ==
    /\ up[e] /\ ~up[Peer(e)]
    /\ sess[e].reading > 0
    /\ ~HasLine(sess[e].rbuf)
    /\ sess' = [sess EXCEPT ![e] = ReadAborted(@)]
    /\ UNCHANGED <<net, up, shouldRead, history>>

WriteFails(e) ==
    /\ up[e] /\ ~up[Peer(e)]
    /\ sess[e].writing > 0
    /\ sess' = [sess EXCEPT ![e] = WriteAborted(@)]
    /\ UNCHANGED <<net, up, shouldRead, history>>

----------------------------------------------------------------------------
(***************************************************************************)
(* The code above the sessions.                                            *)
(***************************************************************************)

\* Application::async_request, from the main loop or a key callback.
Request ==
    /\ up["client"]
    /\ issued < MaxRequests
    /\ issued' = issued + 1
    /\ sess' = [sess EXCEPT !["client"] = ScheduleRequest(@, issued + 1)]
    /\ UNCHANGED <<net, up, shouldRead, handled, delivered>>

\* Session_repository::do_close, when the server is asked to shut down.
DoClose ==
    /\ "server" \in Faults
    /\ up["server"] /\ shouldRead
    /\ shouldRead' = FALSE
    /\ UNCHANGED <<sess, net, up, history>>

\* The process ends and its socket with it: the player closes the window, the
\* server leaves its main loop, or either is killed.
Close(e) ==
    /\ e \in Faults
    /\ up[e]
    /\ up' = [up EXCEPT ![e] = FALSE]
    /\ UNCHANGED <<sess, net, shouldRead, history>>

Next ==
    \/ Request
    \/ ServerRead
    \/ ServerParseError
    \/ ClientRead
    \/ ClientReadAndRequest
    \/ ClientReadThrows
    \/ DoClose
    \/ \E e \in Ends :
          \/ KernelSend(e)
          \/ KernelReceive(e)
          \/ WriteDone(e)
          \/ ReadFails(e)
          \/ WriteFails(e)
          \/ Close(e)

Spec == Init /\ [][Next]_vars

\* Both main loops call poll() in every iteration, so a handler that is ready
\* runs; the kernel moves the bytes.  Neither the player nor the end of a
\* process is fair.
Fairness ==
    /\ WF_vars(ServerRead \/ ServerParseError)
    /\ WF_vars(ClientRead \/ ClientReadAndRequest \/ ClientReadThrows)
    /\ \A e \in Ends : /\ WF_vars(KernelSend(e))
                       /\ WF_vars(KernelReceive(e))
                       /\ WF_vars(WriteDone(e))

FairSpec == Spec /\ Fairness

----------------------------------------------------------------------------
(***************************************************************************)
(* Properties.                                                             *)
(***************************************************************************)
Fragments == [packet : 1..MaxRequests, last : BOOLEAN]

SessionType ==
    [reads   : Seq(0..MaxRequests),
     writes  : Seq([packet : 1..MaxRequests, callback : 0..MaxRequests]),
     reading : Nat,
     writing : Nat,
     rbuf    : Seq(Fragments),
     wbuf    : Seq(Fragments)]

TypeOK ==
    /\ sess \in [Ends -> SessionType]
    /\ net \in [Ends -> Seq(Fragments)]
    /\ up \in [Ends -> BOOLEAN]
    /\ shouldRead \in BOOLEAN
    /\ issued \in 0..MaxRequests
    /\ handled \in Seq(1..MaxRequests)
    /\ delivered \in Seq((0..MaxRequests) \X (1..MaxRequests))

\* No interleaving of scheduling calls, callbacks that schedule more work and
\* completions ever has two writes, or two reads, of one session outstanding:
\* a second write would overwrite _write_buf while the kernel reads it
\* (session.h: "at most one instance of this function running").
AtMostOneInFlight ==
    \A e \in Ends : sess[e].reading <= 1 /\ sess[e].writing <= 1

\* Whenever an operation completes, the queue its handler takes the front of
\* is not empty, so front() and pop() in do_async_read and do_async_write are
\* always defined.
FrontExists ==
    \A e \in Ends : /\ sess[e].reading > 0 => sess[e].reads # <<>>
                    /\ sess[e].writing > 0 => sess[e].writes # <<>>

\* While the server serves a client, it has either one read or one reply
\* pending, never both and never more: however many requests the client
\* pipelines, request n+1 is handled only after reply n has been written.
ServerAlternates ==
    up["server"] /\ shouldRead =>
        Len(sess["server"].reads) + Len(sess["server"].writes) = 1

\* The front callback has been given a reply already: it threw, and the handler
\* left it where it was.
CallbackThrew ==
    \E i \in DOMAIN delivered :
        /\ sess["client"].reads # <<>>
        /\ delivered[i][1] = Head(sess["client"].reads)

\* While both ends are up, the only thing that ever stops a worker with work
\* pending is a callback that throws, and it stops the client's reading only:
\* whatever it has queued is still sent, and the server goes on.
StopsOnlyByThrow ==
    up["client"] /\ up["server"] =>
        \A e \in Ends :
            /\ sess[e].writes # <<>> => sess[e].writing > 0
            /\ sess[e].reads # <<>> => \/ sess[e].reading > 0
                                       \/ e = "client" /\ CallbackThrew

\* The connection implements the request/reply channel, callbacks that throw,
\* requests that end the server and ends that go away included.
Channel == INSTANCE RpcChannel WITH issued <- issued, handled <- handled,
                                    delivered <- delivered
ChannelSpec == Channel!Spec

\* Every request the client has issued is answered in the end, unless one end
\* goes away, the server stops reading or an earlier callback has thrown.
EveryRequestAnswered ==
    \A i \in 1..MaxRequests :
        issued >= i ~> \/ Len(delivered) >= i
                       \/ ~up["client"] \/ ~up["server"] \/ ~shouldRead
                       \/ CallbackThrew

\* The comment on the class (session.h:10-12): "a worker keeping to check
\* pending packets and to send them", "And now there be a reading worker same
\* as sending worker".  While both ends are up, a queue that is not empty has
\* its worker.
WorkerKeepsWorking ==
    up["client"] /\ up["server"] =>
        \A e \in Ends : /\ sess[e].reads # <<>> => sess[e].reading > 0
                        /\ sess[e].writes # <<>> => sess[e].writing > 0
=============================================================================
