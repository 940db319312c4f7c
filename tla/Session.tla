------------------------------ MODULE Session ------------------------------
(***************************************************************************)
(* The Session class (src/src/session.{h,cpp}): one end of a TCP           *)
(* connection, with a queue of callbacks waiting for a packet to be read,  *)
(* a queue of packets waiting to be written, and at most one asynchronous  *)
(* operation of each kind outstanding.                                     *)
(*                                                                         *)
(* The member functions call each other (a completion handler calls the    *)
(* callback, which schedules more work, before the handler pops its        *)
(* queue), so each is a function from the session's state to its next      *)
(* state, composed by the actions of module Connection.                    *)
(***************************************************************************)
EXTENDS Integers, Sequences

(***************************************************************************)
(* A packet is named by a number.  Its bytes reach the peer in fragments:  *)
(* the JSON text, then the newline that do_async_write appends.            *)
(***************************************************************************)
Encode(p) == << [packet |-> p, last |-> FALSE], [packet |-> p, last |-> TRUE] >>

HasLine(buf) == \E i \in DOMAIN buf : buf[i].last

LineEnd(buf) ==
    CHOOSE i \in DOMAIN buf : buf[i].last /\ \A j \in 1..(i - 1) : ~buf[j].last

\* The packet that parsing the first line of the buffer yields.
FirstPacket(buf) == buf[1].packet

----------------------------------------------------------------------------
(***************************************************************************)
(* reads    _pending_reads: the callbacks, oldest first                    *)
(* writes   _pending_writes: the packets, each with the callback that its  *)
(*          post_write passes to schedule_read                             *)
(* reading, writing   how many async_read_until, async_write operations    *)
(*          are outstanding                                                *)
(* rbuf     _read_buf                                                      *)
(* wbuf     the part of _write_buf the kernel has not taken yet            *)
(***************************************************************************)
NewSession ==
    [reads |-> <<>>, writes |-> <<>>, reading |-> 0, writing |-> 0,
     rbuf |-> <<>>, wbuf |-> <<>>]

DoAsyncRead(s) == [s EXCEPT !.reading = @ + 1]

DoAsyncWrite(s) ==
    [s EXCEPT !.wbuf = Encode(Head(s.writes).packet), !.writing = @ + 1]

\* Mutant: a read is started although one may be outstanding.
ScheduleReadAlwaysStarts(s, cb) == DoAsyncRead([s EXCEPT !.reads = Append(@, cb)])

\* A worker is started only when none is running: the queue was empty.
ScheduleRead(s, cb) ==
    LET queued == [s EXCEPT !.reads = Append(@, cb)]
    IN  IF s.reads = <<>> THEN DoAsyncRead(queued) ELSE queued

ScheduleWrite(s, p, cb) ==
    LET queued == [s EXCEPT !.writes = Append(@, [packet |-> p, callback |-> cb])]
    IN  IF s.writes = <<>> THEN DoAsyncWrite(queued) ELSE queued

\* Mutant: the callback is captured for the request after this one.
ScheduleRequestOffByOne(s, p) == ScheduleWrite(s, p, p + 1)

\* The request's own callback is scheduled to read once the request is written.
ScheduleRequest(s, p) == ScheduleWrite(s, p, p)

----------------------------------------------------------------------------
(***************************************************************************)
(* The pieces of the two completion handlers.                              *)
(***************************************************************************)

\* Mutant: the handler discards what arrived behind the line.
TakeWholeBuffer(s) == [s EXCEPT !.reading = @ - 1, !.rbuf = <<>>]

\* The read handler takes one line and leaves the rest in the buffer.
TakeLine(s) ==
    [s EXCEPT !.reading = @ - 1,
              !.rbuf = SubSeq(@, LineEnd(@) + 1, Len(@))]

\* Mutant: the handler reads on whether or not a callback waits.
PopReadAlwaysReads(s) == DoAsyncRead([s EXCEPT !.reads = Tail(@)])

\* Mutant: the handler does not read on.
PopReadOnce(s) == [s EXCEPT !.reads = Tail(@)]

\* After the callback returned: pop it, and read on while callbacks wait.
PopRead(s) ==
    LET popped == [s EXCEPT !.reads = Tail(@)]
    IN  IF popped.reads = <<>> THEN popped ELSE DoAsyncRead(popped)

\* Mutant: the handler does not write on.
PopWriteOnce(s) == [s EXCEPT !.writes = Tail(@)]

\* After post_write returned: pop the packet, and write on while packets wait.
PopWrite(s) ==
    LET popped == [s EXCEPT !.writes = Tail(@)]
    IN  IF popped.writes = <<>> THEN popped ELSE DoAsyncWrite(popped)

\* The write handler's success path.  post_write runs BEFORE the pop, so that
\* what it schedules finds the queue non-empty; resume says whether post_write
\* schedules the read at all.
Written(s, resume) ==
    LET done == [s EXCEPT !.writing = @ - 1]
    IN  PopWrite(IF resume THEN ScheduleRead(done, Head(s.writes).callback)
                           ELSE done)

\* The error paths return at once: nothing is popped, nothing is restarted.
ReadAborted(s)  == [s EXCEPT !.reading = @ - 1]
WriteAborted(s) == [s EXCEPT !.writing = @ - 1]
============================================================================
