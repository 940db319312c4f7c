-------------------------- MODULE ConnectionProofs --------------------------
(***************************************************************************)
(* Theorems about module Connection, for every number of requests, every   *)
(* set of throwing callbacks and unparsable requests and either end going  *)
(* away at any time.                                                       *)
(*                                                                         *)
(* The invariant is proved session by session: SessionOK is what every     *)
(* member function of Session keeps, as long as it is called the way the   *)
(* completion handlers and the code above the sessions call it.            *)
(***************************************************************************)
EXTENDS Connection, SequenceTheorems, WellFoundedInduction, TLAPS

Callback == 0..MaxRequests
PacketId == 1..MaxRequests
Write == [packet : PacketId, callback : Callback]

\* One operation of each kind at most, and its handler has a front to take.
SessionOK(s) ==
    /\ s \in SessionType
    /\ s.reading <= 1
    /\ s.writing <= 1
    /\ s.reading > 0 => s.reads # <<>>
    /\ s.writing > 0 => s.writes # <<>>

Inv ==
    /\ TypeOK
    /\ \A e \in Ends : SessionOK(sess[e])
    /\ ServerAlternates

----------------------------------------------------------------------------
(***************************************************************************)
(* Lemmas about the operators of module Session.                           *)
(***************************************************************************)

\* The length that async_read_until passes to the handler is the position of
\* the first newline, which exists because the operation has completed.
LEMMA FirstLine ==
    ASSUME NEW S, NEW buf \in Seq(S), HasLine(buf)
    PROVE  /\ LineEnd(buf) \in 1..Len(buf)
           /\ buf[LineEnd(buf)].last
           /\ \A j \in 1..(LineEnd(buf) - 1) : ~buf[j].last
<1> DEFINE R == OpToRel(<, Nat)
           T == {i \in DOMAIN buf : buf[i].last}
<1>1. DOMAIN buf = 1..Len(buf) /\ Len(buf) \in Nat
  BY LenProperties
<1>2. T \subseteq Nat /\ T # {}
  BY <1>1 DEF HasLine
<1>3. IsWellFoundedOn(R, Nat)
  BY NatLessThanWellFounded
<1>4. PICK x \in T : \A y \in T : <<y, x>> \notin R
  <2> HIDE DEF R, T
  <2> QED BY <1>2, <1>3, WFMin
<1>5. \A y \in T : ~(y < x)
  BY <1>4, <1>2 DEF OpToRel
<1>6. x \in 1..Len(buf) /\ buf[x].last
  BY <1>1
<1>7. ASSUME NEW j \in 1..(x - 1)
      PROVE  ~buf[j].last
  <2>1. j \in 1..Len(buf) /\ j < x
    BY <1>1, <1>6
  <2> QED
    BY <2>1, <1>1, <1>5
<1> HIDE DEF T
<1> QED
  BY <1>6, <1>7, <1>1, Zenon DEF LineEnd

\* Encoding yields two fragments of the packet.
LEMMA EncodeType ==
    ASSUME NEW p \in PacketId
    PROVE  Encode(p) \in Seq(Fragments)
BY DEF Encode, Fragments, PacketId

(***************************************************************************)
(* Assigning members of a session keeps its type and its other members.    *)
(***************************************************************************)
LEMMA AssignReads ==
    ASSUME NEW s \in SessionType, NEW q \in Seq(Callback)
    PROVE  LET n == [s EXCEPT !.reads = q]
           IN  /\ n \in SessionType
               /\ n.reads = q /\ n.writes = s.writes
               /\ n.reading = s.reading /\ n.writing = s.writing
               /\ n.rbuf = s.rbuf /\ n.wbuf = s.wbuf
BY DEF SessionType, Callback, Write, PacketId

LEMMA AssignWrites ==
    ASSUME NEW s \in SessionType, NEW q \in Seq(Write)
    PROVE  LET n == [s EXCEPT !.writes = q]
           IN  /\ n \in SessionType
               /\ n.reads = s.reads /\ n.writes = q
               /\ n.reading = s.reading /\ n.writing = s.writing
               /\ n.rbuf = s.rbuf /\ n.wbuf = s.wbuf
BY DEF SessionType, Callback, Write, PacketId

LEMMA AssignReading ==
    ASSUME NEW s \in SessionType, NEW k \in Nat
    PROVE  LET n == [s EXCEPT !.reading = k]
           IN  /\ n \in SessionType
               /\ n.reads = s.reads /\ n.writes = s.writes
               /\ n.reading = k /\ n.writing = s.writing
               /\ n.rbuf = s.rbuf /\ n.wbuf = s.wbuf
BY DEF SessionType, Callback, Write, PacketId

LEMMA AssignWriting ==
    ASSUME NEW s \in SessionType, NEW k \in Nat
    PROVE  LET n == [s EXCEPT !.writing = k]
           IN  /\ n \in SessionType
               /\ n.reads = s.reads /\ n.writes = s.writes
               /\ n.reading = s.reading /\ n.writing = k
               /\ n.rbuf = s.rbuf /\ n.wbuf = s.wbuf
BY DEF SessionType, Callback, Write, PacketId

LEMMA AssignRbuf ==
    ASSUME NEW s \in SessionType, NEW b \in Seq(Fragments)
    PROVE  LET n == [s EXCEPT !.rbuf = b]
           IN  /\ n \in SessionType
               /\ n.reads = s.reads /\ n.writes = s.writes
               /\ n.reading = s.reading /\ n.writing = s.writing
               /\ n.rbuf = b /\ n.wbuf = s.wbuf
BY DEF SessionType, Callback, Write, PacketId

LEMMA AssignWbuf ==
    ASSUME NEW s \in SessionType, NEW b \in Seq(Fragments)
    PROVE  LET n == [s EXCEPT !.wbuf = b]
           IN  /\ n \in SessionType
               /\ n.reads = s.reads /\ n.writes = s.writes
               /\ n.reading = s.reading /\ n.writing = s.writing
               /\ n.rbuf = s.rbuf /\ n.wbuf = b
BY DEF SessionType, Callback, Write, PacketId

LEMMA AssignReadingRbuf ==
    ASSUME NEW s \in SessionType, NEW k \in Nat, NEW b \in Seq(Fragments)
    PROVE  LET n == [s EXCEPT !.reading = k, !.rbuf = b]
           IN  /\ n \in SessionType
               /\ n.reads = s.reads /\ n.writes = s.writes
               /\ n.reading = k /\ n.writing = s.writing
               /\ n.rbuf = b /\ n.wbuf = s.wbuf
BY DEF SessionType, Callback, Write, PacketId

LEMMA AssignWbufWriting ==
    ASSUME NEW s \in SessionType, NEW b \in Seq(Fragments), NEW k \in Nat
    PROVE  LET n == [s EXCEPT !.wbuf = b, !.writing = k]
           IN  /\ n \in SessionType
               /\ n.reads = s.reads /\ n.writes = s.writes
               /\ n.reading = s.reading /\ n.writing = k
               /\ n.rbuf = s.rbuf /\ n.wbuf = b
BY DEF SessionType, Callback, Write, PacketId

----------------------------------------------------------------------------
LEMMA NewSessionOK == SessionOK(NewSession)
BY DEF SessionOK, NewSession, SessionType, Fragments

\* Starting a read: the number outstanding grows by one, nothing else changes.
LEMMA DoAsyncReadType ==
    ASSUME NEW s \in SessionType
    PROVE  LET n == DoAsyncRead(s)
           IN  /\ n \in SessionType
               /\ n.reads = s.reads /\ n.writes = s.writes
               /\ n.reading = s.reading + 1 /\ n.writing = s.writing
               /\ n.rbuf = s.rbuf /\ n.wbuf = s.wbuf
<1>1. s.reading + 1 \in Nat
  BY DEF SessionType
<1> QED
  BY <1>1, AssignReading DEF DoAsyncRead

\* Starting a write puts the packet at the front of the queue on the wire.
LEMMA DoAsyncWriteType ==
    ASSUME NEW s \in SessionType, s.writes # <<>>
    PROVE  LET n == DoAsyncWrite(s)
           IN  /\ n \in SessionType
               /\ n.reads = s.reads /\ n.writes = s.writes
               /\ n.reading = s.reading /\ n.writing = s.writing + 1
               /\ n.rbuf = s.rbuf /\ n.wbuf = Encode(Head(s.writes).packet)
<1>1. s.writes \in Seq(Write)
  BY DEF SessionType, Write, Callback, PacketId
<1>2. Head(s.writes) \in Write
  BY <1>1, HeadTailProperties
<1>3. Encode(Head(s.writes).packet) \in Seq(Fragments)
  BY <1>2, EncodeType DEF Write
<1>4. s.writing + 1 \in Nat
  BY DEF SessionType
<1> QED
  BY <1>3, <1>4, AssignWbufWriting DEF DoAsyncWrite

LEMMA CallbackAppended ==
    ASSUME NEW q \in Seq(Callback), NEW x \in Callback
    PROVE  /\ Len(Append(q, x)) = Len(q) + 1 /\ Append(q, x) # <<>>
           /\ \A k \in 1..Len(q) : Append(q, x)[k] = q[k]
           /\ Append(q, x)[Len(q) + 1] = x
           /\ Append(q, x) \in Seq(Callback)
  BY AppendProperties

\* schedule_read queues the callback and keeps at most one read outstanding.
LEMMA ScheduleReadOK ==
    ASSUME NEW s, SessionOK(s), NEW cb \in Callback
    PROVE  LET n == ScheduleRead(s, cb)
           IN  /\ SessionOK(n)
               /\ n.reads = Append(s.reads, cb) /\ n.writes = s.writes
               /\ n.writing = s.writing
               /\ n.rbuf = s.rbuf /\ n.wbuf = s.wbuf
<1> DEFINE q == Append(s.reads, cb)
           n == [s EXCEPT !.reads = q]
<1>1. q \in Seq(Callback) /\ q # <<>>
  <2>1. s.reads \in Seq(Callback)
    BY DEF SessionOK, SessionType, Callback
  <2> QED
    BY <2>1, CallbackAppended
<1>2. /\ n \in SessionType
      /\ n.reads = q /\ n.writes = s.writes
      /\ n.reading = s.reading /\ n.writing = s.writing
      /\ n.rbuf = s.rbuf /\ n.wbuf = s.wbuf
  <2> HIDE DEF q
  <2> QED
    BY <1>1, AssignReads DEF SessionOK
<1>3. ScheduleRead(s, cb) = IF s.reads = <<>> THEN DoAsyncRead(n) ELSE n
  BY DEF ScheduleRead
<1>4. s.reads = <<>> => s.reading = 0
  BY DEF SessionOK, SessionType
<1> HIDE DEF n
<1> QED
  BY <1>1, <1>2, <1>3, <1>4, DoAsyncReadType DEF SessionOK

\* schedule_write queues the packet and keeps at most one write outstanding.
LEMMA ScheduleWriteOK ==
    ASSUME NEW s, SessionOK(s), NEW p \in PacketId, NEW cb \in Callback
    PROVE  LET n == ScheduleWrite(s, p, cb)
           IN  /\ SessionOK(n)
               /\ n.writes = Append(s.writes, [packet |-> p, callback |-> cb])
               /\ n.reads = s.reads
               /\ n.reading = s.reading
               /\ n.rbuf = s.rbuf
<1> DEFINE w == [packet |-> p, callback |-> cb]
           q == Append(s.writes, w)
           n == [s EXCEPT !.writes = q]
<1>1. s.writes \in Seq(Write) /\ w \in Write
  BY DEF SessionOK, SessionType, Write, Callback, PacketId
<1>2. q \in Seq(Write) /\ q # <<>>
  BY <1>1, AppendProperties
<1>3. /\ n \in SessionType
      /\ n.reads = s.reads /\ n.writes = q
      /\ n.reading = s.reading /\ n.writing = s.writing
      /\ n.rbuf = s.rbuf
  <2> HIDE DEF q
  <2> QED
    BY <1>2, AssignWrites DEF SessionOK
<1>4. ScheduleWrite(s, p, cb) = IF s.writes = <<>> THEN DoAsyncWrite(n) ELSE n
  BY DEF ScheduleWrite
<1>5. s.writes = <<>> => s.writing = 0
  BY DEF SessionOK, SessionType
<1> HIDE DEF n
<1> QED
  BY <1>2, <1>3, <1>4, <1>5, DoAsyncWriteType DEF SessionOK

\* When a read completes none is outstanding, and its callback is the front.
LEMMA TakeLineOK ==
    ASSUME NEW s, SessionOK(s), s.reading > 0, HasLine(s.rbuf)
    PROVE  LET n == TakeLine(s)
           IN  /\ SessionOK(n)
               /\ n.reading = 0 /\ n.reads = s.reads /\ n.reads # <<>>
               /\ n.writes = s.writes /\ n.writing = s.writing
               /\ n.wbuf = s.wbuf
<1> DEFINE b == SubSeq(s.rbuf, LineEnd(s.rbuf) + 1, Len(s.rbuf))
<1>1. s.rbuf \in Seq(Fragments)
  BY DEF SessionOK, SessionType
<1>2. LineEnd(s.rbuf) \in 1..Len(s.rbuf) /\ Len(s.rbuf) \in Nat
  BY <1>1, FirstLine, LenProperties
<1>3. \A i \in (LineEnd(s.rbuf) + 1)..Len(s.rbuf) : s.rbuf[i] \in Fragments
  BY <1>1, <1>2, ElementOfSeq
<1>4. b \in Seq(Fragments)
  BY <1>2, <1>3, SubSeqProperties
<1>5. s.reading - 1 = 0
  BY DEF SessionOK, SessionType
<1> DEFINE n == [s EXCEPT !.reading = 0, !.rbuf = b]
<1>6. TakeLine(s) = n
  BY <1>5 DEF TakeLine
<1> HIDE DEF b
<1>7. /\ n \in SessionType
      /\ n.reads = s.reads /\ n.writes = s.writes
      /\ n.reading = 0 /\ n.writing = s.writing
      /\ n.wbuf = s.wbuf
  BY <1>4 DEF SessionOK, SessionType
<1> HIDE DEF n
<1> QED
  BY <1>6, <1>7 DEF SessionOK

\* The read handler pops the callback it ran, and reads on only while others
\* wait: never a second read, never a read without a callback.
LEMMA PopReadOK ==
    ASSUME NEW s, SessionOK(s), s.reading = 0, s.reads # <<>>
    PROVE  LET n == PopRead(s)
           IN  /\ SessionOK(n)
               /\ n.reads = Tail(s.reads) /\ n.writes = s.writes
               /\ n.writing = s.writing /\ n.wbuf = s.wbuf
<1> DEFINE q == Tail(s.reads)
           n == [s EXCEPT !.reads = q]
<1>1. q \in Seq(Callback)
  BY HeadTailProperties DEF SessionOK, SessionType, Callback
<1>2. /\ n \in SessionType
      /\ n.reads = q /\ n.writes = s.writes
      /\ n.reading = s.reading /\ n.writing = s.writing
      /\ n.rbuf = s.rbuf /\ n.wbuf = s.wbuf
  <2> HIDE DEF q
  <2> QED
    BY <1>1, AssignReads DEF SessionOK
<1>3. PopRead(s) = IF n.reads = <<>> THEN n ELSE DoAsyncRead(n)
  BY DEF PopRead
<1> HIDE DEF n, q
<1> DEFINE Popped(m) == /\ SessionOK(m)
                        /\ m.reads = q /\ m.writes = s.writes
                        /\ m.writing = s.writing /\ m.wbuf = s.wbuf
<1>4. n.reads = <<>> => Popped(n)
  BY <1>2 DEF SessionOK
<1>5. n.reads # <<>> => Popped(DoAsyncRead(n))
  <2> SUFFICES ASSUME n.reads # <<>> PROVE Popped(DoAsyncRead(n))
    OBVIOUS
  <2> DEFINE m == DoAsyncRead(n)
  <2>1. /\ m \in SessionType
        /\ m.reads = n.reads /\ m.writes = n.writes
        /\ m.reading = 1 /\ m.writing = n.writing /\ m.wbuf = n.wbuf
    BY <1>2, DoAsyncReadType
  <2> HIDE DEF m
  <2>2. Popped(m)
    BY <1>2, <2>1 DEF SessionOK
  <2> QED
    BY <2>2 DEF m
<1> HIDE DEF Popped
<1>6. Popped(PopRead(s))
  BY <1>3, <1>4, <1>5
<1> QED
  BY <1>6 DEF Popped, q

\* The write handler pops the packet it wrote, and writes on only while others
\* wait.
LEMMA PopWriteOK ==
    ASSUME NEW s, SessionOK(s), s.writing = 0, s.writes # <<>>
    PROVE  LET n == PopWrite(s)
           IN  /\ SessionOK(n)
               /\ n.reads = s.reads /\ n.writes = Tail(s.writes)
               /\ n.reading = s.reading
<1> DEFINE q == Tail(s.writes)
           n == [s EXCEPT !.writes = q]
<1>1. q \in Seq(Write)
  BY HeadTailProperties DEF SessionOK, SessionType, Write, Callback, PacketId
<1>2. /\ n \in SessionType
      /\ n.reads = s.reads /\ n.writes = q
      /\ n.reading = s.reading /\ n.writing = s.writing
  <2> HIDE DEF q
  <2> QED
    BY <1>1, AssignWrites DEF SessionOK
<1>3. PopWrite(s) = IF n.writes = <<>> THEN n ELSE DoAsyncWrite(n)
  BY DEF PopWrite
<1> HIDE DEF n, q
<1> DEFINE Popped(m) == /\ SessionOK(m)
                        /\ m.reads = s.reads /\ m.writes = q
                        /\ m.reading = s.reading
<1>4. n.writes = <<>> => Popped(n)
  BY <1>2 DEF SessionOK
<1>5. n.writes # <<>> => Popped(DoAsyncWrite(n))
  <2> SUFFICES ASSUME n.writes # <<>> PROVE Popped(DoAsyncWrite(n))
    OBVIOUS
  <2> DEFINE m == DoAsyncWrite(n)
  <2>1. /\ m \in SessionType
        /\ m.reads = n.reads /\ m.writes = n.writes
        /\ m.reading = n.reading /\ m.writing = 1
    BY <1>2, DoAsyncWriteType
  <2> HIDE DEF m
  <2>2. Popped(m)
    BY <1>2, <2>1 DEF SessionOK
  <2> QED
    BY <2>2 DEF m
<1> HIDE DEF Popped
<1>6. Popped(PopWrite(s))
  BY <1>3, <1>4, <1>5
<1> QED
  BY <1>6 DEF Popped, q

\* The whole success path of the write handler: the packet leaves the queue,
\* and its callback waits for the answer if it is to be read at all.
LEMMA WrittenOK ==
    ASSUME NEW s, SessionOK(s), s.writing > 0, NEW resume \in BOOLEAN
    PROVE  LET n == Written(s, resume)
           IN  /\ SessionOK(n)
               /\ n.writes = Tail(s.writes)
               /\ n.reads = IF resume
                            THEN Append(s.reads, Head(s.writes).callback)
                            ELSE s.reads
<1> DEFINE d == [s EXCEPT !.writing = 0]
           cb == Head(s.writes).callback
           r == IF resume THEN ScheduleRead(d, cb) ELSE d
<1>1. s.writing - 1 = 0
  BY DEF SessionOK, SessionType
<1>2. s.writes \in Seq(Write) /\ s.writes # <<>>
  BY DEF SessionOK, SessionType, Write, Callback, PacketId
<1>3. cb \in Callback
  <2>1. Head(s.writes) \in Write
    BY <1>2, HeadTailProperties
  <2> QED
    BY <2>1 DEF Write
<1>4. SessionOK(d) /\ d.writing = 0 /\ d.writes = s.writes /\ d.reads = s.reads
  BY AssignWriting DEF SessionOK
<1>5. Written(s, resume) = PopWrite(r)
  BY <1>1 DEF Written
<1> HIDE DEF d, cb
<1>6. /\ SessionOK(r) /\ r.writing = 0 /\ r.writes = s.writes
      /\ r.reads = IF resume THEN Append(s.reads, cb) ELSE s.reads
  BY <1>3, <1>4, ScheduleReadOK
<1> HIDE DEF r
<1> QED
  BY <1>2, <1>5, <1>6, PopWriteOK DEF cb

\* An operation that fails is no longer outstanding; nothing else changes.
LEMMA AbortedOK ==
    ASSUME NEW s, SessionOK(s)
    PROVE  /\ s.reading > 0 => LET n == ReadAborted(s)
                               IN  /\ SessionOK(n)
                                   /\ n.reads = s.reads /\ n.writes = s.writes
           /\ s.writing > 0 => LET n == WriteAborted(s)
                               IN  /\ SessionOK(n)
                                   /\ n.reads = s.reads /\ n.writes = s.writes
<1>1. /\ s.reading > 0 => s.reading - 1 = 0
      /\ s.writing > 0 => s.writing - 1 = 0
  BY DEF SessionOK, SessionType
<1> DEFINE r == [s EXCEPT !.reading = 0]
           w == [s EXCEPT !.writing = 0]
<1>2. s.reading > 0 => ReadAborted(s) = r
  BY <1>1 DEF ReadAborted
<1>3. s.writing > 0 => WriteAborted(s) = w
  BY <1>1 DEF WriteAborted
<1>4. /\ r \in SessionType /\ r.reads = s.reads /\ r.writes = s.writes
      /\ r.reading = 0 /\ r.writing = s.writing
  BY AssignReading DEF SessionOK
<1>5. /\ w \in SessionType /\ w.reads = s.reads /\ w.writes = s.writes
      /\ w.reading = s.reading /\ w.writing = 0
  BY AssignWriting DEF SessionOK
<1> HIDE DEF r, w
<1> QED
  BY <1>2, <1>3, <1>4, <1>5 DEF SessionOK

\* The packet a handler parses is one that was encoded.
LEMMA FirstPacketType ==
    ASSUME NEW buf \in Seq(Fragments), HasLine(buf)
    PROVE  FirstPacket(buf) \in PacketId
<1>1. 1 \in 1..Len(buf)
  BY FirstLine, LenProperties
<1>2. buf[1] \in Fragments
  BY <1>1, ElementOfSeq
<1> QED
  BY <1>2 DEF FirstPacket, Fragments, PacketId

\* The server's read handler exchanges its one read for one write.
LEMMA ServeOK ==
    ASSUME NEW s, SessionOK(s), s.reading > 0, HasLine(s.rbuf),
           NEW p \in PacketId
    PROVE  LET n == Serve(s, p)
           IN  /\ SessionOK(n)
               /\ Len(n.reads) = Len(s.reads) - 1
               /\ Len(n.writes) = Len(s.writes) + 1
<1> DEFINE t == TakeLine(s)
           w == ScheduleWrite(t, p, OnRequest)
<1>1. /\ SessionOK(t) /\ t.reading = 0
      /\ t.reads = s.reads /\ t.reads # <<>> /\ t.writes = s.writes
  BY TakeLineOK
<1>2. OnRequest \in Callback
  BY ConstantsAssumption DEF OnRequest, Callback
<1> HIDE DEF t
<1>3. /\ SessionOK(w) /\ w.reading = 0 /\ w.reads = t.reads
      /\ w.writes = Append(t.writes, [packet |-> p, callback |-> OnRequest])
  BY <1>1, <1>2, ScheduleWriteOK
<1>4. Serve(s, p) = PopRead(w)
  BY DEF Serve, t
<1> HIDE DEF w
<1>5. LET n == PopRead(w)
      IN  SessionOK(n) /\ n.reads = Tail(w.reads) /\ n.writes = w.writes
  BY <1>1, <1>3, PopReadOK
<1>6. w.reads \in Seq(Callback) /\ t.writes \in Seq(Write)
  BY <1>1, <1>3 DEF SessionOK, SessionType, Write, Callback, PacketId
<1>7. Len(Tail(w.reads)) = Len(s.reads) - 1
  BY <1>1, <1>3, <1>6, HeadTailProperties
<1>8. Len(w.writes) = Len(s.writes) + 1
  <2>1. [packet |-> p, callback |-> OnRequest] \in Write
    BY <1>2 DEF Write
  <2> QED
    BY <1>1, <1>3, <1>6, <2>1, AppendProperties
<1> QED
  BY <1>4, <1>5, <1>7, <1>8

----------------------------------------------------------------------------
(***************************************************************************)
(* The inductive invariant.                                                *)
(***************************************************************************)

\* A step replaces the session of one end by one that is as it should be.
LEMMA SessionStep ==
    ASSUME Inv, NEW e \in Ends, NEW n, SessionOK(n),
           sess' = [sess EXCEPT ![e] = n]
    PROVE  /\ sess' \in [Ends -> SessionType]
           /\ \A f \in Ends : SessionOK(sess'[f])
           /\ sess'[e] = n
           /\ \A f \in Ends \ {e} : sess'[f] = sess[f]
<1>1. sess \in [Ends -> SessionType] /\ \A f \in Ends : SessionOK(sess[f])
  BY DEF Inv, TypeOK
<1>2. n \in SessionType
  BY DEF SessionOK
<1> QED
  BY <1>1, <1>2

\* A client read: the callback runs, may issue the next request, and is popped.
LEMMA ClientReadOK ==
    ASSUME NEW s, SessionOK(s), s.reading > 0, HasLine(s.rbuf)
    PROVE  /\ SessionOK(TakeLine(s))
           /\ SessionOK(PopRead(TakeLine(s)))
           /\ \A p \in PacketId :
                 SessionOK(PopRead(ScheduleRequest(TakeLine(s), p)))
<1> DEFINE t == TakeLine(s)
<1>1. SessionOK(t) /\ t.reading = 0 /\ t.reads # <<>>
  BY TakeLineOK
<1> HIDE DEF t
<1>2. SessionOK(PopRead(t))
  BY <1>1, PopReadOK
<1>3. ASSUME NEW p \in PacketId
      PROVE  SessionOK(PopRead(ScheduleRequest(t, p)))
  <2> DEFINE w == ScheduleWrite(t, p, p)
  <2>1. p \in Callback
    BY ConstantsAssumption DEF PacketId, Callback
  <2>2. SessionOK(w) /\ w.reading = 0 /\ w.reads # <<>>
    BY <1>1, <2>1, ScheduleWriteOK
  <2> HIDE DEF w
  <2>3. SessionOK(PopRead(w))
    BY <2>2, PopReadOK
  <2> QED
    BY <2>3 DEF ScheduleRequest, w
<1> QED
  BY <1>1, <1>2, <1>3 DEF t

\* What the history records when the client's read handler runs a callback.
LEMMA DeliverType ==
    ASSUME TypeOK, NEW s, SessionOK(s), s.reading > 0, HasLine(s.rbuf),
           Deliver(s)
    PROVE  delivered' \in Seq((0..MaxRequests) \X (1..MaxRequests))
<1>1. s.reads \in Seq(Callback) /\ s.reads # <<>> /\ s.rbuf \in Seq(Fragments)
  BY DEF SessionOK, SessionType, Callback
<1>2. Head(s.reads) \in Callback
  BY <1>1, HeadTailProperties
<1>3. FirstPacket(s.rbuf) \in PacketId
  BY <1>1, FirstPacketType
<1>4. <<Head(s.reads), FirstPacket(s.rbuf)>> \in (0..MaxRequests) \X (1..MaxRequests)
  BY <1>2, <1>3 DEF Callback, PacketId
<1> QED
  BY <1>4, AppendProperties DEF TypeOK, Deliver

\* Pieces of a sequence of fragments are sequences of fragments.
LEMMA Pieces ==
    ASSUME NEW b \in Seq(Fragments), NEW c \in Seq(Fragments), NEW k \in 1..Len(b)
    PROVE  /\ c \o SubSeq(b, 1, k) \in Seq(Fragments)
           /\ SubSeq(b, k + 1, Len(b)) \in Seq(Fragments)
<1>1. Len(b) \in Nat /\ k \in Nat
  BY LenProperties
<1>2. /\ \A i \in 1..k : b[i] \in Fragments
      /\ \A i \in (k + 1)..Len(b) : b[i] \in Fragments
  BY <1>1, ElementOfSeq
<1>3. /\ SubSeq(b, 1, k) \in Seq(Fragments)
      /\ SubSeq(b, k + 1, Len(b)) \in Seq(Fragments)
  BY <1>1, <1>2, SubSeqProperties
<1> QED
  BY <1>3, ConcatProperties

LEMMA InitInv == Init => Inv
<1> SUFFICES ASSUME Init PROVE Inv
  OBVIOUS
<1> DEFINE r == ScheduleRead(NewSession, OnRequest)
<1>1. OnRequest \in Callback
  BY ConstantsAssumption DEF OnRequest, Callback
<1>2. /\ SessionOK(r) /\ SessionOK(NewSession)
      /\ r.reads = Append(<<>>, OnRequest) /\ r.writes = <<>>
  BY <1>1, NewSessionOK, ScheduleReadOK DEF NewSession
<1>3. Len(r.reads) = 1 /\ Len(r.writes) = 0
  BY <1>1, <1>2
<1>4. /\ sess \in [Ends -> SessionType]
      /\ \A e \in Ends : SessionOK(sess[e])
      /\ sess["server"] = r
  <2> HIDE DEF r
  <2>1. r \in SessionType /\ NewSession \in SessionType
    BY <1>2 DEF SessionOK
  <2>2. sess = [e \in Ends |-> IF e = "server" THEN r ELSE NewSession]
    BY DEF Init, r
  <2> QED
    BY <1>2, <2>1, <2>2 DEF Ends
<1> HIDE DEF r
<1>5. TypeOK
  BY <1>4, ConstantsAssumption DEF Init, TypeOK, Fragments
<1>6. ServerAlternates
  <2>1. Len(sess["server"].reads) + Len(sess["server"].writes) = 1
    <3>1. sess["server"] = r
      BY <1>4
    <3>2. Len(r.reads) + Len(r.writes) = 1
      BY <1>3
    <3> QED
      BY <3>1, <3>2
  <2> QED
    BY <2>1, Zenon DEF ServerAlternates
<1> QED
  BY <1>4, <1>5, <1>6 DEF Inv

\* A step of the client's own leaves the server's session as it was.
LEMMA ClientStep ==
    ASSUME Inv, NEW n, SessionOK(n), sess' = [sess EXCEPT !["client"] = n],
           UNCHANGED <<up, shouldRead>>,
           net' \in [Ends -> Seq(Fragments)],
           issued' \in 0..MaxRequests,
           handled' \in Seq(1..MaxRequests),
           delivered' \in Seq((0..MaxRequests) \X (1..MaxRequests))
    PROVE  Inv'
<1>1. "client" \in Ends /\ "server" \in Ends \ {"client"}
  BY DEF Ends
<1>2. /\ sess' \in [Ends -> SessionType]
      /\ \A f \in Ends : SessionOK(sess'[f])
      /\ sess'["server"] = sess["server"]
  BY <1>1, SessionStep
<1>3. TypeOK'
  BY <1>2 DEF Inv, TypeOK
<1>4. ServerAlternates'
  BY <1>2 DEF Inv, ServerAlternates
<1> QED
  BY <1>2, <1>3, <1>4 DEF Inv

LEMMA RequestInv == Inv /\ Request => Inv'
<1> SUFFICES ASSUME Inv, Request PROVE Inv'
  OBVIOUS
<1> DEFINE n == ScheduleRequest(sess["client"], issued + 1)
<1>1. issued + 1 \in PacketId /\ issued + 1 \in Callback /\ issued + 1 \in 0..MaxRequests
  BY ConstantsAssumption DEF Inv, TypeOK, Request, PacketId, Callback
<1>2. SessionOK(sess["client"])
  BY DEF Inv, Ends
<1>3. SessionOK(n)
  BY <1>1, <1>2, ScheduleWriteOK DEF ScheduleRequest
<1>4. sess' = [sess EXCEPT !["client"] = n]
  BY DEF Request
<1> HIDE DEF n
<1> QED
  BY <1>1, <1>3, <1>4, ClientStep DEF Request, Inv, TypeOK

LEMMA ClientReadInv ==
    Inv /\ (ClientRead \/ ClientReadAndRequest \/ ClientReadThrows) => Inv'
<1> DEFINE s == sess["client"]
<1> SUFFICES ASSUME Inv, ClientRead \/ ClientReadAndRequest \/ ClientReadThrows
             PROVE  Inv'
  OBVIOUS
<1>1. SessionOK(s) /\ s.reading > 0 /\ HasLine(s.rbuf) /\ Deliver(s)
  BY DEF Inv, Ends, ClientRead, ClientReadAndRequest, ClientReadThrows, LineReady
<1>2. /\ SessionOK(TakeLine(s))
      /\ SessionOK(PopRead(TakeLine(s)))
      /\ \A p \in PacketId : SessionOK(PopRead(ScheduleRequest(TakeLine(s), p)))
  BY <1>1, ClientReadOK
<1>3. delivered' \in Seq((0..MaxRequests) \X (1..MaxRequests))
  BY <1>1, DeliverType DEF Inv
<1>4. CASE ClientRead
  <2>1. sess' = [sess EXCEPT !["client"] = PopRead(TakeLine(s))]
    BY <1>4 DEF ClientRead
  <2> HIDE DEF s
  <2> QED
    BY <1>2, <1>3, <1>4, <2>1, ClientStep DEF ClientRead, Inv, TypeOK
<1>5. CASE ClientReadAndRequest
  <2>1. sess' = [sess EXCEPT !["client"] =
                     PopRead(ScheduleRequest(TakeLine(s), issued + 1))]
    BY <1>5 DEF ClientReadAndRequest
  <2>2. issued + 1 \in PacketId /\ issued' \in 0..MaxRequests
    BY <1>5, ConstantsAssumption DEF ClientReadAndRequest, Inv, TypeOK, PacketId
  <2> HIDE DEF s
  <2> QED
    BY <1>2, <1>3, <1>5, <2>1, <2>2, ClientStep
       DEF ClientReadAndRequest, Inv, TypeOK
<1>6. CASE ClientReadThrows
  <2>1. sess' = [sess EXCEPT !["client"] = TakeLine(s)]
    BY <1>6 DEF ClientReadThrows
  <2> HIDE DEF s
  <2> QED
    BY <1>2, <1>3, <1>6, <2>1, ClientStep DEF ClientReadThrows, Inv, TypeOK
<1> QED
  BY <1>4, <1>5, <1>6

LEMMA ServerReadInv == Inv /\ ServerRead => Inv'
<1> DEFINE s == sess["server"]
           p == FirstPacket(s.rbuf)
           n == Serve(s, p)
<1> SUFFICES ASSUME Inv, ServerRead PROVE Inv'
  OBVIOUS
<1>1. SessionOK(s) /\ s.reading > 0 /\ HasLine(s.rbuf)
  BY DEF Inv, Ends, ServerRead, LineReady
<1>2. p \in PacketId
  BY <1>1, FirstPacketType DEF SessionOK, SessionType
<1>3. sess' = [sess EXCEPT !["server"] = n] /\ handled' = Append(handled, p)
  BY DEF ServerRead
<1> HIDE DEF p
<1>4. /\ SessionOK(n) /\ Len(n.reads) = Len(s.reads) - 1
      /\ Len(n.writes) = Len(s.writes) + 1
  <2> HIDE DEF s
  <2> QED
    BY <1>1, <1>2, ServeOK
<1>5. Len(s.reads) \in Nat /\ Len(s.writes) \in Nat
  BY <1>1, LenProperties DEF SessionOK, SessionType
<1> HIDE DEF n
<1>6. /\ sess' \in [Ends -> SessionType]
      /\ \A f \in Ends : SessionOK(sess'[f])
      /\ sess'["server"] = n
  BY <1>3, <1>4, SessionStep DEF Ends
<1>7. handled' \in Seq(1..MaxRequests)
  BY <1>2, <1>3, AppendProperties DEF Inv, TypeOK, PacketId
<1>8. TypeOK'
  BY <1>6, <1>7 DEF Inv, TypeOK, ServerRead
<1>9. ServerAlternates'
  <2>1. up'["server"] /\ shouldRead' => Len(s.reads) + Len(s.writes) = 1
    BY Zenon DEF Inv, ServerAlternates, ServerRead
  <2> HIDE DEF s
  <2>2. Len(n.reads) + Len(n.writes) = Len(s.reads) + Len(s.writes)
    <3> DEFINE a == Len(n.reads)
               b == Len(n.writes)
               c == Len(s.reads)
               d == Len(s.writes)
    <3>1. c \in Nat /\ d \in Nat /\ a = c - 1 /\ b = d + 1
      BY <1>4, <1>5, Zenon
    <3> HIDE DEF a, b, c, d
    <3>2. a + b = c + d
      BY <3>1
    <3> QED
      BY <3>2, Zenon DEF a, b, c, d
  <2>3. up'["server"] /\ shouldRead' =>
            Len(sess'["server"].reads) + Len(sess'["server"].writes) = 1
    <3>1. sess'["server"] = n
      BY <1>6
    <3>2. up'["server"] /\ shouldRead' => Len(n.reads) + Len(n.writes) = 1
      BY <2>1, <2>2
    <3> QED
      BY <3>1, <3>2, Zenon
  <2> QED
    BY <2>3, Zenon DEF ServerAlternates
<1> QED
  BY <1>6, <1>8, <1>9 DEF Inv

LEMMA ServerParseErrorInv == Inv /\ ServerParseError => Inv'
<1> SUFFICES ASSUME Inv, ServerParseError PROVE Inv'
  OBVIOUS
<1> DEFINE n == TakeLine(sess["server"])
<1>1. SessionOK(n)
  BY TakeLineOK DEF Inv, Ends, ServerParseError, LineReady
<1>2. sess' = [sess EXCEPT !["server"] = n] /\ up' = [up EXCEPT !["server"] = FALSE]
  BY DEF ServerParseError
<1> HIDE DEF n
<1>3. /\ sess' \in [Ends -> SessionType]
      /\ \A f \in Ends : SessionOK(sess'[f])
  BY <1>1, <1>2, SessionStep DEF Ends
<1>4. up' \in [Ends -> BOOLEAN] /\ up'["server"] = FALSE
  BY <1>2 DEF Inv, TypeOK, Ends
<1>5. TypeOK'
  BY <1>3, <1>4 DEF Inv, TypeOK, ServerParseError, history
<1>6. ServerAlternates'
  BY <1>4 DEF ServerAlternates
<1> QED
  BY <1>3, <1>5, <1>6 DEF Inv

LEMMA WriteDoneInv ==
    ASSUME Inv, NEW e \in Ends, WriteDone(e)
    PROVE  Inv'
<1> DEFINE s == sess[e]
           resume == e = "client" \/ shouldRead
           n == Written(s, resume)
<1>1. SessionOK(s) /\ s.writing > 0
  BY DEF Inv, WriteDone
<1>2. sess' = [sess EXCEPT ![e] = n]
  BY DEF WriteDone
<1>3. resume \in BOOLEAN
  BY DEF Inv, TypeOK
<1> HIDE DEF s, resume
<1>4. /\ SessionOK(n) /\ n.writes = Tail(s.writes)
      /\ n.reads = IF resume THEN Append(s.reads, Head(s.writes).callback)
                             ELSE s.reads
  BY <1>1, <1>3, WrittenOK
<1> HIDE DEF n
<1>5. /\ sess' \in [Ends -> SessionType]
      /\ \A f \in Ends : SessionOK(sess'[f])
      /\ sess'[e] = n
      /\ \A f \in Ends \ {e} : sess'[f] = sess[f]
  BY <1>2, <1>4, SessionStep
<1>6. TypeOK'
  BY <1>5 DEF Inv, TypeOK, WriteDone, history
<1>7. CASE e = "client"
  <2>1. sess'["server"] = sess["server"]
    BY <1>5, <1>7 DEF Ends
  <2>2. ServerAlternates'
    BY <2>1 DEF Inv, ServerAlternates, WriteDone
  <2> QED
    BY <1>5, <1>6, <2>2 DEF Inv
<1>8. CASE e = "server"
  <2>1. CASE shouldRead
    <3>1. /\ s.reads \in Seq(Callback) /\ s.writes \in Seq(Write) /\ s.writes # <<>>
      BY <1>1 DEF SessionOK, SessionType, Write, Callback, PacketId
    <3>2. Head(s.writes).callback \in Callback
      <4>1. Head(s.writes) \in Write
        BY <3>1, HeadTailProperties
      <4> QED
        BY <4>1 DEF Write
    <3>3. n.reads = Append(s.reads, Head(s.writes).callback)
      BY <1>4, <2>1 DEF resume
    <3>4. Len(n.reads) = Len(s.reads) + 1
      BY <3>1, <3>2, <3>3, AppendProperties
    <3>5. Len(n.writes) = Len(s.writes) - 1
      BY <1>4, <3>1, HeadTailProperties
    <3>6. Len(s.reads) \in Nat /\ Len(s.writes) \in Nat
      BY <3>1, LenProperties
    <3>7. Len(n.reads) + Len(n.writes) = Len(s.reads) + Len(s.writes)
      <4> DEFINE a == Len(n.reads)
                 b == Len(n.writes)
                 c == Len(s.reads)
                 d == Len(s.writes)
      <4>1. c \in Nat /\ d \in Nat /\ a = c + 1 /\ b = d - 1
        BY <3>4, <3>5, <3>6, Zenon
      <4> HIDE DEF a, b, c, d
      <4>2. a + b = c + d
        BY <4>1
      <4> QED
        BY <4>2, Zenon DEF a, b, c, d
    <3>8. up'["server"] /\ shouldRead' => Len(s.reads) + Len(s.writes) = 1
      BY <1>8, Zenon DEF Inv, ServerAlternates, WriteDone, s
    <3>9. sess'["server"] = n
      BY <1>5, <1>8
    <3>10. up'["server"] /\ shouldRead' => Len(n.reads) + Len(n.writes) = 1
      BY <3>7, <3>8
    <3>11. ServerAlternates'
      BY <3>9, <3>10, Zenon DEF ServerAlternates
    <3> QED
      BY <1>5, <1>6, <3>11 DEF Inv
  <2>2. CASE ~shouldRead
    <3>1. ServerAlternates'
      BY <2>2 DEF ServerAlternates, WriteDone
    <3> QED
      BY <1>5, <1>6, <3>1 DEF Inv
  <2> QED
    BY <2>1, <2>2
<1> QED
  BY <1>7, <1>8 DEF Ends

\* Kernel steps and failed operations touch neither queue.
LEMMA QueuesKept ==
    ASSUME Inv, NEW e \in Ends, NEW n, SessionOK(n),
           n.reads = sess[e].reads, n.writes = sess[e].writes,
           sess' = [sess EXCEPT ![e] = n],
           net' \in [Ends -> Seq(Fragments)],
           UNCHANGED <<up, shouldRead, history>>
    PROVE  Inv'
<1>1. /\ sess' \in [Ends -> SessionType]
      /\ \A f \in Ends : SessionOK(sess'[f])
      /\ sess'[e] = n
      /\ \A f \in Ends \ {e} : sess'[f] = sess[f]
  BY SessionStep
<1>2. TypeOK'
  BY <1>1 DEF Inv, TypeOK, history
<1>3. /\ sess'["server"].reads = sess["server"].reads
      /\ sess'["server"].writes = sess["server"].writes
  BY <1>1 DEF Ends
<1>4. ServerAlternates'
  BY <1>3 DEF Inv, ServerAlternates
<1> QED
  BY <1>1, <1>2, <1>4 DEF Inv

LEMMA KernelSendInv ==
    ASSUME Inv, NEW e \in Ends, KernelSend(e)
    PROVE  Inv'
<1> DEFINE b == sess[e].wbuf
<1>1. PICK k \in 1..Len(b) :
        /\ net' = [net EXCEPT ![e] = @ \o SubSeq(b, 1, k)]
        /\ sess' = [sess EXCEPT ![e].wbuf = SubSeq(b, k + 1, Len(b))]
  BY DEF KernelSend
<1>2. b \in Seq(Fragments) /\ net[e] \in Seq(Fragments)
  BY DEF Inv, TypeOK, SessionType
<1>3. /\ net[e] \o SubSeq(b, 1, k) \in Seq(Fragments)
      /\ SubSeq(b, k + 1, Len(b)) \in Seq(Fragments)
  <2> HIDE DEF b
  <2> QED BY <1>2, Pieces
<1> DEFINE c == SubSeq(b, k + 1, Len(b))
           n == [sess[e] EXCEPT !.wbuf = c]
<1>4. sess' = [sess EXCEPT ![e] = n]
  BY <1>1 DEF Inv, TypeOK
<1>5. net' \in [Ends -> Seq(Fragments)]
  BY <1>1, <1>3 DEF Inv, TypeOK
<1> HIDE DEF c
<1>6. /\ n \in SessionType
      /\ n.reads = sess[e].reads /\ n.writes = sess[e].writes
      /\ n.reading = sess[e].reading /\ n.writing = sess[e].writing
  <2>1. c \in Seq(Fragments)
    BY <1>3 DEF c
  <2>2. sess[e] \in SessionType
    BY DEF Inv, TypeOK
  <2> QED
    BY <2>1, <2>2, AssignWbuf
<1> HIDE DEF n
<1>7. SessionOK(n)
  BY <1>6 DEF Inv, SessionOK
<1> QED
  BY <1>4, <1>5, <1>6, <1>7, QueuesKept DEF KernelSend

LEMMA KernelReceiveInv ==
    ASSUME Inv, NEW e \in Ends, KernelReceive(e)
    PROVE  Inv'
<1> DEFINE b == net[Peer(e)]
<1>1. PICK k \in 1..Len(b) :
        /\ sess' = [sess EXCEPT ![e].rbuf = @ \o SubSeq(b, 1, k)]
        /\ net' = [net EXCEPT ![Peer(e)] = SubSeq(b, k + 1, Len(b))]
  BY DEF KernelReceive
<1>2. Peer(e) \in Ends
  BY DEF Peer, Ends
<1>3. b \in Seq(Fragments) /\ sess[e].rbuf \in Seq(Fragments)
  BY <1>2 DEF Inv, TypeOK, SessionType
<1>4. /\ sess[e].rbuf \o SubSeq(b, 1, k) \in Seq(Fragments)
      /\ SubSeq(b, k + 1, Len(b)) \in Seq(Fragments)
  <2> HIDE DEF b
  <2> QED BY <1>3, Pieces
<1> DEFINE c == sess[e].rbuf \o SubSeq(b, 1, k)
           n == [sess[e] EXCEPT !.rbuf = c]
<1>5. sess' = [sess EXCEPT ![e] = n]
  BY <1>1 DEF Inv, TypeOK
<1>6. net' \in [Ends -> Seq(Fragments)]
  BY <1>1, <1>2, <1>4 DEF Inv, TypeOK
<1> HIDE DEF c
<1>7. /\ n \in SessionType
      /\ n.reads = sess[e].reads /\ n.writes = sess[e].writes
      /\ n.reading = sess[e].reading /\ n.writing = sess[e].writing
  <2>1. c \in Seq(Fragments)
    BY <1>4 DEF c
  <2>2. sess[e] \in SessionType
    BY DEF Inv, TypeOK
  <2> QED
    BY <2>1, <2>2, AssignRbuf
<1> HIDE DEF n
<1>8. SessionOK(n)
  BY <1>7 DEF Inv, SessionOK
<1> QED
  BY <1>5, <1>6, <1>7, <1>8, QueuesKept DEF KernelReceive

LEMMA FailsInv ==
    ASSUME Inv, NEW e \in Ends, ReadFails(e) \/ WriteFails(e)
    PROVE  Inv'
<1>1. SessionOK(sess[e])
  BY DEF Inv
<1>2. net' \in [Ends -> Seq(Fragments)] /\ UNCHANGED <<up, shouldRead, history>>
  BY DEF Inv, TypeOK, ReadFails, WriteFails
<1>3. CASE ReadFails(e)
  <2> DEFINE n == ReadAborted(sess[e])
  <2>1. SessionOK(n) /\ n.reads = sess[e].reads /\ n.writes = sess[e].writes
    BY <1>1, <1>3, AbortedOK DEF ReadFails
  <2>2. sess' = [sess EXCEPT ![e] = n]
    BY <1>3 DEF ReadFails
  <2> HIDE DEF n
  <2> QED
    BY <1>2, <2>1, <2>2, QueuesKept
<1>4. CASE WriteFails(e)
  <2> DEFINE n == WriteAborted(sess[e])
  <2>1. SessionOK(n) /\ n.reads = sess[e].reads /\ n.writes = sess[e].writes
    BY <1>1, <1>4, AbortedOK DEF WriteFails
  <2>2. sess' = [sess EXCEPT ![e] = n]
    BY <1>4 DEF WriteFails
  <2> HIDE DEF n
  <2> QED
    BY <1>2, <2>1, <2>2, QueuesKept
<1> QED
  BY <1>3, <1>4

\* Ending a process and do_close only make ServerAlternates easier.
LEMMA CloseInv ==
    ASSUME Inv, DoClose \/ \E e \in Ends : Close(e)
    PROVE  Inv'
<1>1. /\ UNCHANGED <<sess, net, history>>
      /\ up' \in [Ends -> BOOLEAN] /\ shouldRead' \in BOOLEAN
      /\ up'["server"] => up["server"]
      /\ shouldRead' => shouldRead
  BY DEF Inv, TypeOK, DoClose, Close, Ends
<1>2. TypeOK'
  BY <1>1 DEF Inv, TypeOK, history
<1>3. ServerAlternates'
  BY <1>1 DEF Inv, ServerAlternates
<1> QED
  BY <1>1, <1>2, <1>3 DEF Inv

LEMMA StutterInv == Inv /\ UNCHANGED vars => Inv'
<1> SUFFICES ASSUME Inv, UNCHANGED vars PROVE Inv'
  OBVIOUS
<1>1. TypeOK'
  BY DEF Inv, TypeOK, vars
<1>2. \A e \in Ends : SessionOK(sess'[e])
  BY DEF Inv, vars
<1>3. ServerAlternates'
  BY Zenon DEF Inv, ServerAlternates, vars
<1> QED
  BY <1>1, <1>2, <1>3 DEF Inv

LEMMA NextInv == Inv /\ [Next]_vars => Inv'
<1> SUFFICES ASSUME Inv, [Next]_vars PROVE Inv'
  OBVIOUS
<1>1. CASE Request
  BY <1>1, RequestInv
<1>2. CASE ServerRead
  BY <1>2, ServerReadInv
<1>3. CASE ServerParseError
  BY <1>3, ServerParseErrorInv
<1>4. CASE ClientRead \/ ClientReadAndRequest \/ ClientReadThrows
  BY <1>4, ClientReadInv
<1>5. ASSUME NEW e \in Ends, KernelSend(e) PROVE Inv'
  BY <1>5, KernelSendInv
<1>6. ASSUME NEW e \in Ends, KernelReceive(e) PROVE Inv'
  BY <1>6, KernelReceiveInv
<1>7. ASSUME NEW e \in Ends, WriteDone(e) PROVE Inv'
  BY <1>7, WriteDoneInv
<1>8. ASSUME NEW e \in Ends, ReadFails(e) \/ WriteFails(e) PROVE Inv'
  BY <1>8, FailsInv
<1>9. CASE DoClose \/ \E e \in Ends : Close(e)
  BY <1>9, CloseInv
<1>10. CASE UNCHANGED vars
  BY <1>10, StutterInv
<1> QED
  BY <1>1, <1>2, <1>3, <1>4, <1>5, <1>6, <1>7, <1>8, <1>9, <1>10 DEF Next

LEMMA InvHolds == Spec => []Inv
BY InitInv, NextInv, PTL DEF Spec

----------------------------------------------------------------------------
(***************************************************************************)
(* The theorems.                                                           *)
(***************************************************************************)

\* The members of both sessions, the fragments in flight and the history keep
\* their types: no handler takes the front of an empty queue or a packet from
\* an incomplete line (do_async_read, do_async_write).
THEOREM TypeCorrect == Spec => []TypeOK
<1>1. Inv => TypeOK
  BY DEF Inv
<1> QED
  BY <1>1, InvHolds, PTL

\* At most one read and one write of a session are outstanding, as session.h
\* guarantees for schedule_write.
THEOREM OneInFlight == Spec => []AtMostOneInFlight
<1>1. Inv => AtMostOneInFlight
  BY DEF Inv, SessionOK, AtMostOneInFlight
<1> QED
  BY <1>1, InvHolds, PTL

\* A completion handler always finds the entry it takes from its queue.
THEOREM HandlersFindTheirFront == Spec => []FrontExists
<1>1. Inv => FrontExists
  BY DEF Inv, SessionOK, FrontExists
<1> QED
  BY <1>1, InvHolds, PTL

\* Session_repository::do_read serves one request at a time, in either order
\* of completions and however many requests the client has pipelined.
THEOREM ServerServesOneAtATime == Spec => []ServerAlternates
<1>1. Inv => ServerAlternates
  BY DEF Inv
<1> QED
  BY <1>1, InvHolds, PTL

----------------------------------------------------------------------------
(***************************************************************************)
(* What the pieces of the handlers do to every member of a session.        *)
(***************************************************************************)
LEMMA ScheduleReadEffect ==
    ASSUME NEW s, SessionOK(s), NEW cb \in Callback
    PROVE  LET n == ScheduleRead(s, cb)
           IN  n.reading = IF s.reads = <<>> THEN 1 ELSE s.reading
<1> DEFINE q == Append(s.reads, cb)
           m == [s EXCEPT !.reads = q]
<1>1. q \in Seq(Callback)
  BY AppendProperties DEF SessionOK, SessionType, Callback
<1> HIDE DEF q
<1>2. m \in SessionType /\ m.reading = s.reading
  BY <1>1, AssignReads DEF SessionOK
<1>3. s.reads = <<>> => s.reading = 0
  BY DEF SessionOK, SessionType
<1>4. ScheduleRead(s, cb) = IF s.reads = <<>> THEN DoAsyncRead(m) ELSE m
  BY DEF ScheduleRead, q
<1> HIDE DEF m
<1>5. DoAsyncRead(m).reading = m.reading + 1
  BY <1>2, DoAsyncReadType
<1> QED
  BY <1>2, <1>3, <1>4, <1>5

LEMMA ScheduleWriteEffect ==
    ASSUME NEW s, SessionOK(s), NEW p \in PacketId, NEW cb \in Callback
    PROVE  LET n == ScheduleWrite(s, p, cb)
           IN  /\ n.writing = IF s.writes = <<>> THEN 1 ELSE s.writing
               /\ n.wbuf = IF s.writes = <<>> THEN Encode(p) ELSE s.wbuf
<1> DEFINE w == [packet |-> p, callback |-> cb]
           q == Append(s.writes, w)
           m == [s EXCEPT !.writes = q]
<1>1. s.writes \in Seq(Write) /\ w \in Write
  BY DEF SessionOK, SessionType, Write, Callback, PacketId
<1>2. q \in Seq(Write) /\ q # <<>>
  BY <1>1, AppendProperties
<1>3. s.writes = <<>> => Head(q) = w
  BY <1>1
<1>4. w.packet = p
  OBVIOUS
<1> HIDE DEF q, w
<1>5. /\ m \in SessionType /\ m.writing = s.writing /\ m.wbuf = s.wbuf /\ m.writes = q
  BY <1>2, AssignWrites DEF SessionOK
<1>6. s.writes = <<>> => s.writing = 0
  BY DEF SessionOK, SessionType
<1>7. ScheduleWrite(s, p, cb) = IF s.writes = <<>> THEN DoAsyncWrite(m) ELSE m
  BY DEF ScheduleWrite, q, w
<1> HIDE DEF m
<1>8. /\ DoAsyncWrite(m).writing = m.writing + 1
      /\ DoAsyncWrite(m).wbuf = Encode(Head(q).packet)
  BY <1>2, <1>5, DoAsyncWriteType
<1> QED
  BY <1>3, <1>4, <1>5, <1>6, <1>7, <1>8

LEMMA PopReadEffect ==
    ASSUME NEW s, SessionOK(s), s.reading = 0, s.reads # <<>>
    PROVE  LET n == PopRead(s)
           IN  /\ n.reading = IF Tail(s.reads) = <<>> THEN 0 ELSE 1
               /\ n.rbuf = s.rbuf
<1> DEFINE q == Tail(s.reads)
           m == [s EXCEPT !.reads = q]
<1>1. q \in Seq(Callback)
  BY HeadTailProperties DEF SessionOK, SessionType, Callback
<1> HIDE DEF q
<1>2. m \in SessionType /\ m.reading = 0 /\ m.rbuf = s.rbuf /\ m.reads = q
  BY <1>1, AssignReads DEF SessionOK
<1>3. PopRead(s) = IF m.reads = <<>> THEN m ELSE DoAsyncRead(m)
  BY DEF PopRead, q
<1> HIDE DEF m
<1>4. DoAsyncRead(m).reading = m.reading + 1 /\ DoAsyncRead(m).rbuf = m.rbuf
  BY <1>2, DoAsyncReadType
<1> QED
  BY <1>2, <1>3, <1>4 DEF q

LEMMA PopWriteEffect ==
    ASSUME NEW s, SessionOK(s), s.writing = 0, s.writes # <<>>
    PROVE  LET n == PopWrite(s)
               left == Tail(s.writes)
           IN  /\ n.writing = IF left = <<>> THEN 0 ELSE 1
               /\ n.rbuf = s.rbuf
               /\ n.wbuf = IF left = <<>> THEN s.wbuf ELSE Encode(Head(left).packet)
<1> DEFINE q == Tail(s.writes)
           m == [s EXCEPT !.writes = q]
<1>1. q \in Seq(Write)
  BY HeadTailProperties DEF SessionOK, SessionType, Write, Callback, PacketId
<1> HIDE DEF q
<1>2. m \in SessionType /\ m.writing = 0 /\ m.rbuf = s.rbuf /\ m.wbuf = s.wbuf /\ m.writes = q
  BY <1>1, AssignWrites DEF SessionOK
<1>3. PopWrite(s) = IF m.writes = <<>> THEN m ELSE DoAsyncWrite(m)
  BY DEF PopWrite, q
<1> HIDE DEF m
<1>4. q # <<>> => /\ DoAsyncWrite(m).writing = m.writing + 1 /\ DoAsyncWrite(m).rbuf = m.rbuf
                  /\ DoAsyncWrite(m).wbuf = Encode(Head(q).packet)
  BY <1>2, DoAsyncWriteType
<1> DEFINE n == PopWrite(s)
<1>5. CASE q = <<>>
  <2>1. n = m
    BY <1>2, <1>3, <1>5
  <2> QED
    BY <1>2, <1>5, <2>1, Zenon DEF q
<1>6. CASE q # <<>>
  <2>1. n = DoAsyncWrite(m) /\ m.writing + 1 = 1
    BY <1>2, <1>3, <1>6
  <2> QED
    BY <1>2, <1>4, <1>6, <2>1, Zenon DEF q
<1> QED
  BY <1>5, <1>6

LEMMA WrittenEffect ==
    ASSUME NEW s, SessionOK(s), s.writing > 0, NEW resume \in BOOLEAN
    PROVE  LET n == Written(s, resume)
               left == Tail(s.writes)
           IN  /\ n.reading = IF resume /\ s.reads = <<>> THEN 1 ELSE s.reading
               /\ n.rbuf = s.rbuf
               /\ n.writing = IF left = <<>> THEN 0 ELSE 1
               /\ n.wbuf = IF left = <<>> THEN s.wbuf ELSE Encode(Head(left).packet)
<1> DEFINE d == [s EXCEPT !.writing = 0]
           cb == Head(s.writes).callback
           r == IF resume THEN ScheduleRead(d, cb) ELSE d
<1>1. s.writing - 1 = 0
  BY DEF SessionOK, SessionType
<1>2. s.writes \in Seq(Write) /\ s.writes # <<>>
  BY DEF SessionOK, SessionType, Write, Callback, PacketId
<1>3. cb \in Callback
  <2>1. Head(s.writes) \in Write
    BY <1>2, HeadTailProperties
  <2> QED
    BY <2>1 DEF Write
<1>4. /\ SessionOK(d) /\ d.writing = 0 /\ d.writes = s.writes /\ d.reads = s.reads
      /\ d.reading = s.reading /\ d.rbuf = s.rbuf /\ d.wbuf = s.wbuf
  BY AssignWriting DEF SessionOK
<1>5. Written(s, resume) = PopWrite(r)
  BY <1>1 DEF Written
<1> HIDE DEF d, cb
<1>6. /\ SessionOK(r) /\ r.writing = 0 /\ r.writes = s.writes
      /\ r.rbuf = s.rbuf /\ r.wbuf = s.wbuf
  BY <1>3, <1>4, ScheduleReadOK
<1>7. r.reading = IF resume /\ s.reads = <<>> THEN 1 ELSE s.reading
  BY <1>3, <1>4, ScheduleReadEffect
<1> HIDE DEF r
<1>8. PopWrite(r).reading = r.reading
  BY <1>2, <1>6, PopWriteOK
<1> DEFINE n == PopWrite(r)
<1>9. /\ n.writing = IF Tail(s.writes) = <<>> THEN 0 ELSE 1
      /\ n.rbuf = r.rbuf
      /\ n.wbuf = IF Tail(s.writes) = <<>> THEN s.wbuf
                                           ELSE Encode(Head(Tail(s.writes)).packet)
  BY <1>2, <1>6, PopWriteEffect
<1> QED
  BY <1>5, <1>6, <1>7, <1>8, <1>9

LEMMA TakeLineEffect ==
    ASSUME NEW s, SessionOK(s)
    PROVE  TakeLine(s).rbuf = SubSeq(s.rbuf, LineEnd(s.rbuf) + 1, Len(s.rbuf))
  BY DEF SessionOK, SessionType, TakeLine

\* A read handler whose callback writes: the server's, and the client's that
\* issues a request.
LEMMA ReplyEffect ==
    ASSUME NEW s, SessionOK(s), s.reading > 0, HasLine(s.rbuf),
           NEW p \in PacketId, NEW cb \in Callback
    PROVE  LET n == PopRead(ScheduleWrite(TakeLine(s), p, cb))
           IN  /\ n.reads = Tail(s.reads)
               /\ n.reading = IF Tail(s.reads) = <<>> THEN 0 ELSE 1
               /\ n.rbuf = TakeLine(s).rbuf
               /\ n.writes = Append(s.writes, [packet |-> p, callback |-> cb])
               /\ n.writing = IF s.writes = <<>> THEN 1 ELSE s.writing
               /\ n.wbuf = IF s.writes = <<>> THEN Encode(p) ELSE s.wbuf
<1> DEFINE t == TakeLine(s)
           w == ScheduleWrite(t, p, cb)
           n == PopRead(w)
           queue == Append(s.writes, [packet |-> p, callback |-> cb])
<1>1. /\ SessionOK(t) /\ t.reading = 0 /\ t.reads # <<>> /\ t.reads = s.reads
      /\ t.writes = s.writes /\ t.writing = s.writing /\ t.wbuf = s.wbuf
  BY TakeLineOK
<1> HIDE DEF t
<1>2. /\ SessionOK(w) /\ w.writes = Append(t.writes, [packet |-> p, callback |-> cb])
      /\ w.reads = t.reads /\ w.reading = 0 /\ w.rbuf = t.rbuf
  BY <1>1, ScheduleWriteOK
<1>3. /\ w.writing = IF t.writes = <<>> THEN 1 ELSE t.writing
      /\ w.wbuf = IF t.writes = <<>> THEN Encode(p) ELSE t.wbuf
  BY <1>1, ScheduleWriteEffect
<1> HIDE DEF w
<1>4. /\ n.reads = Tail(w.reads) /\ n.writes = w.writes
      /\ n.writing = w.writing /\ n.wbuf = w.wbuf
  BY <1>1, <1>2, PopReadOK, Zenon
<1>5. /\ n.reading = IF Tail(w.reads) = <<>> THEN 0 ELSE 1
      /\ n.rbuf = w.rbuf
  BY <1>1, <1>2, PopReadEffect, Zenon
<1> HIDE DEF n
<1>6. n.writes = queue /\ n.reads = Tail(s.reads) /\ n.rbuf = t.rbuf
  BY <1>1, <1>2, <1>4, <1>5, Zenon
<1>7. n.reading = IF Tail(s.reads) = <<>> THEN 0 ELSE 1
  BY <1>1, <1>2, <1>5, Zenon
<1>8. /\ n.writing = IF s.writes = <<>> THEN 1 ELSE s.writing
      /\ n.wbuf = IF s.writes = <<>> THEN Encode(p) ELSE s.wbuf
  BY <1>1, <1>3, <1>4, Zenon
<1> QED
  BY <1>6, <1>7, <1>8, Zenon DEF n, w, t

----------------------------------------------------------------------------
(***************************************************************************)
(* A worker with work pending runs, unless a callback has thrown.          *)
(***************************************************************************)
Threw(reads, d) == reads # <<>> /\ \E i \in DOMAIN d : d[i][1] = Head(reads)

Works(e, s, d) ==
    /\ s.writes # <<>> => s.writing > 0
    /\ s.reads # <<>> => s.reading > 0 \/ (e = "client" /\ Threw(s.reads, d))

LEMMA StopsIsWorks ==
    StopsOnlyByThrow <=>
        (up["client"] /\ up["server"] => \A e \in Ends : Works(e, sess[e], delivered))
<1>1. CallbackThrew <=> Threw(sess["client"].reads, delivered)
  BY Zenon DEF CallbackThrew, Threw
<1>2. \A e \in Ends : Works(e, sess[e], delivered) <=>
         /\ sess[e].writes # <<>> => sess[e].writing > 0
         /\ sess[e].reads # <<>> => sess[e].reading > 0 \/ (e = "client" /\ CallbackThrew)
  BY <1>1, Zenon DEF Works
<1> QED
  BY <1>2, Zenon DEF StopsOnlyByThrow

LEMMA StopsIsWorksNext ==
    (StopsOnlyByThrow <=>
        (up["client"] /\ up["server"] => \A e \in Ends : Works(e, sess[e], delivered)))'
  BY StopsIsWorks, PTL

LEMMA WorksStep ==
    ASSUME Inv, StopsOnlyByThrow, NEW e \in Ends, NEW n, SessionOK(n),
           sess' = [sess EXCEPT ![e] = n], up' = up,
           e = "client" \/ delivered' = delivered,
           Works(e, sess[e], delivered) => Works(e, n, delivered')
    PROVE  StopsOnlyByThrow'
<1>1. /\ sess'[e] = n
      /\ \A f \in Ends \ {e} : sess'[f] = sess[f]
  BY SessionStep, Zenon
<1>2. SUFFICES ASSUME up'["client"], up'["server"], NEW f \in Ends
               PROVE  Works(f, sess'[f], delivered')
  <2>1. StopsOnlyByThrow' <=>
           (up'["client"] /\ up'["server"] => \A f \in Ends : Works(f, sess'[f], delivered'))
    BY StopsIsWorksNext
  <2> QED
    BY <2>1, Zenon
<1>3. \A g \in Ends : Works(g, sess[g], delivered)
  BY <1>2, StopsIsWorks, Zenon
<1>4. CASE f = e
  BY <1>1, <1>3, <1>4, Zenon
<1>5. CASE f # e
  <2>1. sess'[f] = sess[f] /\ Works(f, sess[f], delivered)
    BY <1>1, <1>3, <1>5, Zenon
  <2>2. delivered' = delivered \/ f # "client"
    BY <1>5
  <2> QED
    BY <2>1, <2>2, Zenon DEF Works
<1> QED
  BY <1>4, <1>5

\* Kernel steps leave queues and operations alone.
LEMMA WorksSame ==
    ASSUME NEW e, NEW s, NEW n, NEW d, Works(e, s, d),
           n.reads = s.reads, n.writes = s.writes,
           n.reading = s.reading, n.writing = s.writing
    PROVE  Works(e, n, d)
  BY DEF Works

LEMMA RequestWorks ==
    ASSUME Inv, StopsOnlyByThrow, Request PROVE StopsOnlyByThrow'
<1> DEFINE s == sess["client"]
           n == ScheduleRequest(s, issued + 1)
<1>1. issued + 1 \in PacketId /\ issued + 1 \in Callback
  BY ConstantsAssumption DEF Inv, TypeOK, Request, PacketId, Callback
<1>2. SessionOK(s) /\ "client" \in Ends
  BY DEF Inv, Ends
<1>3. sess' = [sess EXCEPT !["client"] = n] /\ up' = up /\ delivered' = delivered
  BY DEF Request
<1> HIDE DEF s
<1>4. /\ SessionOK(n) /\ n.reads = s.reads /\ n.reading = s.reading
      /\ n.writing = IF s.writes = <<>> THEN 1 ELSE s.writing
  BY <1>1, <1>2, ScheduleWriteOK, ScheduleWriteEffect DEF ScheduleRequest
<1> HIDE DEF n
<1>5. Works("client", s, delivered) => Works("client", n, delivered)
  BY <1>4 DEF Works
<1> QED
  BY <1>2, <1>3, <1>4, <1>5, WorksStep, Zenon DEF s

\* A read handler that pops its queue has read on.
LEMMA ReplyWorks ==
    ASSUME NEW e, NEW s, SessionOK(s), s.reading > 0, HasLine(s.rbuf), NEW d, NEW d2,
           NEW p \in PacketId, NEW cb \in Callback, Works(e, s, d)
    PROVE  /\ Works(e, PopRead(ScheduleWrite(TakeLine(s), p, cb)), d2)
           /\ Works(e, PopRead(TakeLine(s)), d2)
<1> DEFINE t == TakeLine(s)
           n == PopRead(ScheduleWrite(t, p, cb))
           m == PopRead(t)
<1>1. /\ n.reads = Tail(s.reads) /\ n.reading = IF Tail(s.reads) = <<>> THEN 0 ELSE 1
      /\ n.writing = IF s.writes = <<>> THEN 1 ELSE s.writing
  BY ReplyEffect
<1>2. /\ SessionOK(t) /\ t.reading = 0 /\ t.reads # <<>> /\ t.reads = s.reads
      /\ t.writes = s.writes /\ t.writing = s.writing
  BY TakeLineOK
<1> HIDE DEF n, t
<1>3. /\ m.reads = Tail(t.reads) /\ m.writes = t.writes /\ m.writing = t.writing
      /\ m.reading = IF Tail(t.reads) = <<>> THEN 0 ELSE 1
  BY <1>2, PopReadOK, PopReadEffect
<1> HIDE DEF m
<1> DEFINE left == Tail(s.reads)
<1>4. /\ m.reads = left /\ m.writes = s.writes /\ m.writing = s.writing
      /\ m.reading = IF left = <<>> THEN 0 ELSE 1
      /\ n.reads = left /\ n.reading = IF left = <<>> THEN 0 ELSE 1
  BY <1>1, <1>2, <1>3, Zenon
<1> HIDE DEF left
<1>5. Works(e, n, d2) /\ Works(e, m, d2)
  BY <1>1, <1>4 DEF Works
<1> QED
  BY <1>5 DEF n, m, t

LEMMA ServerReadWorks ==
    ASSUME Inv, StopsOnlyByThrow, ServerRead PROVE StopsOnlyByThrow'
<1> DEFINE s == sess["server"]
           p == FirstPacket(s.rbuf)
           n == Serve(s, p)
<1>1. SessionOK(s) /\ s.reading > 0 /\ HasLine(s.rbuf) /\ "server" \in Ends
  BY DEF Inv, Ends, ServerRead, LineReady
<1>2. p \in PacketId /\ OnRequest \in Callback
  BY <1>1, FirstPacketType, ConstantsAssumption
     DEF SessionOK, SessionType, OnRequest, Callback
<1>3. sess' = [sess EXCEPT !["server"] = n] /\ up' = up /\ delivered' = delivered
  BY DEF ServerRead
<1> HIDE DEF s, p
<1>4. SessionOK(n)
  BY <1>1, <1>2, ServeOK
<1>5. Works("server", s, delivered) => Works("server", n, delivered)
  BY <1>1, <1>2, ReplyWorks DEF Serve
<1> HIDE DEF n
<1> QED
  BY <1>1, <1>3, <1>4, <1>5, WorksStep, Zenon DEF s

\* A callback that throws stops the client's reading, and nothing else.
LEMMA ClientReadWorks ==
    ASSUME Inv, StopsOnlyByThrow, ClientRead \/ ClientReadAndRequest \/ ClientReadThrows
    PROVE  StopsOnlyByThrow'
<1> DEFINE s == sess["client"]
           p == issued + 1
<1>1. /\ SessionOK(s) /\ s.reading > 0 /\ HasLine(s.rbuf) /\ Deliver(s) /\ "client" \in Ends
      /\ up' = up
  BY DEF Inv, Ends, ClientRead, ClientReadAndRequest, ClientReadThrows, LineReady
<1>2. 1 \in PacketId /\ 1 \in Callback
  BY <1>1, FirstPacketType, ConstantsAssumption
     DEF SessionOK, SessionType, PacketId, Callback
<1>3. CASE ClientRead
  <2> DEFINE n == PopRead(TakeLine(s))
  <2>1. sess' = [sess EXCEPT !["client"] = n]
    BY <1>3 DEF ClientRead
  <2> HIDE DEF s
  <2>2. SessionOK(n) /\ (Works("client", s, delivered) => Works("client", n, delivered'))
    BY <1>1, <1>2, ClientReadOK, ReplyWorks
  <2> HIDE DEF n
  <2> QED
    BY <1>1, <2>1, <2>2, WorksStep, Zenon DEF s
<1>4. CASE ClientReadAndRequest
  <2> DEFINE n == PopRead(ScheduleRequest(TakeLine(s), p))
  <2>1. sess' = [sess EXCEPT !["client"] = n]
    BY <1>4 DEF ClientReadAndRequest
  <2>2. p \in PacketId /\ p \in Callback
    BY <1>4, ConstantsAssumption DEF ClientReadAndRequest, Inv, TypeOK, PacketId, Callback
  <2> HIDE DEF s, p
  <2>3. SessionOK(n)
    BY <1>1, <2>2, ClientReadOK
  <2>4. Works("client", s, delivered) => Works("client", n, delivered')
    BY <1>1, <2>2, ReplyWorks DEF ScheduleRequest
  <2> HIDE DEF n
  <2> QED
    BY <1>1, <2>1, <2>3, <2>4, WorksStep, Zenon DEF s
<1>5. CASE ClientReadThrows
  <2> DEFINE n == TakeLine(s)
             answer == <<Head(s.reads), FirstPacket(s.rbuf)>>
  <2>1. sess' = [sess EXCEPT !["client"] = n] /\ delivered' = Append(delivered, answer)
    BY <1>5 DEF ClientReadThrows, Deliver
  <2>2. delivered \in Seq((0..MaxRequests) \X (1..MaxRequests))
    BY DEF Inv, TypeOK
  <2>3. answer[1] = Head(s.reads)
    OBVIOUS
  <2> HIDE DEF s, answer
  <2>4. /\ SessionOK(n) /\ n.reads = s.reads /\ n.reads # <<>>
        /\ n.writes = s.writes /\ n.writing = s.writing
    BY <1>1, TakeLineOK
  <2> HIDE DEF n
  <2>5. Len(delivered') \in DOMAIN delivered' /\ delivered'[Len(delivered')] = answer
    BY <2>1, <2>2
  <2>6. Threw(n.reads, delivered')
    BY <2>3, <2>4, <2>5, Zenon DEF Threw
  <2>7. Works("client", s, delivered) => Works("client", n, delivered')
    BY <2>4, <2>6, Zenon DEF Works
  <2> QED
    BY <1>1, <2>1, <2>4, <2>7, WorksStep, Zenon DEF s
<1> QED
  BY <1>3, <1>4, <1>5

LEMMA WriteDoneWorks ==
    ASSUME Inv, StopsOnlyByThrow, NEW e \in Ends, WriteDone(e) PROVE StopsOnlyByThrow'
<1> DEFINE s == sess[e]
           resume == e = "client" \/ shouldRead
           n == Written(s, resume)
<1>1. SessionOK(s) /\ s.writing > 0
  BY DEF Inv, WriteDone
<1>2. sess' = [sess EXCEPT ![e] = n] /\ up' = up /\ delivered' = delivered
  BY DEF WriteDone, history
<1>3. resume \in BOOLEAN
  BY DEF Inv, TypeOK
<1> HIDE DEF s, resume
<1>4. /\ SessionOK(n) /\ n.writes = Tail(s.writes)
      /\ n.reads = IF resume THEN Append(s.reads, Head(s.writes).callback) ELSE s.reads
  BY <1>1, <1>3, WrittenOK
<1>5. /\ n.reading = IF resume /\ s.reads = <<>> THEN 1 ELSE s.reading
      /\ n.writing = IF Tail(s.writes) = <<>> THEN 0 ELSE 1
  BY <1>1, <1>3, WrittenEffect, Zenon
<1> HIDE DEF n
<1> DEFINE left == Tail(s.writes)
           cb == Head(s.writes).callback
<1>6. n.writes # <<>> => n.writing > 0
  <2>1. n.writes = left /\ n.writing = IF left = <<>> THEN 0 ELSE 1
    BY <1>4, <1>5, Zenon
  <2> HIDE DEF left
  <2> QED
    BY <2>1
<1>7. ASSUME Works(e, s, delivered), n.reads # <<>>
      PROVE  n.reading > 0 \/ (e = "client" /\ Threw(n.reads, delivered))
  <2>1. CASE s.reads = <<>>
    BY <1>4, <1>5, <1>7, <2>1
  <2>2. CASE s.reads # <<>>
    <3>1. n.reading = s.reading
      BY <1>5, <2>2
    <3>2. Head(n.reads) = Head(s.reads)
      <4>1. s.reads \in Seq(Callback) /\ n.reads \in {s.reads, Append(s.reads, cb)}
        BY <1>1, <1>4 DEF SessionOK, SessionType, Callback
      <4> HIDE DEF cb
      <4> QED
        BY <2>2, <4>1
    <3> QED
      BY <1>7, <2>2, <3>1, <3>2, Zenon DEF Works, Threw
  <2> QED
    BY <2>1, <2>2
<1>8. Works(e, s, delivered) => Works(e, n, delivered)
  BY <1>6, <1>7, Zenon DEF Works
<1> QED
  BY <1>2, <1>4, <1>8, WorksStep, Zenon DEF s

\* The kernel moves bytes from and to the buffers of a session.
LEMMA KernelStep ==
    ASSUME Inv, NEW e \in Ends, KernelSend(e) \/ KernelReceive(e)
    PROVE  \E n : /\ SessionOK(n) /\ sess' = [sess EXCEPT ![e] = n]
                  /\ n.reads = sess[e].reads /\ n.writes = sess[e].writes
                  /\ n.reading = sess[e].reading /\ n.writing = sess[e].writing
<1>1. sess[e] \in SessionType /\ SessionOK(sess[e]) /\ Peer(e) \in Ends
  BY DEF Inv, TypeOK, Peer, Ends
<1>2. CASE KernelSend(e)
  <2> DEFINE b == sess[e].wbuf
  <2>1. PICK k \in 1..Len(b) : sess' = [sess EXCEPT ![e].wbuf = SubSeq(b, k + 1, Len(b))]
    BY <1>2 DEF KernelSend
  <2> DEFINE c == SubSeq(b, k + 1, Len(b))
             n == [sess[e] EXCEPT !.wbuf = c]
  <2>2. sess' = [sess EXCEPT ![e] = n]
    BY <2>1 DEF Inv, TypeOK
  <2>3. c \in Seq(Fragments)
    <3>1. b \in Seq(Fragments)
      BY <1>1 DEF SessionType
    <3> HIDE DEF b
    <3> QED
      BY <3>1, Pieces
  <2> HIDE DEF c
  <2>4. /\ n \in SessionType
        /\ n.reads = sess[e].reads /\ n.writes = sess[e].writes
        /\ n.reading = sess[e].reading /\ n.writing = sess[e].writing
    BY <1>1, <2>3, AssignWbuf
  <2> HIDE DEF n
  <2>5. SessionOK(n)
    BY <1>1, <2>4 DEF SessionOK
  <2> QED
    BY <2>2, <2>4, <2>5, Zenon
<1>3. CASE KernelReceive(e)
  <2> DEFINE b == net[Peer(e)]
  <2>1. PICK k \in 1..Len(b) : sess' = [sess EXCEPT ![e].rbuf = @ \o SubSeq(b, 1, k)]
    BY <1>3 DEF KernelReceive
  <2> DEFINE c == sess[e].rbuf \o SubSeq(b, 1, k)
             n == [sess[e] EXCEPT !.rbuf = c]
  <2>2. sess' = [sess EXCEPT ![e] = n]
    BY <2>1 DEF Inv, TypeOK
  <2>3. c \in Seq(Fragments)
    <3>1. b \in Seq(Fragments) /\ sess[e].rbuf \in Seq(Fragments)
      BY <1>1 DEF SessionType, Inv, TypeOK
    <3> HIDE DEF b
    <3> QED
      BY <3>1, Pieces
  <2> HIDE DEF c
  <2>4. /\ n \in SessionType
        /\ n.reads = sess[e].reads /\ n.writes = sess[e].writes
        /\ n.reading = sess[e].reading /\ n.writing = sess[e].writing
    BY <1>1, <2>3, AssignRbuf
  <2> HIDE DEF n
  <2>5. SessionOK(n)
    BY <1>1, <2>4 DEF SessionOK
  <2> QED
    BY <2>2, <2>4, <2>5, Zenon
<1> QED
  BY <1>2, <1>3

LEMMA KernelWorks ==
    ASSUME Inv, StopsOnlyByThrow, NEW e \in Ends, KernelSend(e) \/ KernelReceive(e)
    PROVE  StopsOnlyByThrow'
<1>1. PICK n : /\ SessionOK(n) /\ sess' = [sess EXCEPT ![e] = n]
               /\ n.reads = sess[e].reads /\ n.writes = sess[e].writes
               /\ n.reading = sess[e].reading /\ n.writing = sess[e].writing
  BY KernelStep, Zenon
<1>2. up' = up /\ delivered' = delivered
  BY DEF KernelSend, KernelReceive, history
<1>3. Works(e, sess[e], delivered) => Works(e, n, delivered')
  BY <1>1, <1>2, WorksSame, Zenon
<1> QED
  BY <1>1, <1>2, <1>3, WorksStep, Zenon

LEMMA StopsStep == Inv /\ StopsOnlyByThrow /\ [Next]_vars => StopsOnlyByThrow'
<1> SUFFICES ASSUME Inv, StopsOnlyByThrow, [Next]_vars PROVE StopsOnlyByThrow'
  OBVIOUS
<1>1. CASE Request
  BY <1>1, RequestWorks
<1>2. CASE ServerRead
  BY <1>2, ServerReadWorks
<1>3. CASE ClientRead \/ ClientReadAndRequest \/ ClientReadThrows
  BY <1>3, ClientReadWorks
<1>4. ASSUME NEW e \in Ends, KernelSend(e) \/ KernelReceive(e) PROVE StopsOnlyByThrow'
  BY <1>4, KernelWorks
<1>5. ASSUME NEW e \in Ends, WriteDone(e) PROVE StopsOnlyByThrow'
  BY <1>5, WriteDoneWorks
<1>6. CASE ServerParseError \/ \E e \in Ends : ReadFails(e) \/ WriteFails(e) \/ Close(e)
  \* One end is not up afterwards.
  <2>1. ~(up'["client"] /\ up'["server"])
    BY <1>6 DEF ServerParseError, ReadFails, WriteFails, Close, Inv, TypeOK, Ends, Peer
  <2> QED
    BY <2>1, Zenon DEF StopsOnlyByThrow
<1>7. CASE DoClose \/ UNCHANGED vars
  <2>1. UNCHANGED <<sess, up, delivered>>
    BY <1>7 DEF DoClose, vars, history
  <2>2. UNCHANGED sess /\ UNCHANGED up /\ UNCHANGED delivered
    BY <2>1
  <2>3. (CallbackThrew)' <=> CallbackThrew
    BY <2>2, Zenon DEF CallbackThrew
  <2> QED
    BY <2>2, <2>3, Zenon DEF StopsOnlyByThrow
<1> QED
  BY <1>1, <1>2, <1>3, <1>4, <1>5, <1>6, <1>7, Zenon DEF Next

LEMMA StopsInit == Init => StopsOnlyByThrow
<1> SUFFICES ASSUME Init PROVE StopsOnlyByThrow
  OBVIOUS
<1> DEFINE r == ScheduleRead(NewSession, OnRequest)
<1>1. OnRequest \in Callback
  BY ConstantsAssumption DEF OnRequest, Callback
<1>2. NewSession.reads = <<>> /\ NewSession.writes = <<>>
  BY DEF NewSession
<1>3. r.reading = 1 /\ r.writes = <<>>
  BY <1>1, <1>2, NewSessionOK, ScheduleReadOK, ScheduleReadEffect
<1> HIDE DEF r
<1>4. sess = [e \in Ends |-> IF e = "server" THEN r ELSE NewSession]
  BY DEF Init, r
<1>5. \A e \in Ends : /\ sess[e].writes = <<>>
                      /\ sess[e].reads = <<>> \/ sess[e].reading > 0
  BY <1>2, <1>3, <1>4
<1> QED
  BY <1>5, Zenon DEF StopsOnlyByThrow

\* A worker of Session with work pending stops only when a callback of the
\* client throws, and it is the client's reading that stops (session.cpp: the
\* read handler returns without popping the queue or starting a read).
THEOREM WorkersStopOnlyByThrow == Spec => []StopsOnlyByThrow
<1>1. Inv /\ StopsOnlyByThrow /\ [Next]_vars => (Inv /\ StopsOnlyByThrow)'
  BY NextInv, StopsStep
<1> QED
  BY <1>1, InitInv, StopsInit, PTL DEF Spec

----------------------------------------------------------------------------
(***************************************************************************)
(* The bytes between the two ends.  Packets follow each other by number in *)
(* both directions, so a stretch of the stream is known by the packets it  *)
(* carries.                                                                *)
(***************************************************************************)

\* The j-th fragment ever sent in one direction.
Fragment(j) == IF j % 2 = 1 THEN [packet |-> (j + 1) \div 2, last |-> FALSE]
                            ELSE [packet |-> j \div 2, last |-> TRUE]

\* q carries the packets after packet f, up to packet t.
Carries(q, f, t) ==
    /\ Len(q) = 2 * (t - f)
    /\ \A i \in 1..Len(q) : q[i] = Fragment(2 * f + i)

\* What one end has put on the wire and the other not taken out of its buffer.
Requests(ss, nt) == ss["server"].rbuf \o (nt["client"] \o ss["client"].wbuf)
Replies(ss, nt) == ss["client"].rbuf \o (nt["server"] \o ss["server"].wbuf)

LEMMA Fragments2 ==
    ASSUME NEW t \in Nat
    PROVE  /\ Fragment(2 * t + 1) = [packet |-> t + 1, last |-> FALSE]
           /\ Fragment(2 * t + 2) = [packet |-> t + 1, last |-> TRUE]
           /\ ~Fragment(2 * t + 1).last /\ Fragment(2 * t + 2).last
           /\ Fragment(2 * t + 1).packet = t + 1
<1>1. /\ (2 * t + 1) % 2 = 1 /\ (2 * t + 1 + 1) \div 2 = t + 1
      /\ (2 * t + 2) % 2 = 0 /\ (2 * t + 2) \div 2 = t + 1 /\ 0 # 1
  OBVIOUS
<1> QED
  BY <1>1, Zenon DEF Fragment

LEMMA CarriesNothing ==
    ASSUME NEW t \in Nat
    PROVE  Carries(<<>>, t, t)
  BY DEF Carries

\* The next packet is encoded behind the others.
LEMMA CarriesMore ==
    ASSUME NEW q \in Seq(Fragments), NEW f \in Nat, NEW t \in Nat, Carries(q, f, t),
           t + 1 \in PacketId
    PROVE  Carries(q \o Encode(t + 1), f, t + 1)
<1> DEFINE c == Encode(t + 1)
           r == q \o c
<1>1. /\ c \in Seq(Fragments) /\ Len(c) = 2
      /\ c[1] = [packet |-> t + 1, last |-> FALSE]
      /\ c[2] = [packet |-> t + 1, last |-> TRUE]
  BY EncodeType DEF Encode
<1> HIDE DEF c
<1>2. /\ Len(r) = Len(q) + 2 /\ Len(q) \in Nat
      /\ \A i \in 1..(Len(q) + 2) : r[i] = IF i <= Len(q) THEN q[i] ELSE c[i - Len(q)]
  <2>1. /\ Len(r) = Len(q) + Len(c) /\ Len(q) \in Nat
        /\ \A i \in 1..(Len(q) + Len(c)) : r[i] = IF i <= Len(q) THEN q[i] ELSE c[i - Len(q)]
    BY <1>1, ConcatProperties, LenProperties, Zenon
  <2> QED
    BY <1>1, <2>1, Zenon
<1> HIDE DEF r
<1>3. Len(q) = 2 * (t - f) /\ \A i \in 1..Len(q) : q[i] = Fragment(2 * f + i)
  BY DEF Carries
<1>4. /\ Fragment(2 * t + 1) = [packet |-> t + 1, last |-> FALSE]
      /\ Fragment(2 * t + 2) = [packet |-> t + 1, last |-> TRUE]
  BY Fragments2
<1>5. ASSUME NEW i \in 1..Len(r) PROVE r[i] = Fragment(2 * f + i)
  <2>1. CASE i <= Len(q)
    BY <1>2, <1>3, <2>1
  <2>2. CASE i = Len(q) + 1
    <3>1. r[i] = c[1] /\ 2 * f + i = 2 * t + 1
      BY <1>2, <1>3, <2>2
    <3> QED
      BY <1>1, <1>4, <3>1, Zenon
  <2>3. CASE i = Len(q) + 2
    <3>1. r[i] = c[2] /\ 2 * f + i = 2 * t + 2
      BY <1>2, <1>3, <2>3
    <3> QED
      BY <1>1, <1>4, <3>1, Zenon
  <2> QED
    BY <1>2, <2>1, <2>2, <2>3
<1> QED
  BY <1>2, <1>3, <1>5 DEF Carries, r, c

\* The first line of the stream is its first packet; taking it leaves the rest.
LEMMA CarriesLine ==
    ASSUME NEW a \in Seq(Fragments), NEW b \in Seq(Fragments), HasLine(a),
           NEW f \in Nat, NEW t \in Nat, Carries(a \o b, f, t)
    PROVE  /\ FirstPacket(a) = f + 1
           /\ f < t
           /\ SubSeq(a, LineEnd(a) + 1, Len(a)) \in Seq(Fragments)
           /\ Carries(SubSeq(a, LineEnd(a) + 1, Len(a)) \o b, f + 1, t)
<1> DEFINE q == a \o b
           c == SubSeq(a, LineEnd(a) + 1, Len(a))
           r == c \o b
<1>1. /\ Len(a) \in Nat /\ Len(b) \in Nat /\ Len(q) = Len(a) + Len(b)
      /\ \A i \in 1..Len(a) : q[i] = a[i]
      /\ \A i \in 1..Len(b) : q[Len(a) + i] = b[i]
  <2>1. /\ Len(a) \in Nat /\ Len(b) \in Nat /\ Len(q) = Len(a) + Len(b)
        /\ \A i \in 1..(Len(a) + Len(b)) : q[i] = IF i <= Len(a) THEN a[i] ELSE b[i - Len(a)]
    BY ConcatProperties, LenProperties
  <2> HIDE DEF q
  <2>2. ASSUME NEW i \in 1..Len(a) PROVE q[i] = a[i]
    <3>1. i \in 1..(Len(a) + Len(b)) /\ i <= Len(a)
      BY <2>1
    <3> QED
      BY <2>1, <3>1, Zenon
  <2>3. ASSUME NEW i \in 1..Len(b) PROVE q[Len(a) + i] = b[i]
    <3> DEFINE j == Len(a) + i
    <3>1. j \in 1..(Len(a) + Len(b)) /\ ~(j <= Len(a)) /\ j - Len(a) = i
      BY <2>1
    <3> HIDE DEF j
    <3>2. q[j] = b[j - Len(a)]
      BY <2>1, <3>1, Zenon
    <3> QED
      BY <3>1, <3>2, Zenon DEF j
  <2> QED
    BY <2>1, <2>2, <2>3, Zenon
<1>2. Len(q) = 2 * (t - f) /\ \A i \in 1..Len(q) : q[i] = Fragment(2 * f + i)
  BY DEF Carries
<1> HIDE DEF q
<1>3. \A i \in 1..Len(a) : a[i] = Fragment(2 * f + i)
  BY <1>1, <1>2
<1>4. /\ LineEnd(a) \in 1..Len(a) /\ a[LineEnd(a)].last
      /\ \A j \in 1..(LineEnd(a) - 1) : ~a[j].last
  BY FirstLine
<1> DEFINE e == LineEnd(a)
<1>5. e = 2 /\ Len(a) >= 2
  <2> HIDE DEF e
  <2>1. e \in 1..Len(a) /\ a[e].last /\ \A j \in 1..(e - 1) : ~a[j].last
    BY <1>4 DEF e
  <2>2. ~Fragment(2 * f + 1).last /\ Fragment(2 * f + 2).last
    BY Fragments2, Zenon
  <2>3. e # 1
    <3> SUFFICES ASSUME e = 1 PROVE FALSE
      OBVIOUS
    <3>1. a[1] = Fragment(2 * f + 1) /\ a[1].last
      BY <1>1, <1>3, <2>1
    <3> QED
      BY <2>2, <3>1
  <2>4. ~(e > 2)
    <3> SUFFICES ASSUME e > 2 PROVE FALSE
      OBVIOUS
    <3>1. 2 \in 1..Len(a) /\ 2 \in 1..(e - 1)
      BY <1>1, <2>1
    <3>2. a[2] = Fragment(2 * f + 2) /\ ~a[2].last
      BY <1>3, <2>1, <3>1
    <3> QED
      BY <2>2, <3>2
  <2> QED
    BY <1>1, <2>1, <2>3, <2>4
<1>6. FirstPacket(a) = f + 1
  <2>1. a[1] = Fragment(2 * f + 1)
    BY <1>1, <1>3, <1>5
  <2> QED
    BY <2>1, Fragments2, Zenon DEF FirstPacket
<1>7. f < t
  BY <1>1, <1>2, <1>5
<1>8. c = SubSeq(a, 3, Len(a))
  BY <1>5
<1> HIDE DEF c, e
<1>9. /\ c \in Seq(Fragments) /\ Len(c) = Len(a) - 2
      /\ \A i \in 1..(Len(a) - 2) : c[i] = a[i + 2]
  <2>1. \A i \in 3..Len(a) : a[i] \in Fragments
    BY <1>1, ElementOfSeq
  <2>2. /\ SubSeq(a, 3, Len(a)) \in Seq(Fragments)
        /\ Len(SubSeq(a, 3, Len(a))) = IF 3 <= Len(a) THEN Len(a) - 3 + 1 ELSE 0
        /\ \A i \in 1..(Len(a) - 3 + 1) : SubSeq(a, 3, Len(a))[i] = a[3 + i - 1]
    BY <1>1, <2>1, SubSeqProperties
  <2> DEFINE d == SubSeq(a, 3, Len(a))
  <2> HIDE DEF d
  <2>3. /\ c = d /\ d \in Seq(Fragments)
        /\ Len(d) = IF 3 <= Len(a) THEN Len(a) - 3 + 1 ELSE 0
        /\ \A i \in 1..(Len(a) - 3 + 1) : d[i] = a[3 + i - 1]
    BY <1>8, <2>2 DEF d
  <2>4. Len(d) = Len(a) - 2
    <3> DEFINE l == Len(a)
    <3>1. Len(d) = IF 3 <= l THEN l - 3 + 1 ELSE 0
      BY <2>3, Zenon
    <3>2. l \in Nat /\ l >= 2
      BY <1>1, <1>5, Zenon
    <3> HIDE DEF l
    <3>3. Len(d) = l - 2
      BY <3>1, <3>2
    <3> QED
      BY <3>3, Zenon DEF l
  <2>5. ASSUME NEW i \in 1..(Len(a) - 2) PROVE d[i] = a[i + 2]
    <3>1. i \in 1..(Len(a) - 3 + 1) /\ 3 + i - 1 = i + 2
      BY <1>1, <1>5
    <3>2. d[i] = a[3 + i - 1]
      BY <2>3, <3>1, Zenon
    <3> QED
      BY <3>1, <3>2, Zenon
  <2> QED
    BY <2>3, <2>4, <2>5, Zenon
<1>10. /\ Len(r) = Len(a) - 2 + Len(b)
       /\ \A i \in 1..(Len(a) - 2 + Len(b)) :
             r[i] = IF i <= Len(a) - 2 THEN c[i] ELSE b[i - (Len(a) - 2)]
  BY <1>9, ConcatProperties
<1> HIDE DEF r
<1>11. ASSUME NEW i \in 1..Len(r) PROVE r[i] = Fragment(2 * (f + 1) + i)
  <2>1. i + 2 \in 1..Len(q) /\ 2 * (f + 1) + i = 2 * f + (i + 2)
    BY <1>1, <1>5, <1>10
  <2>2. r[i] = q[i + 2]
    <3>1. CASE i <= Len(a) - 2
      <4>1. i \in 1..(Len(a) - 2) /\ i + 2 \in 1..Len(a)
        BY <1>1, <1>10, <3>1
      <4>2. r[i] = c[i] /\ c[i] = a[i + 2]
        BY <1>1, <1>9, <1>10, <3>1, <4>1
      <4> QED
        BY <1>1, <4>1, <4>2
    <3>2. CASE i > Len(a) - 2
      <4> DEFINE j == i - (Len(a) - 2)
      <4>1. j \in 1..Len(b) /\ Len(a) + j = i + 2
        BY <1>1, <1>5, <1>10, <3>2
      <4>2. r[i] = b[j]
        BY <1>1, <1>10, <3>2
      <4> HIDE DEF j
      <4>3. q[Len(a) + j] = b[j]
        BY <1>1, <4>1
      <4> QED
        BY <4>1, <4>2, <4>3, Zenon
    <3> QED
      BY <1>1, <1>10, <3>1, <3>2
  <2> QED
    BY <1>2, <2>1, <2>2
<1>12. Len(r) = 2 * (t - (f + 1))
  BY <1>1, <1>2, <1>10
<1>13. Carries(r, f + 1, t)
  BY <1>11, <1>12 DEF Carries
<1> QED
  BY <1>6, <1>7, <1>9, <1>13 DEF c, r

LEMMA StreamJoins ==
    ASSUME NEW a \in Seq(Fragments), NEW b \in Seq(Fragments), NEW c \in Seq(Fragments)
    PROVE  (a \o b) \o c = a \o (b \o c)
  BY ConcatAssociative

LEMMA StreamRegrouped ==
    ASSUME NEW a \in Seq(Fragments), NEW b \in Seq(Fragments), NEW c \in Seq(Fragments),
           NEW f, NEW t, Carries((a \o b) \o c, f, t)
    PROVE  Carries(a \o (b \o c), f, t)
  BY StreamJoins, Zenon

\* A piece that moves from the front of one part of the stream to the back of
\* the part before it leaves the stream as it was.
LEMMA PieceMoves ==
    ASSUME NEW a \in Seq(Fragments), NEW b \in Seq(Fragments), NEW k \in 1..Len(b)
    PROVE  (a \o SubSeq(b, 1, k)) \o SubSeq(b, k + 1, Len(b)) = a \o b
<1> DEFINE x == SubSeq(b, 1, k)
           y == SubSeq(b, k + 1, Len(b))
<1>1. Len(b) \in Nat /\ k \in Nat
  BY LenProperties
<1>2. x \in Seq(Fragments) /\ y \in Seq(Fragments)
  <2>1. /\ \A i \in 1..k : b[i] \in Fragments
        /\ \A i \in (k + 1)..Len(b) : b[i] \in Fragments
    BY <1>1, ElementOfSeq
  <2> QED
    BY <1>1, <2>1, SubSeqProperties
<1>3. x \o y = b
  <2>1. SubSeq(b, 1, k) \o SubSeq(b, k + 1, Len(b)) = SubSeq(b, 1, Len(b))
    BY <1>1, ConcatAdjacentSubSeq
  <2>2. SubSeq(b, 1, Len(b)) = b
    BY SubSeqFull
  <2> QED
    BY <2>1, <2>2
<1> HIDE DEF x, y
<1>4. (a \o x) \o y = a \o (x \o y)
  BY <1>2, StreamJoins
<1> QED
  BY <1>3, <1>4 DEF x, y

----------------------------------------------------------------------------
(***************************************************************************)
(* The invariant of the channel.  c is the client's session, s the         *)
(* server's, i the number of requests issued, d of callbacks run.          *)
(***************************************************************************)

\* The last request whose write has been started.
Begun(c, i) == IF c.writes = <<>> THEN i ELSE i - Len(c.writes) + 1

\* The requests not written yet are the last ones issued, in order.
WritesOK(c, i) ==
    /\ Len(c.writes) <= i
    /\ \A k \in 1..Len(c.writes) :
          /\ c.writes[k].packet = i - Len(c.writes) + k
          /\ c.writes[k].callback = i - Len(c.writes) + k
    /\ c.writes = <<>> => c.wbuf = <<>>

\* While the client reads, the callbacks that wait follow those that have run.
ReadsOK(c, i, d) ==
    c.reading > 0 \/ c.reads = <<>> =>
        /\ d + Len(c.reads) + Len(c.writes) = i
        /\ \A k \in 1..Len(c.reads) : c.reads[k] = d + k

\* The server has one thing to do at most.
ServerOK(s) ==
    /\ Len(s.reads) + Len(s.writes) <= 1
    /\ s.writes = <<>> => s.wbuf = <<>>

RequestsOK(ss, nt, i, h) == Carries(Requests(ss, nt), h, Begun(ss["client"], i))
RepliesOK(ss, nt, h, d) == Carries(Replies(ss, nt), d, h)

ChannelInv ==
    /\ WritesOK(sess["client"], issued)
    /\ ReadsOK(sess["client"], issued, Len(delivered))
    /\ ServerOK(sess["server"])
    /\ up["server"] => RequestsOK(sess, net, issued, Len(handled))
    /\ up["client"] => RepliesOK(sess, net, Len(handled), Len(delivered))

----------------------------------------------------------------------------
\* What the client starts to write continues what it has written.
Feeds(c, i, n, j) ==
    \/ n.wbuf = c.wbuf /\ Begun(n, j) = Begun(c, i)
    \/ /\ c.wbuf = <<>>
       /\ Begun(n, j) = Begun(c, i) + 1
       /\ Begun(n, j) \in PacketId
       /\ n.wbuf = Encode(Begun(n, j))

LEMMA FeedsCarry ==
    ASSUME NEW a \in Seq(Fragments), NEW b \in Seq(Fragments),
           NEW c, NEW n, NEW i, NEW j, c.wbuf \in Seq(Fragments), Feeds(c, i, n, j),
           NEW f \in Nat, Begun(c, i) \in Nat, Carries(a \o (b \o c.wbuf), f, Begun(c, i))
    PROVE  Carries(a \o (b \o n.wbuf), f, Begun(n, j))
<1>1. CASE n.wbuf = c.wbuf /\ Begun(n, j) = Begun(c, i)
  BY <1>1, Zenon
<1>2. CASE /\ c.wbuf = <<>>
           /\ Begun(n, j) = Begun(c, i) + 1
           /\ Begun(n, j) \in PacketId
           /\ n.wbuf = Encode(Begun(n, j))
  <2> DEFINE t == Begun(c, i)
             q == a \o b
             e == Encode(t + 1)
  <2>1. b \o c.wbuf = b
    <3>1. b \o <<>> = b
      BY ConcatEmptySeq
    <3> QED
      BY <1>2, <3>1, Zenon
  <2>2. q \in Seq(Fragments)
    BY ConcatProperties
  <2>3. t \in Nat /\ t + 1 \in PacketId /\ Carries(q, f, t)
    BY <1>2, <2>1, Zenon
  <2>4. e \in Seq(Fragments) /\ n.wbuf = e /\ Begun(n, j) = t + 1
    BY <1>2, <2>3, EncodeType, Zenon
  <2> HIDE DEF t
  <2>5. Carries(q \o e, f, t + 1)
    BY <2>2, <2>3, CarriesMore
  <2> HIDE DEF e
  <2> QED
    BY <2>4, <2>5, StreamRegrouped, Zenon
<1> QED
  BY <1>1, <1>2, Zenon DEF Feeds

\* schedule_request queues request p, and starts to write it if none waits.
Queues(c, p, n) ==
    /\ n.writes = Append(c.writes, [packet |-> p, callback |-> p])
    /\ n.wbuf = IF c.writes = <<>> THEN Encode(p) ELSE c.wbuf

\* The write handler goes on to the next request, if there is one.
WritesOn(c, n) ==
    LET left == Tail(c.writes)
    IN  /\ n.writes = left
        /\ n.wbuf = IF left = <<>> THEN c.wbuf ELSE Encode(Head(left).packet)

LEMMA RequestFeeds ==
    ASSUME NEW c, SessionOK(c), NEW i \in Nat, WritesOK(c, i), i + 1 \in PacketId,
           NEW n, Queues(c, i + 1, n)
    PROVE  /\ WritesOK(n, i + 1) /\ Feeds(c, i, n, i + 1) /\ Begun(c, i) \in Nat
           /\ Len(n.writes) = Len(c.writes) + 1
<1> DEFINE w == [packet |-> i + 1, callback |-> i + 1]
           l == Len(c.writes)
<1>1. c.writes \in Seq(Write) /\ w \in Write
  <2>1. i + 1 \in Callback
    BY ConstantsAssumption DEF PacketId, Callback
  <2> QED
    BY <2>1 DEF SessionOK, SessionType, Write, Callback, PacketId
<1>2. w.packet = i + 1 /\ w.callback = i + 1
  OBVIOUS
<1> HIDE DEF w
<1>3. /\ l \in Nat /\ Len(n.writes) = l + 1 /\ n.writes[l + 1] = w
      /\ \A k \in 1..l : n.writes[k] = c.writes[k]
      /\ n.writes # <<>> /\ (c.writes = <<>> <=> l = 0)
  BY <1>1 DEF w, Queues
<1> HIDE DEF l
<1>4. /\ l <= i
      /\ \A k \in 1..l : c.writes[k].packet = i - l + k /\ c.writes[k].callback = i - l + k
      /\ c.writes = <<>> => c.wbuf = <<>>
  BY Zenon DEF WritesOK, l
<1>5. ASSUME NEW k \in 1..(l + 1)
      PROVE  n.writes[k].packet = (i + 1) - (l + 1) + k /\ n.writes[k].callback = (i + 1) - (l + 1) + k
  <2>0. (i + 1) - (l + 1) + k = i - l + k
    BY <1>3
  <2>1. CASE k = l + 1
    <3>1. i - l + k = i + 1
      BY <1>3, <2>1
    <3> QED
      BY <1>2, <1>3, <2>0, <2>1, <3>1, Zenon
  <2>2. CASE k # l + 1
    <3>1. k \in 1..l
      BY <1>3, <2>2
    <3> QED
      BY <1>3, <1>4, <2>0, <3>1, Zenon
  <2> QED
    BY <2>1, <2>2
<1>6. WritesOK(n, i + 1)
  <2>1. l + 1 <= i + 1
    BY <1>3, <1>4
  <2> DEFINE m == Len(n.writes)
  <2>2. m = l + 1 /\ n.writes # <<>>
    BY <1>3, Zenon
  <2> HIDE DEF m
  <2>3. \A k \in 1..m : n.writes[k].packet = (i + 1) - m + k /\ n.writes[k].callback = (i + 1) - m + k
    BY <1>5, <2>2, Zenon
  <2>4. m <= i + 1
    BY <2>1, <2>2, Zenon
  <2> QED
    BY <2>2, <2>3, <2>4, Zenon DEF WritesOK, m
<1>7. Begun(n, i + 1) = (i + 1) - (l + 1) + 1
  <2> DEFINE m == Len(n.writes)
  <2>1. m = l + 1 /\ n.writes # <<>>
    BY <1>3, Zenon
  <2>2. Begun(n, i + 1) = (i + 1) - m + 1
    BY <2>1, Zenon DEF Begun
  <2> HIDE DEF m
  <2> QED
    BY <2>1, <2>2, Zenon
<1>8. CASE c.writes = <<>>
  <2>1. Begun(c, i) = i /\ l = 0 /\ c.wbuf = <<>> /\ n.wbuf = Encode(i + 1)
    BY <1>3, <1>4, <1>8, Zenon DEF Begun, Queues
  <2>2. Begun(n, i + 1) = i + 1
    BY <1>7, <2>1
  <2>3. Feeds(c, i, n, i + 1)
    BY <2>1, <2>2, Zenon DEF Feeds
  <2> QED
    BY <1>3, <1>6, <2>1, <2>3, Zenon DEF l
<1>9. CASE c.writes # <<>>
  <2>1. Begun(c, i) = i - l + 1 /\ n.wbuf = c.wbuf
    BY <1>9, Zenon DEF Begun, Queues, l
  <2>2. Begun(n, i + 1) = Begun(c, i) /\ Begun(c, i) \in Nat
    BY <1>3, <1>4, <1>7, <2>1
  <2>3. Feeds(c, i, n, i + 1)
    BY <2>1, <2>2, Zenon DEF Feeds
  <2> QED
    BY <1>3, <1>6, <2>2, <2>3, Zenon DEF l
<1> QED
  BY <1>8, <1>9

LEMMA WrittenFeeds ==
    ASSUME NEW c, SessionOK(c), c.writes # <<>>, c.wbuf = <<>>,
           NEW i \in 0..MaxRequests, WritesOK(c, i),
           NEW n, WritesOn(c, n)
    PROVE  /\ WritesOK(n, i) /\ Feeds(c, i, n, i) /\ Begun(c, i) \in Nat
           /\ Len(n.writes) = Len(c.writes) - 1
           /\ Head(c.writes).callback = i - Len(c.writes) + 1
<1> DEFINE l == Len(c.writes)
           left == Tail(c.writes)
<1>1. c.writes \in Seq(Write)
  BY DEF SessionOK, SessionType, Write, Callback, PacketId
<1>2. /\ l \in Nat /\ l > 0 /\ Len(left) = l - 1 /\ left \in Seq(Write)
      /\ \A k \in 1..(l - 1) : left[k] = c.writes[k + 1]
      /\ Head(c.writes) = c.writes[1]
  BY <1>1
<1>3. left # <<>> => Head(left) = left[1] /\ l - 1 >= 1
  <2>1. left # <<>> => Len(left) \in Nat \ {0}
    BY <1>2, EmptySeq, Zenon
  <2>2. left # <<>> => Head(left) = left[1]
    BY <1>2
  <2>3. left # <<>> => l - 1 >= 1
    <3> DEFINE m == Len(left)
    <3>1. m = l - 1 /\ l \in Nat /\ (left # <<>> => m \in Nat \ {0})
      BY <1>2, <2>1, Zenon
    <3> HIDE DEF m
    <3> QED
      BY <3>1
  <2> QED
    BY <2>2, <2>3, Zenon
<1>4. left = <<>> => l = 1
  <2>1. left = <<>> => Len(left) = 0
    BY EmptySeq, Zenon
  <2> DEFINE m == Len(left)
  <2>2. m = l - 1 /\ l \in Nat /\ (left = <<>> => m = 0)
    BY <1>2, <2>1, Zenon
  <2> HIDE DEF m
  <2> QED
    BY <2>2
<1>5. /\ n.writes = left
      /\ n.wbuf = IF left = <<>> THEN c.wbuf ELSE Encode(Head(left).packet)
  BY Zenon DEF WritesOn
<1> HIDE DEF l, left
<1>6. /\ l <= i
      /\ \A k \in 1..l : c.writes[k].packet = i - l + k /\ c.writes[k].callback = i - l + k
  BY Zenon DEF WritesOK, l
<1>7. Begun(c, i) = i - l + 1
  BY Zenon DEF Begun, l
<1>8. ASSUME NEW k \in 1..(l - 1)
      PROVE  left[k].packet = i - (l - 1) + k /\ left[k].callback = i - (l - 1) + k
  <2>1. k + 1 \in 1..l /\ i - (l - 1) + k = i - l + (k + 1)
    BY <1>2
  <2>2. left[k] = c.writes[k + 1]
    BY <1>2
  <2> QED
    BY <1>6, <2>1, <2>2, Zenon
<1>9. WritesOK(n, i)
  <2>1. l - 1 <= i
    BY <1>2, <1>6
  <2>2. Len(n.writes) = l - 1 /\ n.writes = left
    BY <1>2, <1>5, Zenon
  <2>3. n.writes = <<>> => n.wbuf = <<>>
    BY <1>5
  <2> QED
    BY <1>8, <2>1, <2>2, <2>3, Zenon DEF WritesOK
<1>10. Feeds(c, i, n, i)
  <2>1. CASE left = <<>>
    <3>1. Begun(n, i) = i /\ n.wbuf = c.wbuf
      BY <1>5, <2>1, Zenon DEF Begun
    <3>2. Begun(c, i) = i
      BY <1>4, <1>7, <2>1
    <3> QED
      BY <3>1, <3>2, Zenon DEF Feeds
  <2>2. CASE left # <<>>
    <3>1. Begun(n, i) = i - (l - 1) + 1
      BY <1>2, <1>5, <2>2, Zenon DEF Begun
    <3>2. left[1].packet = i - (l - 1) + 1
      <4>1. 1 \in 1..(l - 1)
        BY <1>2, <1>3, <2>2
      <4> QED
        BY <1>8, <4>1, Zenon
    <3>3. n.wbuf = Encode(Begun(n, i))
      BY <1>3, <1>5, <2>2, <3>1, <3>2, Zenon
    <3>4. Begun(n, i) = Begun(c, i) + 1 /\ Begun(n, i) \in PacketId
      <4>1. l \in Nat /\ l - 1 >= 1 /\ l <= i /\ MaxRequests \in Nat
        BY <1>2, <1>3, <1>6, <2>2, ConstantsAssumption, Zenon
      <4>2. /\ i - (l - 1) + 1 = i - l + 1 + 1
            /\ i - (l - 1) + 1 \in 1..MaxRequests
        BY <4>1
      <4> QED
        BY <1>7, <3>1, <4>2, Zenon DEF PacketId
    <3> QED
      BY <3>3, <3>4, Zenon DEF Feeds
  <2> QED
    BY <2>1, <2>2
<1>11. Head(c.writes).callback = i - l + 1
  <2>1. 1 \in 1..l
    BY <1>2
  <2> QED
    BY <1>2, <1>6, <2>1, Zenon
<1>12. Begun(c, i) \in Nat
  BY <1>2, <1>6, <1>7
<1>13. Len(n.writes) = l - 1
  BY <1>2, <1>5, Zenon
<1> QED
  BY <1>9, <1>10, <1>11, <1>12, <1>13, Zenon DEF l

(***************************************************************************)
(* The callbacks that wait, through the operations of a session.           *)
(***************************************************************************)
LEMMA SessionLengths ==
    ASSUME NEW s, SessionOK(s)
    PROVE  /\ Len(s.reads) \in Nat /\ (s.reads = <<>> <=> Len(s.reads) = 0)
           /\ Len(s.writes) \in Nat /\ (s.writes = <<>> <=> Len(s.writes) = 0)
<1>1. s.reads \in Seq(Callback) /\ s.writes \in Seq(Write)
  BY DEF SessionOK, SessionType, Write, Callback, PacketId
<1> QED
  BY <1>1, EmptySeq, LenProperties

LEMMA ReadsIssued ==
    ASSUME NEW c, SessionOK(c), NEW i \in Nat, NEW d \in Nat, ReadsOK(c, i, d),
           NEW n, n.reads = c.reads, n.reading = c.reading, Len(n.writes) = Len(c.writes) + 1
    PROVE  ReadsOK(n, i + 1, d)
<1> DEFINE r == Len(c.reads)
           w == Len(c.writes)
<1>1. r \in Nat /\ w \in Nat /\ Len(n.reads) = r /\ Len(n.writes) = w + 1
  BY SessionLengths
<1>2. (c.reading > 0 \/ c.reads = <<>>) =>
         /\ d + r + w = i
         /\ \A k \in 1..r : c.reads[k] = d + k
  BY Zenon DEF ReadsOK
<1> HIDE DEF r, w
<1>3. d + r + w = i => d + r + (w + 1) = i + 1
  BY <1>1
<1>4. (n.reading > 0 \/ n.reads = <<>>) =>
         /\ d + r + (w + 1) = i + 1
         /\ \A k \in 1..r : n.reads[k] = d + k
  BY <1>2, <1>3, Zenon
<1> QED
  BY <1>1, <1>4, Zenon DEF ReadsOK

\* The callback that runs is the next one, and so are those behind it.
LEMMA ReadsPopped ==
    ASSUME NEW c, SessionOK(c), c.reading > 0, NEW i \in Nat, NEW d \in Nat, ReadsOK(c, i, d),
           NEW n, n.reads = Tail(c.reads), NEW x \in 0..1, Len(n.writes) = Len(c.writes) + x
    PROVE  ReadsOK(n, i + x, d + 1) /\ Head(c.reads) = d + 1
<1> DEFINE r == Len(c.reads)
           w == Len(c.writes)
           left == Tail(c.reads)
<1>1. c.reads \in Seq(Callback) /\ c.reads # <<>>
  BY DEF SessionOK, SessionType, Callback
<1>2. r \in Nat /\ w \in Nat /\ r # 0 /\ Len(n.writes) = w + x
  BY <1>1, SessionLengths, Zenon
<1>3. Len(left) = r - 1 /\ \A k \in 1..(r - 1) : left[k] = c.reads[k + 1]
  BY <1>1, HeadTailProperties
<1>4. Head(c.reads) = c.reads[1]
  BY <1>1
<1>5. d + r + w = i /\ \A k \in 1..r : c.reads[k] = d + k
  BY Zenon DEF ReadsOK
<1>6. n.reads = left
  OBVIOUS
<1> HIDE DEF r, w, left
<1>7. c.reads[1] = d + 1
  <2>1. 1 \in 1..r
    BY <1>2
  <2> QED
    BY <1>5, <2>1, Zenon
<1>8. (d + 1) + (r - 1) + (w + x) = i + x
  BY <1>2, <1>5
<1>9. ASSUME NEW k \in 1..(r - 1) PROVE left[k] = (d + 1) + k
  <2>1. k + 1 \in 1..r /\ d + (k + 1) = (d + 1) + k
    BY <1>2
  <2> QED
    BY <1>3, <1>5, <2>1, Zenon
<1>10. Len(n.reads) = r - 1
  BY <1>3, <1>6, Zenon
<1>11. ReadsOK(n, i + x, d + 1)
  BY <1>2, <1>6, <1>8, <1>9, <1>10, Zenon DEF ReadsOK
<1> QED
  BY <1>4, <1>7, <1>11, Zenon

LEMMA CallbackNumber ==
    ASSUME NEW d \in Nat, NEW r \in Nat, NEW w \in Nat, NEW i, d + r + w = i
    PROVE  d + (r + 1) + (w - 1) = i /\ i - w + 1 = d + (r + 1)
  OBVIOUS

\* post_write schedules the callback of the request that has been written.
CallsBack(c, i, cb, n) ==
    /\ cb = i - Len(c.writes) + 1
    /\ n.reads = Append(c.reads, cb)
    /\ n.reading = IF c.reads = <<>> THEN 1 ELSE c.reading
    /\ Len(n.writes) = Len(c.writes) - 1

LEMMA ReadsWritten ==
    ASSUME NEW c, SessionOK(c), c.writes # <<>>, NEW i \in Nat, NEW d \in Nat, ReadsOK(c, i, d),
           NEW n, NEW cb \in Callback, CallsBack(c, i, cb, n)
    PROVE  ReadsOK(n, i, d)
<1> DEFINE r == Len(c.reads)
           w == Len(c.writes)
           more == Append(c.reads, cb)
<1>1. r \in Nat /\ w \in Nat /\ w # 0
  BY SessionLengths, Zenon
<1>2. /\ Len(more) = r + 1 /\ more[r + 1] = cb /\ more # <<>>
      /\ \A k \in 1..r : more[k] = c.reads[k]
  <2>1. c.reads \in Seq(Callback)
    BY DEF SessionOK, SessionType, Callback
  <2>2. /\ Len(more) = r + 1 /\ more # <<>>
        /\ \A k \in 1..r : more[k] = c.reads[k]
        /\ more[r + 1] = cb
    BY <2>1, CallbackAppended, Zenon
  <2> QED
    BY <2>2
<1>3. cb = i - w + 1 /\ n.reads = more /\ Len(n.writes) = w - 1
  BY Zenon DEF CallsBack
<1>4. n.reading > 0 => c.reading > 0 \/ c.reads = <<>>
  BY Zenon DEF CallsBack
<1>5. (c.reading > 0 \/ c.reads = <<>>) =>
         d + r + w = i /\ \A k \in 1..r : c.reads[k] = d + k
  BY Zenon DEF ReadsOK
<1> HIDE DEF r, w, more
<1>6. ASSUME d + r + w = i, \A k \in 1..r : c.reads[k] = d + k
      PROVE  d + (r + 1) + (w - 1) = i /\ \A k \in 1..(r + 1) : more[k] = d + k
  <2>1. d + (r + 1) + (w - 1) = i /\ cb = d + (r + 1)
    <3>1. d + r + w = i
      BY <1>6
    <3>2. d + (r + 1) + (w - 1) = i /\ i - w + 1 = d + (r + 1)
      BY <1>1, <3>1, CallbackNumber
    <3> QED
      BY <1>3, <3>2, Zenon
  <2>2. ASSUME NEW k \in 1..(r + 1) PROVE more[k] = d + k
    <3>1. k = r + 1 \/ k \in 1..r
      BY <1>1
    <3> QED
      BY <1>2, <1>6, <2>1, <3>1, Zenon
  <2> QED
    BY <2>1, <2>2
<1>7. (n.reading > 0 \/ n.reads = <<>>) =>
         d + (r + 1) + (w - 1) = i /\ \A k \in 1..(r + 1) : more[k] = d + k
  BY <1>2, <1>3, <1>4, <1>5, <1>6, Zenon
<1>8. Len(n.reads) = r + 1
  BY <1>2, <1>3, Zenon
<1> QED
  BY <1>3, <1>7, <1>8, Zenon DEF ReadsOK

----------------------------------------------------------------------------
(***************************************************************************)
(* Steps of one end.                                                       *)
(***************************************************************************)
LEMMA ChannelTypes ==
    ASSUME Inv
    PROVE  /\ SessionOK(sess["client"]) /\ SessionOK(sess["server"])
           /\ \A e \in Ends : /\ sess[e].rbuf \in Seq(Fragments) /\ sess[e].wbuf \in Seq(Fragments)
                              /\ net[e] \in Seq(Fragments)
           /\ issued \in Nat /\ issued \in 0..MaxRequests
           /\ Len(handled) \in Nat /\ Len(delivered) \in Nat
           /\ "client" \in Ends /\ "server" \in Ends
<1>1. "client" \in Ends /\ "server" \in Ends
  BY DEF Ends
<1>2. Len(handled) \in Nat /\ Len(delivered) \in Nat
  BY LenProperties DEF Inv, TypeOK
<1>3. issued \in Nat /\ issued \in 0..MaxRequests
  BY ConstantsAssumption DEF Inv, TypeOK
<1>4. \A e \in Ends : /\ sess[e].rbuf \in Seq(Fragments) /\ sess[e].wbuf \in Seq(Fragments)
                      /\ net[e] \in Seq(Fragments)
  BY DEF Inv, TypeOK, SessionType
<1> QED
  BY <1>1, <1>2, <1>3, <1>4 DEF Inv

LEMMA ClientChannel ==
    ASSUME Inv, ChannelInv, NEW n, SessionOK(n), sess' = [sess EXCEPT !["client"] = n],
           net' = net, up' = up, handled' = handled,
           WritesOK(n, issued'), ReadsOK(n, issued', Len(delivered')),
           Feeds(sess["client"], issued, n, issued'), Begun(sess["client"], issued) \in Nat,
           up["client"] => Carries(n.rbuf \o (net["server"] \o sess["server"].wbuf),
                                   Len(delivered'), Len(handled))
    PROVE  ChannelInv'
<1>1. sess'["client"] = n /\ sess'["server"] = sess["server"]
  BY ChannelTypes, SessionStep DEF Ends
<1>2. up'["server"] => RequestsOK(sess', net', issued', Len(handled'))
  <2> SUFFICES ASSUME up["server"] PROVE RequestsOK(sess', net', issued', Len(handled'))
    BY Zenon
  <2> DEFINE a == sess["server"].rbuf
             b == net["client"]
             c == sess["client"]
             t == Len(handled)
  <2>1. a \in Seq(Fragments) /\ b \in Seq(Fragments) /\ c.wbuf \in Seq(Fragments) /\ t \in Nat
    BY ChannelTypes, Zenon
  <2>2. Carries(a \o (b \o c.wbuf), t, Begun(c, issued))
    BY Zenon DEF ChannelInv, RequestsOK, Requests
  <2>3. Feeds(c, issued, n, issued') /\ Begun(c, issued) \in Nat
    OBVIOUS
  <2> HIDE DEF a, b, c, t
  <2>4. Carries(a \o (b \o n.wbuf), t, Begun(n, issued'))
    BY <2>1, <2>2, <2>3, FeedsCarry, Zenon
  <2> QED
    BY <1>1, <2>4, Zenon DEF RequestsOK, Requests, a, b, t
<1>3. up'["client"] => RepliesOK(sess', net', Len(handled'), Len(delivered'))
  BY <1>1, Zenon DEF RepliesOK, Replies
<1>4. WritesOK(sess'["client"], issued') /\ ReadsOK(sess'["client"], issued', Len(delivered'))
      /\ ServerOK(sess'["server"])
  BY <1>1, Zenon DEF ChannelInv
<1> QED
  BY <1>2, <1>3, <1>4, Zenon DEF ChannelInv

LEMMA ServerChannel ==
    ASSUME Inv, ChannelInv, NEW n, SessionOK(n), sess' = [sess EXCEPT !["server"] = n],
           net' = net, up'["client"] = up["client"], issued' = issued, delivered' = delivered,
           ServerOK(n),
           up'["server"] => Carries(n.rbuf \o (net["client"] \o sess["client"].wbuf),
                                    Len(handled'), Begun(sess["client"], issued)),
           up["client"] => Carries(sess["client"].rbuf \o (net["server"] \o n.wbuf),
                                   Len(delivered), Len(handled'))
    PROVE  ChannelInv'
<1>1. sess'["server"] = n /\ sess'["client"] = sess["client"]
  BY ChannelTypes, SessionStep DEF Ends
<1>2. up'["server"] => RequestsOK(sess', net', issued', Len(handled'))
  BY <1>1, Zenon DEF RequestsOK, Requests
<1>3. up'["client"] => RepliesOK(sess', net', Len(handled'), Len(delivered'))
  BY <1>1, Zenon DEF RepliesOK, Replies
<1>4. WritesOK(sess'["client"], issued') /\ ReadsOK(sess'["client"], issued', Len(delivered'))
      /\ ServerOK(sess'["server"])
  BY <1>1, Zenon DEF ChannelInv
<1> QED
  BY <1>2, <1>3, <1>4, Zenon DEF ChannelInv

LEMMA BegunNat ==
    ASSUME NEW c, SessionOK(c), NEW i \in Nat, WritesOK(c, i)
    PROVE  Begun(c, i) \in Nat
<1> DEFINE l == Len(c.writes)
<1>1. l \in Nat /\ l <= i
  BY SessionLengths DEF WritesOK
<1>2. Begun(c, i) = i \/ Begun(c, i) = i - l + 1
  BY Zenon DEF Begun
<1> HIDE DEF l
<1> QED
  BY <1>1, <1>2

\* What leaves the queue of writes alone writes what it wrote.
LEMMA SameWrites ==
    ASSUME NEW c, NEW n, NEW i, n.writes = c.writes, n.wbuf = c.wbuf, WritesOK(c, i)
    PROVE  WritesOK(n, i) /\ Feeds(c, i, n, i)
<1>1. Begun(n, i) = Begun(c, i)
  BY Zenon DEF Begun
<1> QED
  BY <1>1, Zenon DEF WritesOK, Feeds

LEMMA RequestChannel ==
    ASSUME Inv, ChannelInv, Request
    PROVE  ChannelInv' /\ Channel!Next
<1> DEFINE c == sess["client"]
           i == issued
           n == ScheduleRequest(c, i + 1)
<1>1. i + 1 \in PacketId /\ i + 1 \in Callback
  BY ConstantsAssumption DEF Inv, TypeOK, Request, PacketId, Callback
<1>2. SessionOK(c) /\ i \in Nat /\ Len(delivered) \in Nat
  BY ChannelTypes, Zenon
<1>3. /\ sess' = [sess EXCEPT !["client"] = n] /\ net' = net /\ up' = up
      /\ handled' = handled /\ issued' = i + 1 /\ delivered' = delivered
  BY DEF Request
<1>4. /\ WritesOK(c, i) /\ ReadsOK(c, i, Len(delivered))
      /\ up["client"] => Carries(c.rbuf \o (net["server"] \o sess["server"].wbuf),
                                 Len(delivered), Len(handled))
  BY Zenon DEF ChannelInv, RepliesOK, Replies
<1> HIDE DEF c, i
<1>5. /\ SessionOK(n) /\ n.reads = c.reads /\ n.reading = c.reading /\ n.rbuf = c.rbuf
      /\ Queues(c, i + 1, n)
  <2>1. /\ SessionOK(n) /\ n.reads = c.reads /\ n.reading = c.reading /\ n.rbuf = c.rbuf
        /\ n.writes = Append(c.writes, [packet |-> i + 1, callback |-> i + 1])
    BY <1>1, <1>2, ScheduleWriteOK DEF ScheduleRequest
  <2>2. n.wbuf = IF c.writes = <<>> THEN Encode(i + 1) ELSE c.wbuf
    BY <1>1, <1>2, ScheduleWriteEffect DEF ScheduleRequest
  <2> HIDE DEF n
  <2> QED
    BY <2>1, <2>2, Zenon DEF Queues
<1> HIDE DEF n
<1>6. /\ WritesOK(n, i + 1) /\ Feeds(c, i, n, i + 1) /\ Begun(c, i) \in Nat
      /\ Len(n.writes) = Len(c.writes) + 1
  BY <1>1, <1>2, <1>4, <1>5, RequestFeeds, Zenon
<1>7. ReadsOK(n, i + 1, Len(delivered))
  BY <1>2, <1>4, <1>5, <1>6, ReadsIssued, Zenon
<1>8. ChannelInv'
  BY <1>3, <1>4, <1>5, <1>6, <1>7, ClientChannel, Zenon DEF c, i
<1>9. Channel!Issue
  BY <1>3, Zenon DEF Channel!Issue, i
<1> QED
  BY <1>8, <1>9, Zenon DEF Channel!Next

\* The reply that arrives answers the callback at the front.
LEMMA ReplyArrives ==
    ASSUME Inv, ChannelInv, LineReady("client"), Deliver(sess["client"])
    PROVE  LET d == Len(delivered)
               c == sess["client"]
           IN  /\ d < Len(handled) /\ delivered' = Append(delivered, <<d + 1, d + 1>>)
               /\ Len(delivered') = d + 1
               /\ Carries(TakeLine(c).rbuf \o (net["server"] \o sess["server"].wbuf),
                          d + 1, Len(handled))
<1> DEFINE d == Len(delivered)
           h == Len(handled)
           c == sess["client"]
           b == net["server"] \o sess["server"].wbuf
<1>1. /\ SessionOK(c) /\ d \in Nat /\ h \in Nat /\ c.rbuf \in Seq(Fragments)
      /\ net["server"] \in Seq(Fragments) /\ sess["server"].wbuf \in Seq(Fragments)
  BY ChannelTypes, Zenon
<1>2. b \in Seq(Fragments)
  BY <1>1, ConcatProperties
<1>3. c.reading > 0 /\ HasLine(c.rbuf) /\ up["client"]
  BY DEF LineReady
<1>4. Carries(c.rbuf \o b, d, h)
  BY <1>3, Zenon DEF ChannelInv, RepliesOK, Replies
<1>5. Head(c.reads) = d + 1
  <2>1. c.reads \in Seq(Callback) /\ c.reads # <<>>
    BY <1>1, <1>3 DEF SessionOK, SessionType, Callback
  <2>2. \A k \in 1..Len(c.reads) : c.reads[k] = d + k
    BY <1>3, Zenon DEF ChannelInv, ReadsOK
  <2>3. Head(c.reads) = c.reads[1]
    BY <2>1
  <2>4. 1 \in 1..Len(c.reads)
    <3>1. Len(c.reads) \in Nat \ {0}
      BY <2>1, EmptySeq, Zenon
    <3> QED
      BY <3>1
  <2> QED
    BY <2>2, <2>3, <2>4, Zenon
<1>6. TakeLine(c).rbuf = SubSeq(c.rbuf, LineEnd(c.rbuf) + 1, Len(c.rbuf))
  BY <1>1, TakeLineEffect
<1>7. delivered' = Append(delivered, <<Head(c.reads), FirstPacket(c.rbuf)>>)
  BY DEF Deliver
<1> HIDE DEF b, h, c
<1>8. /\ FirstPacket(c.rbuf) = d + 1 /\ d < h
      /\ Carries(SubSeq(c.rbuf, LineEnd(c.rbuf) + 1, Len(c.rbuf)) \o b, d + 1, h)
  BY <1>1, <1>2, <1>3, <1>4, CarriesLine
<1>9. delivered' = Append(delivered, <<d + 1, d + 1>>)
  BY <1>5, <1>7, <1>8, Zenon
<1>10. Len(delivered') = d + 1
  <2>1. delivered \in Seq((0..MaxRequests) \X (1..MaxRequests))
    BY DEF Inv, TypeOK
  <2> QED
    BY <1>9, <2>1
<1>11. Carries(TakeLine(c).rbuf \o b, d + 1, h)
  BY <1>6, <1>8, Zenon
<1> QED
  BY <1>8, <1>9, <1>10, <1>11, Zenon DEF b, h, c

LEMMA ClientReadChannel ==
    ASSUME Inv, ChannelInv, ClientRead \/ ClientReadAndRequest \/ ClientReadThrows
    PROVE  ChannelInv' /\ Channel!Next
<1> DEFINE c == sess["client"]
           d == Len(delivered)
           i == issued
           t == TakeLine(c)
           b == net["server"] \o sess["server"].wbuf
<1>1. /\ SessionOK(c) /\ i \in Nat /\ d \in Nat
      /\ WritesOK(c, i) /\ ReadsOK(c, i, d) /\ Begun(c, i) \in Nat
  <2>1. SessionOK(c) /\ i \in Nat /\ d \in Nat
    BY ChannelTypes, Zenon
  <2>2. WritesOK(c, i) /\ ReadsOK(c, i, d)
    BY Zenon DEF ChannelInv
  <2> QED
    BY <2>1, <2>2, BegunNat, Zenon
<1>2. /\ LineReady("client") /\ Deliver(c) /\ c.reading > 0 /\ HasLine(c.rbuf)
      /\ net' = net /\ up' = up /\ handled' = handled
  BY DEF ClientRead, ClientReadAndRequest, ClientReadThrows, LineReady
<1>3. /\ d < Len(handled) /\ delivered' = Append(delivered, <<d + 1, d + 1>>)
      /\ Len(delivered') = d + 1
      /\ Carries(t.rbuf \o b, Len(delivered'), Len(handled))
  BY <1>2, ReplyArrives, Zenon
<1>4. d + 1 <= Len(handled)
  <2>1. Len(handled) \in Nat
    BY ChannelTypes, Zenon
  <2> QED
    BY <1>1, <1>3, <2>1
<1>5. issued' \in {issued, issued + 1} => Channel!Answer
  BY <1>2, <1>3, <1>4, Zenon DEF Channel!Answer
<1>6. /\ SessionOK(t) /\ t.reading = 0 /\ t.reads = c.reads /\ t.reads # <<>>
      /\ t.writes = c.writes /\ t.writing = c.writing /\ t.wbuf = c.wbuf
  BY <1>1, <1>2, TakeLineOK, Zenon
<1> HIDE DEF b, t, c, d, i
<1>7. CASE ClientRead
  <2> DEFINE n == PopRead(t)
  <2>1. sess' = [sess EXCEPT !["client"] = n] /\ issued' = i
    BY <1>7 DEF ClientRead, t, c, i
  <2>2. /\ SessionOK(n) /\ n.reads = Tail(c.reads) /\ n.writes = c.writes /\ n.wbuf = c.wbuf
    BY <1>6, PopReadOK, Zenon
  <2>3. n.rbuf = t.rbuf
    BY <1>6, PopReadEffect, Zenon
  <2> HIDE DEF n
  <2>4. ReadsOK(n, i, d + 1)
    <3>1. Len(n.writes) = Len(c.writes) + 0 /\ 0 \in 0..1 /\ i + 0 = i
      BY <1>1, <2>2, SessionLengths
    <3>2. ReadsOK(n, i + 0, d + 1)
      BY <1>1, <1>2, <2>2, <3>1, ReadsPopped
    <3> QED
      BY <3>1, <3>2, Zenon
  <2>5. WritesOK(n, i) /\ Feeds(c, i, n, i)
    BY <1>1, <2>2, SameWrites, Zenon
  <2>6. ChannelInv'
    BY <1>1, <1>2, <1>3, <2>1, <2>2, <2>3, <2>4, <2>5, ClientChannel, Zenon DEF b, c, i
  <2>7. Channel!Answer
    BY <1>5, <2>1, Zenon DEF i
  <2> QED
    BY <2>6, <2>7, Zenon DEF Channel!Next
<1>8. CASE ClientReadAndRequest
  <2> DEFINE n == PopRead(ScheduleWrite(t, i + 1, i + 1))
  <2>1. sess' = [sess EXCEPT !["client"] = n] /\ issued' = i + 1
    BY <1>8 DEF ClientReadAndRequest, ScheduleRequest, t, c, i
  <2>2. i + 1 \in PacketId /\ i + 1 \in Callback
    BY <1>8, ConstantsAssumption DEF ClientReadAndRequest, Inv, TypeOK, PacketId, Callback, i
  <2>3. SessionOK(n)
    BY <1>1, <1>2, <2>2, ClientReadOK DEF ScheduleRequest, t
  <2>4. /\ n.reads = Tail(c.reads) /\ n.rbuf = t.rbuf
        /\ n.writes = Append(c.writes, [packet |-> i + 1, callback |-> i + 1])
        /\ n.wbuf = IF c.writes = <<>> THEN Encode(i + 1) ELSE c.wbuf
    BY <1>1, <1>2, <2>2, ReplyEffect, Zenon DEF t
  <2> HIDE DEF n
  <2>5. Queues(c, i + 1, n)
    BY <2>4, Zenon DEF Queues
  <2>6. /\ WritesOK(n, i + 1) /\ Feeds(c, i, n, i + 1) /\ Len(n.writes) = Len(c.writes) + 1
    BY <1>1, <2>2, <2>5, RequestFeeds, Zenon
  <2>7. ReadsOK(n, i + 1, d + 1)
    BY <1>1, <1>2, <2>4, <2>6, ReadsPopped
  <2>8. ChannelInv'
    BY <1>1, <1>2, <1>3, <2>1, <2>3, <2>4, <2>6, <2>7, ClientChannel, Zenon DEF b, c, i
  <2>9. Channel!Answer
    BY <1>5, <2>1, Zenon DEF i
  <2> QED
    BY <2>8, <2>9, Zenon DEF Channel!Next
<1>9. CASE ClientReadThrows
  <2>1. sess' = [sess EXCEPT !["client"] = t] /\ issued' = i
    BY <1>9 DEF ClientReadThrows, t, c, i
  <2>2. ReadsOK(t, i, d + 1)
    <3>1. ~(t.reading > 0)
      BY <1>6
    <3> QED
      BY <1>6, <3>1, Zenon DEF ReadsOK
  <2>3. WritesOK(t, i) /\ Feeds(c, i, t, i)
    BY <1>1, <1>6, SameWrites, Zenon
  <2>4. ChannelInv'
    BY <1>1, <1>2, <1>3, <1>6, <2>1, <2>2, <2>3, ClientChannel, Zenon DEF b, c, i
  <2>5. Channel!Answer
    BY <1>5, <2>1, Zenon DEF i
  <2> QED
    BY <2>4, <2>5, Zenon DEF Channel!Next
<1> QED
  BY <1>7, <1>8, <1>9

\* A request the server reads is the next one; its reply follows the others.
LEMMA ServerReadChannel ==
    ASSUME Inv, ChannelInv, ServerRead
    PROVE  ChannelInv' /\ Channel!Next
<1> DEFINE s == sess["server"]
           c == sess["client"]
           h == Len(handled)
           p == FirstPacket(s.rbuf)
           t == TakeLine(s)
           n == PopRead(ScheduleWrite(t, p, OnRequest))
           b == net["client"] \o c.wbuf
           begun == Begun(c, issued)
<1>1. /\ SessionOK(s) /\ SessionOK(c) /\ h \in Nat /\ Len(delivered) \in Nat /\ issued \in Nat
      /\ s.rbuf \in Seq(Fragments) /\ s.wbuf \in Seq(Fragments)
      /\ c.rbuf \in Seq(Fragments) /\ c.wbuf \in Seq(Fragments)
      /\ net["client"] \in Seq(Fragments) /\ net["server"] \in Seq(Fragments)
  BY ChannelTypes, Zenon
<1>2. s.reading > 0 /\ HasLine(s.rbuf) /\ up["server"]
  BY DEF ServerRead, LineReady
<1>3. /\ sess' = [sess EXCEPT !["server"] = n] /\ net' = net /\ up' = up
      /\ handled' = Append(handled, p) /\ issued' = issued /\ delivered' = delivered
  BY DEF ServerRead, Serve
<1>4. /\ WritesOK(c, issued) /\ ServerOK(s)
      /\ Carries(s.rbuf \o b, h, begun)
      /\ up["client"] => Carries(c.rbuf \o (net["server"] \o s.wbuf), Len(delivered), h)
  BY <1>2, Zenon DEF ChannelInv, RequestsOK, Requests, RepliesOK, Replies
<1>5. begun \in Nat /\ b \in Seq(Fragments) /\ p \in PacketId /\ OnRequest \in Callback
  <2>1. begun \in Nat
    BY <1>1, <1>4, BegunNat, Zenon
  <2>2. b \in Seq(Fragments)
    BY <1>1, ConcatProperties
  <2>3. p \in PacketId
    BY <1>1, <1>2, FirstPacketType, Zenon
  <2>4. OnRequest \in Callback
    BY ConstantsAssumption DEF OnRequest, Callback
  <2> QED
    BY <2>1, <2>2, <2>3, <2>4, Zenon
<1>6. begun <= issued
  <2> DEFINE l == Len(c.writes)
  <2>1. l \in Nat /\ (c.writes = <<>> <=> l = 0)
    BY <1>1, SessionLengths, Zenon
  <2>2. begun = IF c.writes = <<>> THEN issued ELSE issued - l + 1
    BY Zenon DEF Begun
  <2> HIDE DEF l, begun
  <2> QED
    BY <1>1, <2>1, <2>2
<1>7. t.rbuf = SubSeq(s.rbuf, LineEnd(s.rbuf) + 1, Len(s.rbuf))
  BY <1>1, TakeLineEffect
<1>8. SessionOK(n)
  BY <1>1, <1>2, <1>5, ServeOK DEF Serve
<1>9. /\ n.reads = Tail(s.reads) /\ n.rbuf = t.rbuf
      /\ n.writes = Append(s.writes, [packet |-> p, callback |-> OnRequest])
      /\ n.wbuf = IF s.writes = <<>> THEN Encode(p) ELSE s.wbuf
  <2> HIDE DEF s, p
  <2> QED
    BY <1>1, <1>2, <1>5, ReplyEffect
<1> HIDE DEF n, b, begun, t
<1>10. p = h + 1 /\ h < begun /\ Carries(t.rbuf \o b, h + 1, begun)
  <2>1. /\ FirstPacket(s.rbuf) = h + 1 /\ h < begun
        /\ Carries(SubSeq(s.rbuf, LineEnd(s.rbuf) + 1, Len(s.rbuf)) \o b, h + 1, begun)
    <3> HIDE DEF s, h
    <3> QED
      BY <1>1, <1>2, <1>4, <1>5, CarriesLine
  <2> QED
    BY <1>7, <2>1, Zenon
<1>11. Len(s.reads) = 1 /\ s.writes = <<>> /\ s.wbuf = <<>> /\ Len(n.reads) = 0
       /\ Len(n.writes) = 1 /\ n.writes # <<>>
  <2>1. /\ Len(s.reads) \in Nat /\ Len(s.reads) # 0
        /\ Len(s.writes) \in Nat /\ (s.writes = <<>> <=> Len(s.writes) = 0)
    <3>1. s.reads # <<>>
      BY <1>1, <1>2 DEF SessionOK
    <3> QED
      BY <1>1, <3>1, SessionLengths, Zenon
  <2>2. Len(s.reads) + Len(s.writes) <= 1
    BY <1>4, Zenon DEF ServerOK
  <2> DEFINE x == Len(s.reads)
             y == Len(s.writes)
  <2>3. x = 1 /\ y = 0
    <3>1. x \in Nat /\ x # 0 /\ y \in Nat /\ x + y <= 1
      BY <2>1, <2>2, Zenon
    <3> HIDE DEF x, y
    <3> QED
      BY <3>1
  <2>4. s.writes = <<>> /\ s.wbuf = <<>>
    BY <1>4, <2>1, <2>3, Zenon DEF ServerOK
  <2>5. Len(n.writes) = 1 /\ n.writes # <<>>
    <3> DEFINE w == [packet |-> p, callback |-> OnRequest]
    <3>1. n.writes = Append(<<>>, w)
      BY <1>9, <2>4, Zenon
    <3> HIDE DEF w
    <3> QED
      BY <3>1
  <2>6. Len(n.reads) = 0
    <3>1. s.reads \in Seq(Callback) /\ s.reads # <<>>
      BY <1>1, <2>1, SessionLengths DEF SessionOK, SessionType, Callback
    <3>2. Len(Tail(s.reads)) = Len(s.reads) - 1
      BY <3>1, HeadTailProperties
    <3>3. Len(Tail(s.reads)) = 0
      BY <2>3, <3>2
    <3> QED
      BY <1>9, <3>3, Zenon
  <2> QED
    BY <2>3, <2>4, <2>5, <2>6, Zenon
<1>12. ServerOK(n)
  <2>1. Len(n.reads) + Len(n.writes) <= 1
    BY <1>11
  <2> QED
    BY <1>11, <2>1, Zenon DEF ServerOK
<1>13. Len(handled') = h + 1
  <2>1. handled \in Seq(1..MaxRequests)
    BY DEF Inv, TypeOK
  <2> HIDE DEF p
  <2> QED
    BY <1>3, <2>1
<1>14. up["client"] => Carries(c.rbuf \o (net["server"] \o n.wbuf), Len(delivered), h + 1)
  <2> SUFFICES ASSUME up["client"]
               PROVE  Carries(c.rbuf \o (net["server"] \o n.wbuf), Len(delivered), h + 1)
    OBVIOUS
  <2> DEFINE x == c.rbuf
             y == net["server"]
             q == x \o y
             e == Encode(h + 1)
             d == Len(delivered)
  <2>1. y \o s.wbuf = y
    <3>1. y \o <<>> = y
      BY <1>1, ConcatEmptySeq
    <3> QED
      BY <1>11, <3>1, Zenon
  <2>2. Carries(q, d, h)
    BY <1>4, <2>1, Zenon
  <2>3. q \in Seq(Fragments) /\ h + 1 \in PacketId
    BY <1>1, <1>5, <1>10, ConcatProperties
  <2>4. e \in Seq(Fragments)
    BY <2>3, EncodeType, Zenon
  <2>5. x \in Seq(Fragments) /\ y \in Seq(Fragments) /\ d \in Nat
    BY <1>1, Zenon
  <2>6. n.wbuf = e
    BY <1>9, <1>10, <1>11, Zenon
  <2> HIDE DEF e
  <2>7. q \o e = x \o (y \o e)
    BY <2>4, <2>5, StreamJoins
  <2> HIDE DEF x, y, q, d
  <2>8. Carries(q \o Encode(h + 1), d, h + 1)
    BY <1>1, <2>2, <2>3, <2>5, CarriesMore
  <2> QED
    BY <2>6, <2>7, <2>8, Zenon DEF e, x, y, d
<1>15. ChannelInv'
  <2>1. Carries(n.rbuf \o (net["client"] \o sess["client"].wbuf),
                Len(handled'), Begun(sess["client"], issued))
    BY <1>9, <1>10, <1>13, Zenon DEF b, begun
  <2> QED
    BY <1>3, <1>8, <1>12, <1>13, <1>14, <2>1, ServerChannel, Zenon
<1>16. Channel!Handle
  <2>1. h < issued
    BY <1>1, <1>5, <1>6, <1>10
  <2>2. handled' = Append(handled, h + 1)
    BY <1>3, <1>10, Zenon
  <2> QED
    BY <1>3, <2>1, <2>2, Zenon DEF Channel!Handle
<1> QED
  BY <1>15, <1>16, Zenon DEF Channel!Next

\* A server session that leaves the wire alone and does no more than it did.
LEMMA ServerIdles ==
    ASSUME Inv, ChannelInv, NEW n, SessionOK(n), sess' = [sess EXCEPT !["server"] = n],
           net' = net, up'["client"] = up["client"], history' = history, ServerOK(n),
           n.wbuf = sess["server"].wbuf,
           up'["server"] => up["server"] /\ n.rbuf = sess["server"].rbuf
    PROVE  ChannelInv'
<1>1. issued' = issued /\ handled' = handled /\ delivered' = delivered
  BY DEF history
<1>2. up["server"] => Carries(sess["server"].rbuf \o (net["client"] \o sess["client"].wbuf),
                              Len(handled), Begun(sess["client"], issued))
  BY Zenon DEF ChannelInv, RequestsOK, Requests
<1>3. up["client"] => Carries(sess["client"].rbuf \o (net["server"] \o sess["server"].wbuf),
                              Len(delivered), Len(handled))
  BY Zenon DEF ChannelInv, RepliesOK, Replies
<1>4. up'["server"] => Carries(n.rbuf \o (net["client"] \o sess["client"].wbuf),
                               Len(handled'), Begun(sess["client"], issued))
  BY <1>1, <1>2, Zenon
<1>5. up["client"] => Carries(sess["client"].rbuf \o (net["server"] \o n.wbuf),
                              Len(delivered), Len(handled'))
  BY <1>1, <1>3, Zenon
<1> QED
  BY <1>1, <1>4, <1>5, ServerChannel, Zenon

\* A client session that leaves the wire alone.
LEMMA ClientIdles ==
    ASSUME Inv, ChannelInv, NEW n, SessionOK(n), sess' = [sess EXCEPT !["client"] = n],
           net' = net, up' = up, history' = history, n.rbuf = sess["client"].rbuf,
           WritesOK(n, issued), ReadsOK(n, issued, Len(delivered)),
           Feeds(sess["client"], issued, n, issued)
    PROVE  ChannelInv'
<1>1. issued' = issued /\ handled' = handled /\ delivered' = delivered
  BY DEF history
<1>2. up["client"] => Carries(n.rbuf \o (net["server"] \o sess["server"].wbuf),
                              Len(delivered'), Len(handled))
  BY <1>1, Zenon DEF ChannelInv, RepliesOK, Replies
<1>3. Begun(sess["client"], issued) \in Nat
  BY ChannelTypes, BegunNat, Zenon DEF ChannelInv
<1> QED
  BY <1>1, <1>2, <1>3, ClientChannel, Zenon

LEMMA ServerParseErrorChannel ==
    ASSUME Inv, ChannelInv, ServerParseError
    PROVE  ChannelInv' /\ UNCHANGED history
<1> DEFINE s == sess["server"]
           n == TakeLine(s)
<1>1. SessionOK(s) /\ s.reading > 0 /\ HasLine(s.rbuf)
  BY ChannelTypes DEF ServerParseError, LineReady
<1>2. /\ sess' = [sess EXCEPT !["server"] = n] /\ up' = [up EXCEPT !["server"] = FALSE]
      /\ net' = net /\ history' = history
  BY DEF ServerParseError
<1>3. SessionOK(n) /\ n.reads = s.reads /\ n.writes = s.writes /\ n.wbuf = s.wbuf
  BY <1>1, TakeLineOK
<1>4. ServerOK(s)
  BY Zenon DEF ChannelInv
<1>5. up'["server"] = FALSE /\ up'["client"] = up["client"]
  BY <1>2 DEF Inv, TypeOK, Ends
<1> HIDE DEF n, s
<1>6. ServerOK(n)
  BY <1>3, <1>4, Zenon DEF ServerOK
<1> QED
  BY <1>2, <1>3, <1>5, <1>6, ServerIdles, Zenon DEF s

LEMMA FailsChannel ==
    ASSUME Inv, ChannelInv, NEW e \in Ends, ReadFails(e) \/ WriteFails(e)
    PROVE  ChannelInv' /\ UNCHANGED history
<1> DEFINE s == sess[e]
<1>1. SessionOK(s)
  BY DEF Inv
<1>2. PICK n : /\ sess' = [sess EXCEPT ![e] = n] /\ SessionOK(n)
               /\ n.reads = s.reads /\ n.writes = s.writes
               /\ n.rbuf = s.rbuf /\ n.wbuf = s.wbuf
               /\ n.reading > 0 \/ n.reads = <<>> => s.reading > 0 \/ s.reads = <<>>
  <2>1. CASE ReadFails(e)
    <3> DEFINE m == ReadAborted(s)
    <3>1. SessionOK(m) /\ m.reads = s.reads /\ m.writes = s.writes
      BY <1>1, <2>1, AbortedOK DEF ReadFails
    <3>2. m.rbuf = s.rbuf /\ m.wbuf = s.wbuf
      BY <1>1 DEF ReadAborted, SessionOK, SessionType
    <3>3. sess' = [sess EXCEPT ![e] = m] /\ s.reading > 0
      BY <2>1 DEF ReadFails
    <3> HIDE DEF m, s
    <3> QED
      BY <3>1, <3>2, <3>3, Zenon
  <2>2. CASE WriteFails(e)
    <3> DEFINE m == WriteAborted(s)
    <3>1. SessionOK(m) /\ m.reads = s.reads /\ m.writes = s.writes
      BY <1>1, <2>2, AbortedOK DEF WriteFails
    <3>2. m.rbuf = s.rbuf /\ m.wbuf = s.wbuf /\ m.reading = s.reading
      BY <1>1 DEF WriteAborted, SessionOK, SessionType
    <3>3. sess' = [sess EXCEPT ![e] = m]
      BY <2>2 DEF WriteFails
    <3> HIDE DEF m, s
    <3> QED
      BY <3>1, <3>2, <3>3, Zenon
  <2> QED
    BY <2>1, <2>2
<1>3. net' = net /\ up' = up /\ history' = history
  BY DEF ReadFails, WriteFails
<1>4. CASE e = "client"
  <2>1. WritesOK(s, issued) /\ ReadsOK(s, issued, Len(delivered))
    BY <1>4, Zenon DEF ChannelInv
  <2> HIDE DEF s
  <2>2. WritesOK(n, issued) /\ Feeds(s, issued, n, issued)
    BY <1>2, <2>1, SameWrites, Zenon
  <2>3. ReadsOK(n, issued, Len(delivered))
    BY <1>2, <2>1, Zenon DEF ReadsOK
  <2> QED
    BY <1>2, <1>3, <1>4, <2>2, <2>3, ClientIdles, Zenon DEF s
<1>5. CASE e = "server"
  <2>1. ServerOK(s)
    BY <1>5, Zenon DEF ChannelInv
  <2> HIDE DEF s
  <2>2. ServerOK(n)
    BY <1>2, <2>1, Zenon DEF ServerOK
  <2> QED
    BY <1>2, <1>3, <1>5, <2>2, ServerIdles, Zenon DEF s
<1> QED
  BY <1>4, <1>5 DEF Ends

\* The front of the queue of writes.
LEMMA WritesFront ==
    ASSUME NEW s, SessionOK(s), s.writing > 0
    PROVE  /\ s.writes # <<>> /\ Head(s.writes).callback \in Callback
           /\ Len(Tail(s.writes)) = Len(s.writes) - 1 /\ Tail(s.writes) \in Seq(Write)
<1>1. s.writes \in Seq(Write) /\ s.writes # <<>>
  BY DEF SessionOK, SessionType, Write, Callback, PacketId
<1>2. Head(s.writes) \in Write
  BY <1>1, HeadTailProperties
<1> QED
  BY <1>1, <1>2, HeadTailProperties DEF Write

LEMMA ClientWriteDoneChannel ==
    ASSUME Inv, ChannelInv, WriteDone("client")
    PROVE  ChannelInv'
<1> DEFINE c == sess["client"]
           n == Written(c, TRUE)
           cb == Head(c.writes).callback
           i == issued
           d == Len(delivered)
<1>1. SessionOK(c) /\ c.writing > 0 /\ c.wbuf = <<>> /\ i \in Nat /\ i \in 0..MaxRequests /\ d \in Nat
  BY ChannelTypes DEF WriteDone
<1>2. /\ sess' = [sess EXCEPT !["client"] = n] /\ net' = net /\ up' = up /\ history' = history
  BY DEF WriteDone
<1>3. WritesOK(c, i) /\ ReadsOK(c, i, d)
  BY Zenon DEF ChannelInv
<1> HIDE DEF c, i, d
<1>4. c.writes # <<>> /\ cb \in Callback /\ Len(Tail(c.writes)) = Len(c.writes) - 1
  BY <1>1, WritesFront, Zenon
<1>5. /\ SessionOK(n) /\ n.writes = Tail(c.writes)
      /\ n.reads = Append(c.reads, cb)
  BY <1>1, WrittenOK, Zenon
<1>6. /\ n.reading = IF c.reads = <<>> THEN 1 ELSE c.reading
      /\ n.rbuf = c.rbuf
      /\ n.wbuf = IF Tail(c.writes) = <<>> THEN c.wbuf ELSE Encode(Head(Tail(c.writes)).packet)
  BY <1>1, WrittenEffect, Zenon
<1> HIDE DEF n
<1>7. WritesOn(c, n)
  BY <1>5, <1>6, Zenon DEF WritesOn
<1>8. WritesOK(n, i) /\ Feeds(c, i, n, i) /\ cb = i - Len(c.writes) + 1
  BY <1>1, <1>3, <1>4, <1>7, WrittenFeeds, Zenon
<1> HIDE DEF cb
<1>9. CallsBack(c, i, cb, n)
  BY <1>4, <1>5, <1>6, <1>8, Zenon DEF CallsBack
<1>10. ReadsOK(n, i, d)
  BY <1>1, <1>3, <1>4, <1>9, ReadsWritten, Zenon
<1> QED
  BY <1>2, <1>5, <1>6, <1>8, <1>10, ClientIdles, Zenon DEF c, i, d

\* The reply has been written: the server reads again, unless it closes.
LEMMA ServerWriteDoneChannel ==
    ASSUME Inv, ChannelInv, WriteDone("server")
    PROVE  ChannelInv'
<1> DEFINE s == sess["server"]
           n == Written(s, shouldRead)
           cb == Head(s.writes).callback
<1>1. SessionOK(s) /\ s.writing > 0 /\ s.wbuf = <<>> /\ shouldRead \in BOOLEAN
  BY ChannelTypes DEF WriteDone, Inv, TypeOK
<1>2. /\ sess' = [sess EXCEPT !["server"] = n] /\ net' = net /\ up' = up /\ history' = history
  <2>1. ("server" = "client" \/ shouldRead) = shouldRead
    BY <1>1
  <2> QED
    BY <2>1 DEF WriteDone
<1>3. ServerOK(s)
  BY Zenon DEF ChannelInv
<1> HIDE DEF s
<1>4. s.writes # <<>> /\ cb \in Callback /\ Len(Tail(s.writes)) = Len(s.writes) - 1
      /\ Tail(s.writes) \in Seq(Write)
  BY <1>1, WritesFront, Zenon
<1>5. /\ SessionOK(n) /\ n.writes = Tail(s.writes)
      /\ n.reads = IF shouldRead THEN Append(s.reads, cb) ELSE s.reads
  BY <1>1, WrittenOK, Zenon
<1>6. /\ n.rbuf = s.rbuf
      /\ n.wbuf = IF Tail(s.writes) = <<>> THEN s.wbuf ELSE Encode(Head(Tail(s.writes)).packet)
  BY <1>1, WrittenEffect, Zenon
<1> HIDE DEF n
<1>7. Len(s.reads) = 0 /\ Len(s.writes) = 1
  <2> DEFINE x == Len(s.reads)
             y == Len(s.writes)
  <2>1. x \in Nat /\ y \in Nat /\ y # 0 /\ x + y <= 1
    BY <1>1, <1>3, <1>4, SessionLengths, Zenon DEF ServerOK
  <2> HIDE DEF x, y
  <2>2. x = 0 /\ y = 1
    BY <2>1
  <2> QED
    BY <2>2, Zenon DEF x, y
<1>8. n.writes = <<>> /\ n.wbuf = s.wbuf /\ Len(n.writes) = 0
  <2>1. Len(Tail(s.writes)) = 0
    BY <1>4, <1>7
  <2>2. Tail(s.writes) = <<>>
    BY <1>4, <2>1, EmptySeq, Zenon
  <2> QED
    BY <1>5, <1>6, <2>1, <2>2, Zenon
<1>9. Len(n.reads) \in 0..1
  <2>1. s.reads \in Seq(Callback)
    BY <1>1 DEF SessionOK, SessionType, Callback
  <2> HIDE DEF cb
  <2>2. Len(Append(s.reads, cb)) = Len(s.reads) + 1
    BY <1>4, <2>1, CallbackAppended, Zenon
  <2> QED
    BY <1>5, <1>7, <2>2
<1>10. ServerOK(n)
  <2> DEFINE x == Len(n.reads)
             y == Len(n.writes)
  <2>1. x \in 0..1 /\ y = 0
    BY <1>8, <1>9, Zenon
  <2> HIDE DEF x, y
  <2>2. x + y <= 1
    BY <2>1
  <2> QED
    BY <1>1, <1>8, <2>2, Zenon DEF ServerOK, x, y
<1> QED
  BY <1>2, <1>5, <1>6, <1>8, <1>10, ServerIdles, Zenon DEF s

LEMMA WriteDoneChannel ==
    ASSUME Inv, ChannelInv, NEW e \in Ends, WriteDone(e)
    PROVE  ChannelInv' /\ UNCHANGED history
<1>1. UNCHANGED history
  BY DEF WriteDone
<1>2. CASE e = "client"
  BY <1>1, <1>2, ClientWriteDoneChannel
<1>3. CASE e = "server"
  BY <1>1, <1>3, ServerWriteDoneChannel
<1> QED
  BY <1>2, <1>3 DEF Ends

\* What end f has sent and its peer has not taken out of its buffer.
Stream(ss, nt, f) == ss[Peer(f)].rbuf \o (nt[f] \o ss[f].wbuf)

LEMMA KernelSendStream ==
    ASSUME Inv, NEW e \in Ends, KernelSend(e), NEW f \in Ends
    PROVE  /\ Stream(sess', net', f) = Stream(sess, net, f)
           /\ sess'[f].reads = sess[f].reads /\ sess'[f].writes = sess[f].writes
           /\ sess'[f].reading = sess[f].reading
           /\ sess'[f].writes = <<>> => sess'[f].wbuf = sess[f].wbuf
<1> DEFINE b == sess[e].wbuf
           a == net[e]
<1>1. /\ sess \in [Ends -> SessionType] /\ net \in [Ends -> Seq(Fragments)]
      /\ Peer(f) \in Ends /\ SessionOK(sess[e])
  BY DEF Inv, TypeOK, Peer, Ends
<1>2. a \in Seq(Fragments) /\ b \in Seq(Fragments)
  BY <1>1 DEF SessionType
<1>3. PICK k \in 1..Len(b) :
        /\ net' = [net EXCEPT ![e] = @ \o SubSeq(b, 1, k)]
        /\ sess' = [sess EXCEPT ![e].wbuf = SubSeq(b, k + 1, Len(b))]
  BY DEF KernelSend
<1> DEFINE x == a \o SubSeq(b, 1, k)
           y == SubSeq(b, k + 1, Len(b))
           n == [sess[e] EXCEPT !.wbuf = y]
<1>4. x \o y = a \o b /\ y \in Seq(Fragments)
  <2>1. x \o y = a \o b
    <3> HIDE DEF a, b
    <3> QED
      BY <1>2, PieceMoves
  <2>2. y \in Seq(Fragments)
    <3> HIDE DEF a, b
    <3> QED
      BY <1>2, Pieces
  <2> QED
    BY <2>1, <2>2
<1>5. sess' = [sess EXCEPT ![e] = n] /\ net' = [net EXCEPT ![e] = x]
  BY <1>1, <1>3
<1> HIDE DEF x, y
<1>6. /\ n \in SessionType
      /\ n.reads = sess[e].reads /\ n.writes = sess[e].writes
      /\ n.reading = sess[e].reading /\ n.rbuf = sess[e].rbuf /\ n.wbuf = y
  BY <1>1, <1>4, AssignWbuf
<1>7. sess[e].writes # <<>>
  BY <1>1 DEF SessionOK, KernelSend
<1> HIDE DEF n
<1>8. /\ sess'[e] = n /\ \A g \in Ends \ {e} : sess'[g] = sess[g]
      /\ net'[e] = x /\ \A g \in Ends \ {e} : net'[g] = net[g]
  BY <1>1, <1>5
<1>9. \A g \in Ends : sess'[g].rbuf = sess[g].rbuf
  BY <1>6, <1>8, Zenon
<1>10. net'[f] \o sess'[f].wbuf = net[f] \o sess[f].wbuf
  <2>1. CASE f = e
    BY <1>4, <1>6, <1>8, <2>1, Zenon
  <2>2. CASE f # e
    BY <1>8, <2>2, Zenon
  <2> QED
    BY <2>1, <2>2
<1>11. Stream(sess', net', f) = Stream(sess, net, f)
  BY <1>1, <1>9, <1>10, Zenon DEF Stream
<1> QED
  BY <1>6, <1>7, <1>8, <1>11, Zenon

LEMMA KernelReceiveStream ==
    ASSUME Inv, NEW e \in Ends, KernelReceive(e), NEW f \in Ends
    PROVE  /\ Stream(sess', net', f) = Stream(sess, net, f)
           /\ sess'[f].reads = sess[f].reads /\ sess'[f].writes = sess[f].writes
           /\ sess'[f].reading = sess[f].reading
           /\ sess'[f].writes = <<>> => sess'[f].wbuf = sess[f].wbuf
<1> DEFINE o == Peer(e)
           b == net[o]
           a == sess[e].rbuf
<1>1. /\ sess \in [Ends -> SessionType] /\ net \in [Ends -> Seq(Fragments)]
      /\ o \in Ends /\ o # e /\ Peer(o) = e /\ (f = o \/ f = e)
  BY DEF Inv, TypeOK, Peer, Ends
<1>2. a \in Seq(Fragments) /\ b \in Seq(Fragments) /\ sess[o].wbuf \in Seq(Fragments)
  BY <1>1 DEF SessionType
<1>3. PICK k \in 1..Len(b) :
        /\ sess' = [sess EXCEPT ![e].rbuf = @ \o SubSeq(b, 1, k)]
        /\ net' = [net EXCEPT ![o] = SubSeq(b, k + 1, Len(b))]
  BY DEF KernelReceive
<1> DEFINE x == a \o SubSeq(b, 1, k)
           y == SubSeq(b, k + 1, Len(b))
           n == [sess[e] EXCEPT !.rbuf = x]
<1>4. x \o y = a \o b /\ x \in Seq(Fragments) /\ y \in Seq(Fragments)
  <2>1. x \o y = a \o b
    <3> HIDE DEF a, b
    <3> QED
      BY <1>2, PieceMoves
  <2>2. x \in Seq(Fragments) /\ y \in Seq(Fragments)
    <3> HIDE DEF a, b
    <3> QED
      BY <1>2, Pieces
  <2> QED
    BY <2>1, <2>2
<1>5. sess' = [sess EXCEPT ![e] = n] /\ net' = [net EXCEPT ![o] = y]
  BY <1>1, <1>3
<1> HIDE DEF x, y
<1>6. /\ n \in SessionType
      /\ n.reads = sess[e].reads /\ n.writes = sess[e].writes
      /\ n.reading = sess[e].reading /\ n.rbuf = x /\ n.wbuf = sess[e].wbuf
  BY <1>1, <1>4, AssignRbuf
<1> HIDE DEF n, o
<1>7. /\ sess'[e] = n /\ \A g \in Ends \ {e} : sess'[g] = sess[g]
      /\ net'[o] = y /\ \A g \in Ends \ {o} : net'[g] = net[g]
  BY <1>1, <1>5
<1>8. \A g \in Ends : /\ sess'[g].wbuf = sess[g].wbuf
                      /\ sess'[g].reads = sess[g].reads /\ sess'[g].writes = sess[g].writes
                      /\ sess'[g].reading = sess[g].reading
  BY <1>6, <1>7, Zenon
<1>9. Stream(sess', net', o) = Stream(sess, net, o)
  <2> DEFINE w == sess[o].wbuf
  <2>1. w \in Seq(Fragments)
    BY <1>2
  <2>2. Stream(sess', net', o) = x \o (y \o w)
    BY <1>1, <1>6, <1>7, <1>8, Zenon DEF Stream
  <2>3. Stream(sess, net, o) = a \o (b \o w)
    BY <1>1, Zenon DEF Stream
  <2> HIDE DEF a, b, w
  <2>4. x \o (y \o w) = (x \o y) \o w
    BY <1>4, <2>1, StreamJoins, Zenon
  <2>5. a \o (b \o w) = (a \o b) \o w
    <3>1. a \in Seq(Fragments) /\ b \in Seq(Fragments)
      BY <1>2 DEF a, b
    <3> QED
      BY <2>1, <3>1, StreamJoins, Zenon
  <2> QED
    BY <1>4, <2>2, <2>3, <2>4, <2>5, Zenon
<1>10. Stream(sess', net', e) = Stream(sess, net, e)
  <2>1. Peer(e) = o
    BY DEF o
  <2>2. sess'[o] = sess[o] /\ net'[e] = net[e] /\ sess'[e].wbuf = sess[e].wbuf
    BY <1>1, <1>7, <1>8, Zenon
  <2> QED
    BY <2>1, <2>2, Zenon DEF Stream
<1> QED
  BY <1>1, <1>8, <1>9, <1>10, Zenon

LEMMA KernelChannel ==
    ASSUME Inv, ChannelInv, NEW e \in Ends, KernelSend(e) \/ KernelReceive(e)
    PROVE  ChannelInv' /\ UNCHANGED history
<1>1. up' = up /\ history' = history /\ issued' = issued /\ handled' = handled
      /\ delivered' = delivered
  BY DEF KernelSend, KernelReceive, history
<1>2. \A f \in Ends :
         /\ Stream(sess', net', f) = Stream(sess, net, f)
         /\ sess'[f].reads = sess[f].reads /\ sess'[f].writes = sess[f].writes
         /\ sess'[f].reading = sess[f].reading
         /\ sess'[f].writes = <<>> => sess'[f].wbuf = sess[f].wbuf
  BY KernelSendStream, KernelReceiveStream, Zenon
<1> DEFINE c == sess["client"]
           s == sess["server"]
           cc == sess'["client"]
           sc == sess'["server"]
<1>3. /\ Peer("client") = "server" /\ Peer("server") = "client"
      /\ "client" \in Ends /\ "server" \in Ends
  BY DEF Peer, Ends
<1>4. Requests(sess', net') = Requests(sess, net) /\ Replies(sess', net') = Replies(sess, net)
  BY <1>2, <1>3, Zenon DEF Requests, Replies, Stream
<1>5. /\ cc.reads = c.reads /\ cc.writes = c.writes /\ cc.reading = c.reading
      /\ cc.writes = <<>> => cc.wbuf = c.wbuf
      /\ sc.reads = s.reads /\ sc.writes = s.writes
      /\ sc.writes = <<>> => sc.wbuf = s.wbuf
  BY <1>2, <1>3, Zenon
<1>6. WritesOK(c, issued) /\ ReadsOK(c, issued, Len(delivered)) /\ ServerOK(s)
  BY Zenon DEF ChannelInv
<1> HIDE DEF c, s, cc, sc
<1>7. WritesOK(cc, issued) /\ ReadsOK(cc, issued, Len(delivered)) /\ ServerOK(sc)
      /\ Begun(cc, issued) = Begun(c, issued)
  BY <1>5, <1>6, Zenon DEF WritesOK, ReadsOK, ServerOK, Begun
<1>8. up["server"] => RequestsOK(sess', net', issued, Len(handled))
  BY <1>4, <1>7, Zenon DEF ChannelInv, RequestsOK, c, cc
<1>9. up["client"] => RepliesOK(sess', net', Len(handled), Len(delivered))
  BY <1>4, Zenon DEF ChannelInv, RepliesOK
<1> QED
  BY <1>1, <1>7, <1>8, <1>9, Zenon DEF ChannelInv, cc, sc

\* The end of a process and do_close leave the wire alone, and only drop
\* obligations.
LEMMA CloseChannel ==
    ASSUME Inv, ChannelInv, \/ DoClose
                            \/ \E e \in Ends : Close(e)
                            \/ UNCHANGED vars
    PROVE  ChannelInv' /\ UNCHANGED history
<1>1. /\ sess' = sess /\ net' = net /\ history' = history
      /\ up'["client"] => up["client"]
      /\ up'["server"] => up["server"]
  BY DEF DoClose, Close, vars, history, Inv, TypeOK, Ends
<1>2. issued' = issued /\ handled' = handled /\ delivered' = delivered
  BY <1>1 DEF history
<1> QED
  BY <1>1, <1>2, Zenon DEF ChannelInv

LEMMA ChannelStep ==
    Inv /\ ChannelInv /\ [Next]_vars => ChannelInv' /\ [Channel!Next]_history
<1> SUFFICES ASSUME Inv, ChannelInv, [Next]_vars
             PROVE  ChannelInv' /\ [Channel!Next]_history
  OBVIOUS
<1>1. CASE Request
  BY <1>1, RequestChannel
<1>2. CASE ServerRead
  BY <1>2, ServerReadChannel
<1>3. CASE ServerParseError
  BY <1>3, ServerParseErrorChannel
<1>4. CASE ClientRead \/ ClientReadAndRequest \/ ClientReadThrows
  BY <1>4, ClientReadChannel
<1>5. ASSUME NEW e \in Ends, KernelSend(e) \/ KernelReceive(e)
      PROVE  ChannelInv' /\ UNCHANGED history
  BY <1>5, KernelChannel
<1>6. ASSUME NEW e \in Ends, WriteDone(e) PROVE ChannelInv' /\ UNCHANGED history
  BY <1>6, WriteDoneChannel
<1>7. ASSUME NEW e \in Ends, ReadFails(e) \/ WriteFails(e)
      PROVE  ChannelInv' /\ UNCHANGED history
  BY <1>7, FailsChannel
<1>8. CASE DoClose \/ (\E e \in Ends : Close(e)) \/ UNCHANGED vars
  BY <1>8, CloseChannel
<1> QED
  BY <1>1, <1>2, <1>3, <1>4, <1>5, <1>6, <1>7, <1>8, Zenon DEF Next

LEMMA ChannelInit == Init => ChannelInv /\ Channel!Init
<1> SUFFICES ASSUME Init PROVE ChannelInv /\ Channel!Init
  OBVIOUS
<1> DEFINE r == ScheduleRead(NewSession, OnRequest)
           o == NewSession
<1>1. OnRequest \in Callback
  BY ConstantsAssumption DEF OnRequest, Callback
<1>2. /\ o.reads = <<>> /\ o.writes = <<>> /\ o.rbuf = <<>> /\ o.wbuf = <<>>
  BY DEF NewSession
<1>3. /\ r.reads = Append(<<>>, OnRequest) /\ r.writes = <<>>
      /\ r.rbuf = <<>> /\ r.wbuf = <<>>
  BY <1>1, <1>2, NewSessionOK, ScheduleReadOK
<1>4. Len(r.reads) = 1 /\ Len(r.writes) = 0 /\ Len(o.reads) = 0 /\ Len(o.writes) = 0
  BY <1>1, <1>2, <1>3
<1> HIDE DEF r, o
<1>5. /\ sess["client"] = o /\ sess["server"] = r
      /\ net["client"] = <<>> /\ net["server"] = <<>>
      /\ issued = 0 /\ handled = <<>> /\ delivered = <<>>
  BY DEF Init, Ends, r, o
<1>6. Len(handled) = 0 /\ Len(delivered) = 0
  BY <1>5
<1>7. WritesOK(o, 0)
  BY <1>2, <1>4 DEF WritesOK
<1>8. ReadsOK(o, 0, 0)
  BY <1>4 DEF ReadsOK
<1>9. ServerOK(r)
  BY <1>3, <1>4 DEF ServerOK
<1>10. Begun(o, 0) = 0
  BY <1>2 DEF Begun
<1>11. Requests(sess, net) = <<>> /\ Replies(sess, net) = <<>>
  BY <1>2, <1>3, <1>5 DEF Requests, Replies
<1>12. Carries(<<>>, 0, 0)
  BY CarriesNothing
<1>13. ChannelInv
  BY <1>5, <1>6, <1>7, <1>8, <1>9, <1>10, <1>11, <1>12, Zenon DEF ChannelInv, RequestsOK, RepliesOK
<1> QED
  BY <1>5, <1>13, Zenon DEF Channel!Init

\* Whatever the kernel does with the bytes, whichever callbacks throw and
\* whichever end goes away, the two sessions implement the request/reply
\* channel: the server handles the requests in the order they were issued, none
\* twice and none skipped, and the i-th callback the client runs is that of the
\* i-th request and is given the i-th reply (session.cpp, and
\* session-repository.cpp do_read).
THEOREM ImplementsTheChannel == Spec => ChannelSpec
<1>1. Inv /\ ChannelInv /\ [Next]_vars => (Inv /\ ChannelInv)'
  BY NextInv, ChannelStep
<1>2. Spec => [](Inv /\ ChannelInv)
  BY <1>1, InitInv, ChannelInit, PTL DEF Spec
<1>3. Inv /\ ChannelInv /\ [Next]_vars => [Channel!Next]_(Channel!channel)
  BY ChannelStep DEF history, Channel!channel
<1>4. Init => Channel!Init
  BY ChannelInit
<1> QED
  BY <1>2, <1>3, <1>4, PTL DEF Spec, ChannelSpec, Channel!Spec
=============================================================================
