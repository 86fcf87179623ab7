------------------------ MODULE DatagramSocketProofs ------------------------
(***************************************************************************)
(* Proofs about DatagramSocket, for every size of the buffer and the       *)
(* queue, all objects and every foreign datagram.  First the datagrams:    *)
(* those of the writing processes are decoded to what was written, from a  *)
(* buffer_ that still holds what came before, and no datagram makes read() *)
(* look behind it.  Then their order, over processes that come and go.     *)
(***************************************************************************)
EXTENDS DatagramSocket, DataObjectsProofs

\* A datagram is short enough for buffer_, and a writing process's own one is
\* the wire form of the message it is the n-th of.
Genuine(d) ==
  /\ d.cells \in Seq(Nat) /\ Len(d.cells) <= BUFFER_SIZE
  /\ Own(d) => \E id \in Nat, obj \in DataObject : d.cells = Wire(id, obj)

Datagram == [cells : Seq(Nat), writer : Nat, n : Nat]

\* What buffer_ is after a writing process's own datagram.
OwnDecodes ==
  Own(got) => \E id \in Nat, obj \in DataObject :
                /\ got.cells = Wire(id, obj)
                /\ Header = DataHeader(id, obj.type, SerializedSize(obj))
                /\ Decoded = obj

DatagramInv ==
  /\ TypeOK
  /\ bound # 0 => rpc \in {"await", "read"}
  /\ wpc # "closed" => writers # 0
  /\ wpc = "send" => Fits(wobj, BODY_SIZE)
  /\ queue \in Seq(Datagram) /\ got \in Datagram
  /\ \A k \in DOMAIN queue : Genuine(queue[k]) /\ (~Own(queue[k]) => foreign > 0)
  /\ Genuine(got)
  /\ OwnDecodes
  /\ aborted => foreign > 0

\* The datagram of a writing process passes the assert() of read() and is decoded
\* to the object it was made of, whatever buffer_ holds.
LEMMA OwnDatagramDecodes ==
  ASSUME NEW id \in Nat, NEW obj \in DataObject,
         NEW buffer \in [BufferIx -> Nat], Len(Wire(id, obj)) <= BUFFER_SIZE,
         NEW b, b = Overlay(buffer, Wire(id, obj))
  PROVE  /\ b[1] = id /\ b[2] = obj.type /\ b[3] = SerializedSize(obj)
         /\ SizeMatches(Wire(id, obj), b[3])
         /\ deserialize_data_object(b[2], [k \in 1..BODY_SIZE |-> b[HEADER_SIZE + k]], b[3]) = obj
<1> DEFINE cells == Wire(id, obj)
           size == SerializedSize(obj)
           body == [k \in 1..BODY_SIZE |-> b[HEADER_SIZE + k]]
<1>1. /\ cells \in Seq(Nat) /\ size \in Nat
      /\ Len(cells) = 3 + size
      /\ cells[1] = id /\ cells[2] = obj.type /\ cells[3] = size
      /\ \A k \in 1..size : cells[3 + k] = Serialize(obj)[k]
  BY WireFacts DEF HEADER_SIZE
<1>2. BODY_SIZE \in Nat /\ size <= BODY_SIZE /\ BUFFER_SIZE \in Nat
  BY <1>1, DatagramAssumption DEF BUFFER_SIZE, HEADER_SIZE
<1>3. \A k \in 1..Len(cells) : b[k] = cells[k]
  <2>1. buffer \in [1..BUFFER_SIZE -> Nat] /\ b = Overlay(buffer, cells) /\ Len(cells) <= BUFFER_SIZE
    BY DEF BufferIx
  <2>2. cells \in Seq(Nat) /\ BUFFER_SIZE \in Nat
    BY <1>1, <1>2
  <2> HIDE DEF cells
  <2>3. \A k \in 1..Len(cells) : Overlay(buffer, cells)[k] = cells[k]
    BY <2>1, <2>2, OverlayFacts
  <2> QED BY <2>1, <2>3
<1>4. b[1] = id /\ b[2] = obj.type /\ b[3] = size
  <2> HIDE DEF cells, size
  <2>1. 1 \in 1..Len(cells) /\ 2 \in 1..Len(cells) /\ 3 \in 1..Len(cells)
    BY <1>1
  <2> QED BY <1>1, <1>3, <2>1
<1>5. \A k \in 1..size : body[k] = Serialize(obj)[k]
  <2> SUFFICES ASSUME NEW k \in 1..size PROVE body[k] = Serialize(obj)[k]
    OBVIOUS
  <2>1. body[k] = b[3 + k]
    BY <1>1, <1>2 DEF HEADER_SIZE
  <2>2. 3 + k \in 1..Len(cells)
    <3> HIDE DEF cells, size
    <3> QED BY <1>1
  <2> QED BY <1>1, <1>3, <2>1, <2>2
<1>6. deserialize_data_object(obj.type, body, size) = obj
  <2> HIDE DEF body
  <2> QED BY <1>5, RoundTrip
<1>7. SizeMatches(cells, size)
  BY <1>1 DEF SizeMatches, HEADER_SIZE
<1> QED BY <1>4, <1>6, <1>7

-----------------------------------------------------------------------------
(* DatagramInv is inductive. *)

LEMMA PingIsObject == Ping \in DataObject
BY DEF DataObject

LEMMA InitDatagramInv == Init => DatagramInv
<1> SUFFICES ASSUME Init PROVE DatagramInv
  OBVIOUS
<1> USE DatagramAssumption DEF Init
<1>1. BUFFER_SIZE \in Nat
  BY DEF BUFFER_SIZE, HEADER_SIZE
<1>2. TypeOK
  <2>1. sent \in [1..MAX_WRITERS -> Seq(Message)]
    <3>1. << >> \in Seq(Message)
      OBVIOUS
    <3> QED BY <3>1
  <2>2. rbuf \in [BufferIx -> Nat]
    OBVIOUS
  <2>3. Len(queue) <= QUEUE_SIZE
    OBVIOUS
  <2>4. unix \in BOOLEAN /\ wret \in BOOLEAN /\ aborted \in BOOLEAN
    OBVIOUS
  <2>5. DOMAIN received = 1..MAX_RUNS
    OBVIOUS
  <2>6. path \in 0..runs /\ bound \in 0..runs /\ runs \in 0..MAX_RUNS
    OBVIOUS
  <2>7. foreign \in 0..MAX_FOREIGN /\ writers \in 0..MAX_WRITERS /\ last_id \in 0..MAX_ID
    OBVIOUS
  <2>8. wobj \in Objects \cup {Ping}
    OBVIOUS
  <2> QED BY <2>1, <2>2, <2>3, <2>4, <2>5, <2>6, <2>7, <2>8 DEF TypeOK
<1>3. got \in Datagram /\ Genuine(got) /\ ~Own(got)
  BY <1>1 DEF Nobody, Datagram, Genuine, Own
<1> QED BY <1>2, <1>3 DEF DatagramInv, OwnDecodes

\* The steps that take nothing from the socket and put nothing into it.
LEMMA QuietStep ==
  ASSUME DatagramInv, TypeOK',
         bound' # 0 => rpc' \in {"await", "read"},
         wpc' # "closed" => writers' # 0,
         wpc' = "send" => Fits(wobj', BODY_SIZE),
         queue' \in {queue, << >>},
         (rbuf' = rbuf /\ got' = got) \/ got' = Nobody,
         foreign' = foreign, aborted' => foreign > 0
  PROVE  DatagramInv'
<1>1. queue' \in Seq(Datagram) /\ \A k \in DOMAIN queue' :
         Genuine(queue'[k]) /\ (~Own(queue'[k]) => foreign' > 0)
  <2>1. CASE queue' = queue
    BY <2>1 DEF DatagramInv
  <2>2. CASE queue' = << >>
    BY <2>2
  <2> QED BY <2>1, <2>2
<1>2. got' \in Datagram /\ Genuine(got') /\ OwnDecodes'
  <2>1. CASE rbuf' = rbuf /\ got' = got
    BY <2>1 DEF DatagramInv, OwnDecodes, Header, Decoded, Body
  <2>2. CASE got' = Nobody
    <3>1. BUFFER_SIZE \in Nat
      BY DatagramAssumption DEF BUFFER_SIZE, HEADER_SIZE
    <3> QED BY <2>2, <3>1 DEF Nobody, Datagram, Genuine, Own, OwnDecodes
  <2> QED BY <2>1, <2>2
<1> QED BY <1>1, <1>2 DEF DatagramInv, Genuine

\* One more genuine datagram in the socket.
LEMMA DatagramQueued ==
  ASSUME DatagramInv, TypeOK', NEW d \in Datagram, Genuine(d),
         Own(d) \/ foreign' > 0,
         queue' = Append(queue, d), UNCHANGED <<bound, rpc, rbuf, got, aborted>>,
         wpc' # "closed" => writers' # 0,
         wpc' # "send" \/ UNCHANGED <<wpc, wobj>>,
         foreign' >= foreign
  PROVE  DatagramInv'
<1>1. queue' \in Seq(Datagram) /\ \A k \in DOMAIN queue' :
         Genuine(queue'[k]) /\ (~Own(queue'[k]) => foreign' > 0)
  <2>1. queue \in Seq(Datagram) /\ foreign \in Nat /\ foreign' \in Nat
    BY DatagramAssumption DEF DatagramInv, TypeOK
  <2>2. queue' \in Seq(Datagram) /\ DOMAIN queue' = 1..(Len(queue) + 1)
    BY <2>1
  <2>3. ASSUME NEW k \in DOMAIN queue'
        PROVE  Genuine(queue'[k]) /\ (~Own(queue'[k]) => foreign' > 0)
    <3>1. CASE k = Len(queue) + 1
      <4>1. queue'[k] = d
        BY <2>1, <3>1
      <4> QED BY <4>1
    <3>2. CASE k # Len(queue) + 1
      <4>1. k \in DOMAIN queue /\ queue'[k] = queue[k]
        BY <2>1, <2>2, <3>2
      <4> QED BY <2>1, <4>1 DEF DatagramInv
    <3> QED BY <3>1, <3>2
  <2> QED BY <2>2, <2>3
<1>2. OwnDecodes'
  BY DEF DatagramInv, OwnDecodes, Header, Decoded, Body
<1>3. aborted' => foreign' > 0
  <2>1. foreign \in Nat /\ foreign' \in Nat
    BY DatagramAssumption DEF DatagramInv, TypeOK
  <2> QED BY <2>1 DEF DatagramInv
<1> QED BY <1>1, <1>2, <1>3 DEF DatagramInv, Genuine

\* Every step of the writing processes but the end of sendto() is a quiet one.
LEMMA WriterQuiet ==
  ASSUME DatagramInv,
         \/ WriterOpen \/ WriterExit
         \/ \E obj \in Objects : WriteRefused(obj) \/ WriteSerialize(obj)
  PROVE  DatagramInv'
<1> USE DatagramAssumption DEF DatagramInv, TypeOK, rvars
<1>1. CASE WriterOpen
  <2> USE <1>1 DEF WriterOpen
  <2>1. TypeOK'
    OBVIOUS
  <2> QED BY <2>1, QuietStep
<1>2. CASE WriterExit
  <2> USE <1>2 DEF WriterExit
  <2>0. last_id' \in 0..MAX_ID /\ wobj' \in Objects \cup {Ping}
    OBVIOUS
  <2>1. TypeOK'
    BY <2>0
  <2> QED BY <2>1, QuietStep
<1>3. ASSUME NEW obj \in Objects, WriteRefused(obj) PROVE DatagramInv'
  <2> USE <1>3 DEF WriteRefused
  <2>1. TypeOK'
    OBVIOUS
  <2> QED BY <2>1, QuietStep
<1>4. ASSUME NEW obj \in Objects, WriteSerialize(obj) PROVE DatagramInv'
  <2> USE <1>4 DEF WriteSerialize
  <2>0. last_id' \in 0..MAX_ID
    OBVIOUS
  <2>1. TypeOK'
    BY <2>0
  <2> QED BY <2>1, QuietStep
<1> QED BY <1>1, <1>2, <1>3, <1>4

\* So are opening and closing on the reading side, and a loop that finds nothing.
LEMMA ServerQuiet ==
  ASSUME DatagramInv,
         \/ ServerRemoveOld \/ ServerBind \/ ServerBindFails \/ ServerClose
         \/ ServerRemove \/ ServerKilled \/ Await \/ ReadNoData
  PROVE  DatagramInv'
<1>1. BUFFER_SIZE \in Nat
  BY DatagramAssumption DEF BUFFER_SIZE, HEADER_SIZE
<1> USE DatagramAssumption DEF DatagramInv, wvars
<1>2. CASE ServerRemoveOld
  <2> USE <1>2 DEF ServerRemoveOld, OpenStep
  <2>1. TypeOK'
    BY <1>1 DEF TypeOK
  <2> QED BY <2>1, QuietStep
<1>3. CASE ServerBind
  <2> USE <1>3 DEF ServerBind, OpenStep, SameHandler
  <2>1. TypeOK'
    BY <1>1 DEF TypeOK
  <2> QED BY <2>1, QuietStep
<1>4. CASE ServerBindFails
  <2> USE <1>4 DEF ServerBindFails, OpenStep, SameHandler
  <2>1. TypeOK'
    BY <1>1 DEF TypeOK
  <2> QED BY <2>1, QuietStep
<1>5. CASE ServerClose
  <2> USE <1>5 DEF ServerClose, OpenStep, SameHandler
  <2>1. TypeOK'
    BY <1>1 DEF TypeOK
  <2> QED BY <2>1, QuietStep
<1>6. CASE ServerRemove
  <2> USE <1>6 DEF ServerRemove, OpenStep, NewBuffer
  <2>1. TypeOK'
    BY <1>1 DEF TypeOK
  <2> QED BY <2>1, QuietStep
<1>7. CASE ServerKilled
  <2> USE <1>7 DEF ServerKilled, OpenStep, NewBuffer
  <2>1. TypeOK'
    BY <1>1 DEF TypeOK
  <2> QED BY <2>1, QuietStep
<1>8. CASE Await
  <2> USE <1>8 DEF Await, ReadStep, has_data
  <2>1. TypeOK'
    BY <1>1 DEF TypeOK
  <2> QED BY <2>1, QuietStep
<1>9. CASE ReadNoData
  <2> USE <1>9 DEF ReadNoData, ReadStep
  <2>1. TypeOK'
    BY <1>1 DEF TypeOK
  <2> QED BY <2>1, QuietStep
<1> QED BY <1>2, <1>3, <1>4, <1>5, <1>6, <1>7, <1>8, <1>9

\* What write() hands to sendto() is genuine, and write() returns true for it.
LEMMA SendDatagramInv ==
  ASSUME DatagramInv, Send \/ SendLost \/ SendRefused
  PROVE  DatagramInv'
<1> USE DatagramAssumption
<1>1. /\ wobj \in DataObject /\ last_id \in Nat
      /\ writers \in 1..MAX_WRITERS
      /\ sent \in [1..MAX_WRITERS -> Seq(Message)]
      /\ Fits(wobj, BODY_SIZE)
  BY PingIsObject DEF DatagramInv, TypeOK, Send, SendLost, SendRefused, SendReturns
<1>2. sent' \in [1..MAX_WRITERS -> Seq(Message)]
  <2> DEFINE m == [id |-> last_id, obj |-> wobj]
  <2>1. m \in Message
    BY <1>1 DEF Message
  <2>2. sent' \in {sent, [sent EXCEPT ![writers] = Append(sent[writers], m)]}
    BY DEF Send, SendLost, SendRefused, SendReturns
  <2> HIDE DEF m
  <2>3. Append(sent[writers], m) \in Seq(Message)
    BY <1>1, <2>1
  <2> QED BY <1>1, <2>2, <2>3
<1>3. ASSUME queue' = queue, SendLost \/ SendRefused PROVE DatagramInv'
  <2>1. TypeOK'
    <3>1. wobj' \in Objects \cup {Ping}
      BY <1>3 DEF SendLost, SendRefused, SendReturns
    <3>2. wpc' = "idle" /\ wret' \in BOOLEAN
      BY <1>3 DEF SendLost, SendRefused, SendReturns
    <3>3. UNCHANGED <<unix, path, bound, queue, foreign, writers, last_id, rvars>>
      BY <1>3 DEF SendLost, SendRefused, SendReturns
    <3> QED BY <1>2, <3>1, <3>2, <3>3 DEF DatagramInv, TypeOK, rvars
  <2> QED BY <1>3, <2>1, QuietStep DEF DatagramInv, TypeOK, SendLost, SendRefused, SendReturns, rvars
<1>4. CASE Send
  <2> DEFINE d == [cells |-> Wire(last_id, wobj), writer |-> writers,
                   n |-> Len(sent[writers]) + 1]
  <2>1. /\ Wire(last_id, wobj) \in Seq(Nat)
        /\ Len(Wire(last_id, wobj)) <= BUFFER_SIZE
    <3>1. /\ Wire(last_id, wobj) \in Seq(Nat) /\ SerializedSize(wobj) \in Nat
          /\ Len(Wire(last_id, wobj)) = HEADER_SIZE + SerializedSize(wobj)
      BY <1>1, WireFacts
    <3> QED BY <1>1, <3>1 DEF Fits, BUFFER_SIZE, HEADER_SIZE
  <2>2. d \in Datagram /\ Own(d)
    <3>1. Len(sent[writers]) + 1 \in Nat
      BY <1>1
    <3> QED BY <1>1, <2>1, <3>1 DEF Datagram, Own
  <2>3. Genuine(d)
    BY <1>1, <2>1 DEF Genuine
  <2>4. queue' = Append(queue, d)
    BY <1>4 DEF Send
  <2>5. TypeOK'
    <3>1. wobj' \in Objects \cup {Ping}
      BY <1>4 DEF Send, SendReturns
    <3>2. Len(queue') <= QUEUE_SIZE
      <4>1. queue \in Seq(Datagram)
        BY DEF DatagramInv
      <4> HIDE DEF d
      <4>2. Len(queue') = Len(queue) + 1 /\ Len(queue) \in Nat
        BY <2>4, <4>1
      <4> QED BY <1>4, <4>2 DEF Send
    <3> QED BY <1>2, <1>4, <3>1, <3>2 DEF DatagramInv, TypeOK, Send, SendReturns, rvars
  <2> HIDE DEF d
  <2> QED BY <1>4, <2>2, <2>3, <2>4, <2>5, DatagramQueued
          DEF DatagramInv, TypeOK, Send, SendReturns, rvars
<1> QED BY <1>3, <1>4 DEF SendLost, SendRefused

LEMMA StrangerDatagramInv ==
  ASSUME DatagramInv, NEW cells \in Foreign, Stranger(cells)
  PROVE  DatagramInv'
<1> USE DatagramAssumption
<1> DEFINE d == [Nobody EXCEPT !.cells = cells]
<1>1. cells \in Seq(Nat) /\ Len(cells) <= BUFFER_SIZE
  OBVIOUS
<1>2. d \in Datagram /\ Genuine(d)
  BY <1>1 DEF Nobody, Datagram, Genuine, Own
<1>3. queue' = Append(queue, d)
  BY DEF Stranger
<1>4. TypeOK' /\ foreign' > 0 /\ foreign' >= foreign
  <2>1. Len(queue') <= QUEUE_SIZE
    <3>1. queue \in Seq(Datagram)
      BY DEF DatagramInv
    <3> HIDE DEF d
    <3>2. Len(queue') = Len(queue) + 1 /\ Len(queue) \in Nat
      BY <1>3, <3>1
    <3> QED BY <3>2 DEF Stranger
  <2>2. foreign \in Nat /\ foreign' = foreign + 1 /\ foreign' <= MAX_FOREIGN
    BY DEF DatagramInv, TypeOK, Stranger
  <2> QED BY <2>1, <2>2 DEF DatagramInv, TypeOK, Stranger, wvars, rvars
<1> HIDE DEF d
<1> QED BY <1>2, <1>3, <1>4, DatagramQueued DEF DatagramInv, Stranger, wvars, rvars

\* read() accepts datagram d, and decodes from b the object it was made of.
DecodesTo(d, b) ==
  \E id \in Nat, obj \in DataObject :
    /\ d.cells = Wire(id, obj)
    /\ b[1] = id /\ b[2] = obj.type /\ b[3] = SerializedSize(obj)
    /\ SizeMatches(d.cells, b[3])
    /\ deserialize_data_object(b[2], [k \in 1..BODY_SIZE |-> b[HEADER_SIZE + k]], b[3]) = obj

\* The datagram at the front, as recvfrom() puts it over buffer_.
LEMMA FrontDatagram ==
  ASSUME DatagramInv, queue # << >>, NEW d, d = Head(queue),
         NEW b, b = Overlay(rbuf, d.cells)
  PROVE  /\ d \in Datagram /\ Genuine(d) /\ (~Own(d) => foreign > 0)
         /\ Tail(queue) \in Seq(Datagram)
         /\ \A k \in DOMAIN Tail(queue) :
              Genuine(Tail(queue)[k]) /\ (~Own(Tail(queue)[k]) => foreign > 0)
         /\ b \in [BufferIx -> Nat]
         /\ Own(d) => DecodesTo(d, b)
<1>1. queue \in Seq(Datagram) /\ Len(queue) \in Nat \ {0} /\ d = queue[1] /\ 1 \in DOMAIN queue
  BY DEF DatagramInv
<1>2. d \in Datagram /\ Genuine(d) /\ (~Own(d) => foreign > 0)
  BY <1>1 DEF DatagramInv
<1>3. Tail(queue) \in Seq(Datagram)
  BY <1>1
<1>4. \A k \in DOMAIN Tail(queue) : k + 1 \in DOMAIN queue /\ Tail(queue)[k] = queue[k + 1]
  BY <1>1
<1>5. rbuf \in [BufferIx -> Nat]
  BY DEF DatagramInv, TypeOK
<1>6. b \in [BufferIx -> Nat]
  <2>1. rbuf \in [1..BUFFER_SIZE -> Nat] /\ BUFFER_SIZE \in Nat
    BY <1>5, DatagramAssumption DEF BufferIx, BUFFER_SIZE, HEADER_SIZE
  <2>2. d.cells \in Seq(Nat) /\ Len(d.cells) <= BUFFER_SIZE
    BY <1>2 DEF Genuine
  <2> QED BY <2>1, <2>2, OverlayFacts DEF BufferIx
<1>7. ASSUME Own(d) PROVE DecodesTo(d, b)
  <2>1. PICK id \in Nat, obj \in DataObject : d.cells = Wire(id, obj)
    BY <1>2, <1>7 DEF Genuine
  <2>2. Len(Wire(id, obj)) <= BUFFER_SIZE
    BY <1>2, <2>1 DEF Genuine
  <2>3. b = Overlay(rbuf, Wire(id, obj))
    BY <2>1
  <2>4. /\ b[1] = id /\ b[2] = obj.type /\ b[3] = SerializedSize(obj)
        /\ SizeMatches(Wire(id, obj), b[3])
        /\ deserialize_data_object(b[2], [k \in 1..BODY_SIZE |-> b[HEADER_SIZE + k]],
                                   b[3]) = obj
    BY <1>5, <2>2, <2>3, OwnDatagramDecodes
  <2> QED BY <2>1, <2>4 DEF DecodesTo
<1> QED BY <1>2, <1>3, <1>4, <1>6, <1>7 DEF DatagramInv

\* Only a datagram of a stranger makes the assert() fail.
LEMMA ReadAbortsDatagramInv ==
  ASSUME DatagramInv, ReadAborts
  PROVE  DatagramInv'
<1> DEFINE d == Head(queue)
           b == Overlay(rbuf, d.cells)
<1>1. queue # << >> /\ ~SizeMatches(d.cells, b[3])
  BY DEF ReadAborts, HEADER_SIZE
<1> HIDE DEF b
<1>2. foreign > 0
  <2>1. DecodesTo(d, b) => SizeMatches(d.cells, b[3])
    BY DEF DecodesTo
  <2> QED BY <1>1, <2>1, FrontDatagram DEF b
<1>3. BUFFER_SIZE \in Nat
  BY DatagramAssumption DEF BUFFER_SIZE, HEADER_SIZE
<1>4. TypeOK'
  BY <1>3, DatagramAssumption DEF ReadAborts, ReadStep, NewBuffer, DatagramInv, TypeOK, wvars
<1> QED BY <1>2, <1>4, QuietStep DEF ReadAborts, ReadStep, NewBuffer, DatagramInv, wvars

LEMMA ReadDecodeDatagramInv ==
  ASSUME DatagramInv, ReadDecode
  PROVE  DatagramInv'
<1> DEFINE d == Head(queue)
           b == Overlay(rbuf, d.cells)
<1>1. /\ queue # << >> /\ got' = d /\ rbuf' = b /\ queue' = Tail(queue)
      /\ rpc' \in {"await", "read"} /\ bound # 0
      /\ UNCHANGED <<unix, path, bound, foreign, sent, wvars, runs, aborted>>
  <2>1. rpc' \in {"await", "read"}
    BY DEF ReadDecode, ReadStep
  <2>2. queue # << >> /\ bound # 0
    BY DEF ReadDecode, Recv, DatagramInv, TypeOK
  <2> QED BY <2>1, <2>2 DEF ReadDecode, Recv, ReadStep
<1>2. /\ d \in Datagram /\ Genuine(d)
      /\ queue' \in Seq(Datagram)
      /\ \A k \in DOMAIN queue' : Genuine(queue'[k]) /\ (~Own(queue'[k]) => foreign > 0)
      /\ rbuf' \in [BufferIx -> Nat]
  <2> HIDE DEF b
  <2> QED BY <1>1, FrontDatagram DEF b
<1>3. OwnDecodes'
  <2> SUFFICES ASSUME Own(got')
               PROVE  \E id \in Nat, obj \in DataObject :
                        /\ got'.cells = Wire(id, obj)
                        /\ Header' = DataHeader(id, obj.type, SerializedSize(obj))
                        /\ Decoded' = obj
    BY DEF OwnDecodes, Own, Wire
  <2>0. DecodesTo(d, b)
    <3> HIDE DEF b
    <3> QED BY <1>1, FrontDatagram DEF b
  <2> HIDE DEF b, d
  <2>1. PICK id \in Nat, obj \in DataObject :
          /\ d.cells = Wire(id, obj)
          /\ b[1] = id /\ b[2] = obj.type /\ b[3] = SerializedSize(obj)
          /\ deserialize_data_object(b[2], [k \in 1..BODY_SIZE |-> b[HEADER_SIZE + k]],
                                     b[3]) = obj
    BY <2>0 DEF DecodesTo
  <2>2. Header' = DataHeader(id, obj.type, SerializedSize(obj))
    BY <1>1, <2>1 DEF Header
  <2>3. Header'.type = obj.type /\ Header'.body_size = SerializedSize(obj)
    BY <2>2 DEF DataHeader
  <2>4. Decoded' = obj
    BY <1>1, <2>1, <2>3 DEF Decoded, Body
  <2> QED BY <1>1, <2>1, <2>2, <2>4
<1>4. TypeOK'
  <2>1. Len(queue') <= QUEUE_SIZE
    <3>1. queue \in Seq(Datagram) /\ Len(queue) <= QUEUE_SIZE
      BY DEF DatagramInv, TypeOK
    <3>2. Len(queue') = Len(queue) - 1 /\ Len(queue) \in Nat
      BY <1>1, <3>1
    <3> QED BY <3>1, <3>2, DatagramAssumption
  <2>2. DOMAIN received' = DOMAIN received
    BY DEF ReadDecode
  <2>3. rpc' \in {"closed", "bind", "await", "read", "remove"}
    BY <1>1
  <2> HIDE DEF b, d
  <2> QED BY <1>1, <1>2, <2>1, <2>2, <2>3 DEF DatagramInv, TypeOK, wvars
<1> HIDE DEF b, d
<1> QED BY <1>1, <1>2, <1>3, <1>4 DEF DatagramInv, Genuine, wvars

-----------------------------------------------------------------------------
(* The theorems *)

\* In every state of every run the sockets hold genuine datagrams, those of the
\* writing processes decode to what was written, and buffer_ has its type.
THEOREM DatagramInvariance == Spec => []DatagramInv
<1>1. DatagramInv /\ [Next]_vars => DatagramInv'
  <2> SUFFICES ASSUME DatagramInv, [Next]_vars PROVE DatagramInv'
    OBVIOUS
  <2>1. CASE WriterNext
    BY <2>1, WriterQuiet, SendDatagramInv DEF WriterNext, SendEnds
  <2>2. CASE ServerNext
    BY <2>2, ServerQuiet, ReadAbortsDatagramInv, ReadDecodeDatagramInv
       DEF ServerNext, ServerReads
  <2>3. ASSUME NEW cells \in Foreign, Stranger(cells) PROVE DatagramInv'
    BY <2>3, StrangerDatagramInv
  <2>4. CASE UNCHANGED vars
    <3>1. TypeOK'
      BY <2>4 DEF vars, wvars, rvars, DatagramInv, TypeOK
    <3> QED BY <2>4, <3>1, QuietStep DEF vars, wvars, rvars, DatagramInv
  <2> QED BY <2>1, <2>2, <2>3, <2>4 DEF Next
<1> QED BY <1>1, InitDatagramInv, PTL DEF Spec

\* The variables of the two processes and the socket keep their types, and the
\* queue its bound.
THEOREM DatagramTypeCorrect == Spec => []TypeOK
BY DatagramInvariance, PTL DEF DatagramInv

\* The assert() of read() never fails on what the writing processes send.
THEOREM OnlyStrangersAbort == Spec => [](aborted => foreign > 0)
BY DatagramInvariance, PTL DEF DatagramInv

\* read() gets the object that write() serialized, whatever buffer_ held before.
THEOREM RoundTripAlways == Spec => []OwnDecodes
BY DatagramInvariance, PTL DEF DatagramInv

-----------------------------------------------------------------------------
\* deserialize of a JavaSymbol stays inside the body and loses nothing of it.
LEMMA JavaSymbolFromBody ==
  ASSUME NEW n \in Nat, NEW cells \in [1..n -> Nat], NEW s \in 0..n,
         NEW obj, obj = DeserializeJavaSymbol(cells, s), ~IsError(obj)
  PROVE  /\ obj \in DataObject /\ obj.type = JAVA_SYMBOL_LOOKUP
         /\ JavaSymbolHeaderSize + Len(obj.symbol) \in 0..s
         /\ SerializeJavaSymbol(obj) =
              SubSeq(cells, 1, JavaSymbolHeaderSize + Len(obj.symbol))
<1> DEFINE symbol == [i \in 1..cells[4] |-> cells[4 + i]]
<1>1. IsError(Error("INVALID_DATA"))
  BY DEF IsError, Error
<1>2. s >= 4 /\ cells[4] \in Nat /\ s >= 4 + cells[4]
  BY <1>1 DEF DeserializeJavaSymbol, JavaSymbolHeaderSize
<1>3. obj = JavaSymbol(<<cells[1], cells[2]>>, cells[3], symbol)
  BY <1>1 DEF DeserializeJavaSymbol, JavaSymbolHeaderSize
<1>4. /\ obj.type = JAVA_SYMBOL_LOOKUP /\ obj.length = cells[3] /\ obj.symbol = symbol
      /\ obj.address = <<cells[1], cells[2]>>
  BY <1>3 DEF JavaSymbol
<1>5. symbol \in Seq(Nat) /\ Len(symbol) = cells[4]
  <2>1. symbol \in [1..cells[4] -> Nat]
    BY <1>2
  <2> HIDE DEF symbol
  <2> QED BY <1>2, <2>1, FunctionIsSequence
<1>6. \A k \in 1..(4 + cells[4]) :
        cells[k] = IF k \in {1, 2} THEN obj.address[k]
                   ELSE IF k = 3 THEN obj.length
                   ELSE IF k = 4 THEN Len(symbol)
                   ELSE symbol[k - 4]
  <2> SUFFICES ASSUME NEW k \in 1..(4 + cells[4]), k \notin {1, 2, 3, 4}
               PROVE  cells[k] = symbol[k - 4]
    <3>1. obj.address[1] = cells[1] /\ obj.address[2] = cells[2]
      BY <1>4
    <3> HIDE DEF symbol
    <3> QED BY <1>4, <1>5, <3>1
  <2>1. k - 4 \in 1..cells[4] /\ 4 + (k - 4) = k
    BY <1>2
  <2> QED BY <2>1
<1>7. SubSeq(cells, 1, 4 + cells[4]) = [k \in 1..(4 + cells[4]) |-> cells[k]]
  <2>1. cells \in Seq(Nat)
    OBVIOUS
  <2> QED BY <1>2, <2>1
<1> HIDE DEF symbol
<1>8. SerializeJavaSymbol(obj) = [k \in 1..(4 + cells[4]) |-> cells[k]]
  BY <1>4, <1>5, <1>6 DEF SerializeJavaSymbol, JavaSymbolHeaderSize
<1>9. obj \in DataObject
  <2>1. cells[1] \in Nat /\ cells[2] \in Nat /\ cells[3] \in Nat
    BY <1>2
  <2>2. obj \in JavaSymbols
    BY <1>3, <1>5, <2>1 DEF JavaSymbol, JavaSymbols
  <2> QED BY <2>2 DEF DataObject
<1> QED BY <1>2, <1>4, <1>5, <1>7, <1>8, <1>9 DEF JavaSymbolHeaderSize

\* The same for BinaryData.
LEMMA BinaryDataFromBody ==
  ASSUME NEW n \in Nat, NEW cells \in [1..n -> Nat], NEW s \in 0..n,
         NEW obj, obj = DeserializeBinaryData(cells, s), ~IsError(obj)
  PROVE  /\ obj \in DataObject /\ obj.type = BINARY_DATA
         /\ BinaryDataHeaderSize + Len(obj.data) \in 0..s
         /\ SerializeBinaryData(obj) =
              SubSeq(cells, 1, BinaryDataHeaderSize + Len(obj.data))
<1> DEFINE data == [i \in 1..cells[1] |-> cells[1 + i]]
<1>1. IsError(Error("INVALID_DATA"))
  BY DEF IsError, Error
<1>2. s >= 1 /\ cells[1] \in Nat /\ s >= 1 + cells[1]
  BY <1>1 DEF DeserializeBinaryData, BinaryDataHeaderSize
<1>3. obj = BinaryData(data)
  BY <1>1 DEF DeserializeBinaryData, BinaryDataHeaderSize
<1>4. obj.type = BINARY_DATA /\ obj.data = data
  BY <1>3 DEF BinaryData
<1>5. data \in Seq(Nat) /\ Len(data) = cells[1]
  <2> DEFINE length == cells[1]
  <2>1. length \in Nat /\ data \in [1..length -> Nat]
    BY <1>2
  <2> HIDE DEF data, length
  <2>2. data \in Seq(Nat) /\ Len(data) = length
    BY <2>1
  <2> QED BY <2>2 DEF length
<1>6. \A k \in 1..(1 + cells[1]) : cells[k] = IF k = 1 THEN Len(data) ELSE data[k - 1]
  <2> SUFFICES ASSUME NEW k \in 1..(1 + cells[1]), k # 1
               PROVE  cells[k] = data[k - 1]
    <3> HIDE DEF data
    <3> QED BY <1>5
  <2>1. k - 1 \in 1..cells[1] /\ 1 + (k - 1) = k
    BY <1>2
  <2> QED BY <2>1
<1>7. SubSeq(cells, 1, 1 + cells[1]) = [k \in 1..(1 + cells[1]) |-> cells[k]]
  <2>1. cells \in Seq(Nat)
    OBVIOUS
  <2> QED BY <1>2, <2>1
<1> HIDE DEF data
<1>8. SerializeBinaryData(obj) = [k \in 1..(1 + cells[1]) |-> cells[k]]
  BY <1>4, <1>5, <1>6 DEF SerializeBinaryData, BinaryDataHeaderSize
<1>9. obj \in DataObject
  BY <1>3, <1>5 DEF BinaryData, BinaryDatas, DataObject
<1> QED BY <1>2, <1>4, <1>5, <1>7, <1>8, <1>9 DEF BinaryDataHeaderSize

\* What read() makes of a body is an object, and is made of the body alone.
LEMMA DecodedFacts ==
  DatagramInv =>
    /\ DecodedFromBody
    /\ SizeMatches(got.cells, Header.body_size) /\ ~IsError(Decoded) => Decoded \in DataObject
<1> DEFINE n == BODY_SIZE
           type == Header.type
           size == Header.body_size
           buffer == Body
<1> SUFFICES ASSUME DatagramInv, SizeMatches(got.cells, size), ~IsError(Decoded)
             PROVE  /\ Decoded \in DataObject
                    /\ SerializedSize(Decoded) <= size
                    /\ Serialize(Decoded) = SubSeq(buffer, 1, SerializedSize(Decoded))
  BY DEF DecodedFromBody
<1>1. n \in Nat /\ buffer \in [1..n -> Nat] /\ size \in 0..n /\ size \in Nat
  <2>1. rbuf \in [1..(3 + BODY_SIZE) -> Nat] /\ BODY_SIZE \in Nat
    BY DatagramAssumption DEF DatagramInv, TypeOK, BufferIx, BUFFER_SIZE, HEADER_SIZE
  <2>2. size \in Nat /\ Body \in [1..BODY_SIZE -> Nat]
    <3>1. Header.body_size = rbuf[3] /\ 3 \in 1..(3 + BODY_SIZE)
      BY <2>1 DEF Header, DataHeader
    <3>2. \A k \in 1..BODY_SIZE : 3 + k \in 1..(3 + BODY_SIZE)
      BY <2>1
    <3> QED BY <2>1, <3>1, <3>2 DEF Body, HEADER_SIZE
  <2>3. size + 3 = Len(got.cells) /\ Len(got.cells) <= 3 + BODY_SIZE
    BY DEF SizeMatches, DatagramInv, Genuine, BUFFER_SIZE, HEADER_SIZE
  <2> QED BY <2>1, <2>2, <2>3
<1>0. Decoded = deserialize_data_object(type, buffer, size)
  BY DEF Decoded
<1>2. IsError(Error("INVALID_DATA")) /\ IsError(Error("UNKNOWN_DATA"))
  BY DEF IsError, Error
<1>3. type \in {PING, JAVA_SYMBOL_LOOKUP, BINARY_DATA}
  BY <1>0, <1>2 DEF deserialize_data_object
<1> HIDE DEF n, type, size, buffer
<1>4. CASE type = PING
  <2>1. Decoded = Ping
    BY <1>0, <1>4 DEF deserialize_data_object, PING, INVALID
  <2>2. SerializedSize(Decoded) = 0 /\ Serialize(Decoded) = << >>
    BY <2>1 DEF Ping, SerializedSize, Serialize
  <2>3. Decoded \in DataObject
    BY <2>1 DEF DataObject
  <2>4. SubSeq(buffer, 1, 0) = << >>
    <3>1. buffer \in Seq(Nat)
      BY <1>1
    <3> QED BY <3>1
  <2> QED BY <1>1, <2>2, <2>3, <2>4
<1>5. CASE type = JAVA_SYMBOL_LOOKUP
  <2>1. Decoded = DeserializeJavaSymbol(buffer, size)
    BY <1>0, <1>5 DEF deserialize_data_object, PING, INVALID, JAVA_SYMBOL_LOOKUP
  <2>2. /\ Decoded \in DataObject /\ Decoded.type = JAVA_SYMBOL_LOOKUP
        /\ JavaSymbolHeaderSize + Len(Decoded.symbol) \in 0..size
        /\ SerializeJavaSymbol(Decoded) =
             SubSeq(buffer, 1, JavaSymbolHeaderSize + Len(Decoded.symbol))
    BY <1>1, <2>1, JavaSymbolFromBody
  <2> QED BY <1>1, <2>2 DEF SerializedSize, Serialize, PING, JAVA_SYMBOL_LOOKUP
<1>6. CASE type = BINARY_DATA
  <2>1. Decoded = DeserializeBinaryData(buffer, size)
    BY <1>0, <1>6 DEF deserialize_data_object, PING, INVALID, JAVA_SYMBOL_LOOKUP, BINARY_DATA
  <2>2. /\ Decoded \in DataObject /\ Decoded.type = BINARY_DATA
        /\ BinaryDataHeaderSize + Len(Decoded.data) \in 0..size
        /\ SerializeBinaryData(Decoded) =
             SubSeq(buffer, 1, BinaryDataHeaderSize + Len(Decoded.data))
    BY <1>1, <2>1, BinaryDataFromBody
  <2> QED BY <1>1, <2>2 DEF SerializedSize, Serialize, PING, JAVA_SYMBOL_LOOKUP, BINARY_DATA
<1> QED BY <1>3, <1>4, <1>5, <1>6

\* No bytes that arrive make read() look behind the size of the body, and what
\* it accepts has one encoding only.
THEOREM DecodedFromBodyAlways == Spec => []DecodedFromBody
BY DecodedFacts, DatagramInvariance, PTL

-----------------------------------------------------------------------------
(* The order of the messages.  A datagram is in the socket of the reading  *)
(* process or was returned by it, and never both; those in the socket come *)
(* after those that were returned; and since a unix socket never drops     *)
(* one, everything that a writing process sent after a datagram that is    *)
(* still known is known, too.                                              *)

\* What read() returned, and of which datagram.
Entries == [writer : Nat, n : Nat, id : Nat, obj : DataObject]

\* One of ws writing processes wrote n messages or more, with s the histories.
IsSent(w, n, ws, s) == w \in 1..ws /\ n \in 1..Len(s[w])

Returned(m, ws, s) ==
  IsSent(m.writer, m.n, ws, s) /\ s[m.writer][m.n] = [id |-> m.id, obj |-> m.obj]
Waiting(d, ws, s) ==
  IsSent(d.writer, d.n, ws, s) /\ d.cells = Wire(s[d.writer][d.n].id, s[d.writer][d.n].obj)

\* The reading process that has the address got the n-th datagram of w.
Arrived(w, n) ==
  \/ \E k \in 1..Len(received[bound]) :
       received[bound][k].writer = w /\ received[bound][k].n = n
  \/ \E k \in 1..Len(queue) : queue[k].writer = w /\ queue[k].n = n

RunsInv ==
  /\ bound # 0 => bound = runs
  /\ rpc \in {"await", "read"} => bound # 0
  /\ rpc = "bind" => received[runs] = << >> /\ runs # 0
  /\ \A r \in 1..MAX_RUNS : r > runs => received[r] = << >>

ReceivedInv ==
  /\ received \in [1..MAX_RUNS -> Seq(Entries)]
  /\ \A r \in 1..MAX_RUNS :
       /\ \A k \in 1..Len(received[r]) :
            Own(received[r][k]) => Returned(received[r][k], writers, sent)
       /\ Ordered(received[r])
       /\ unix => Gapless(received[r])

SocketInv ==
  /\ \A k \in 1..Len(queue) : Own(queue[k]) => Waiting(queue[k], writers, sent)
  /\ Ordered(queue)
  /\ bound # 0 =>
       /\ \A i \in 1..Len(received[bound]), k \in 1..Len(queue) :
            Own(received[bound][i]) /\ Own(queue[k]) => Before(received[bound][i], queue[k])
       /\ unix => \A w \in 1..MAX_WRITERS : \A n, m \in 1..Len(sent[w]) :
                    n <= m /\ Arrived(w, n) => Arrived(w, m)

OrderInv == RunsInv /\ ReceivedInv /\ SocketInv

LEMMA InitOrder == Init => OrderInv
<1> SUFFICES ASSUME Init PROVE OrderInv
  OBVIOUS
<1>1. /\ runs = 0 /\ rpc = "closed" /\ bound = 0 /\ queue = << >>
      /\ received = [r \in 1..MAX_RUNS |-> << >>]
  BY DEF Init
<1>2. RunsInv
  BY <1>1 DEF RunsInv
<1>3. ReceivedInv
  <2>1. received \in [1..MAX_RUNS -> Seq(Entries)]
    BY <1>1
  <2>2. \A r \in 1..MAX_RUNS : Len(received[r]) = 0 /\ DOMAIN received[r] = {}
    BY <1>1
  <2> QED BY <2>1, <2>2 DEF ReceivedInv, Ordered, Gapless
<1>4. SocketInv
  <2>1. Len(queue) = 0 /\ DOMAIN queue = {}
    BY <1>1
  <2> QED BY <1>1, <2>1 DEF SocketInv, Ordered
<1> QED BY <1>2, <1>3, <1>4 DEF OrderInv

\* What was sent stays sent when the histories of the writing processes only grow.
LEMMA StaysSent ==
  ASSUME NEW w1 \in Nat, writers' = w1, w1 >= writers, writers \in 0..MAX_WRITERS,
         sent \in [1..MAX_WRITERS -> Seq(Message)],
         sent' \in [1..MAX_WRITERS -> Seq(Message)],
         \A w \in 1..MAX_WRITERS :
           /\ Len(sent'[w]) >= Len(sent[w])
           /\ \A n \in 1..Len(sent[w]) : sent'[w][n] = sent[w][n]
  PROVE  /\ \A m : Returned(m, writers, sent) => Returned(m, writers', sent')
         /\ \A d : Waiting(d, writers, sent) => Waiting(d, writers', sent')
<1> USE DatagramAssumption
<1>1. \A w \in 1..MAX_WRITERS : Len(sent[w]) \in Nat /\ Len(sent'[w]) \in Nat
  OBVIOUS
<1>2. ASSUME NEW w, NEW n, IsSent(w, n, writers, sent)
      PROVE  /\ w \in 1..writers' /\ n \in 1..Len(sent'[w])
             /\ sent'[w][n] = sent[w][n]
  BY <1>1, <1>2 DEF IsSent
<1>3. ASSUME NEW m, Returned(m, writers, sent)
      PROVE  Returned(m, writers', sent')
  <2>1. IsSent(m.writer, m.n, writers, sent) /\ sent[m.writer][m.n] = [id |-> m.id, obj |-> m.obj]
    BY <1>3 DEF Returned
  <2> QED BY <1>2, <2>1 DEF IsSent, Returned
<1>4. ASSUME NEW d, Waiting(d, writers, sent)
      PROVE  Waiting(d, writers', sent')
  <2>1. /\ IsSent(d.writer, d.n, writers, sent)
        /\ d.cells = Wire(sent[d.writer][d.n].id, sent[d.writer][d.n].obj)
    BY <1>4 DEF Waiting
  <2>2. IsSent(d.writer, d.n, writers', sent') /\ sent'[d.writer][d.n] = sent[d.writer][d.n]
    BY <1>2, <2>1 DEF IsSent
  <2>3. d.cells = Wire(sent'[d.writer][d.n].id, sent'[d.writer][d.n].obj)
    BY <2>1, <2>2
  <2> QED BY <2>2, <2>3 DEF Waiting
<1> QED BY <1>3, <1>4

\* The steps of open() and close(), and those that only move a program counter.
LEMMA QuietOrder ==
  ASSUME DatagramInv, OrderInv, RunsInv', UNCHANGED <<unix, sent, received>>,
         NEW w1 \in Nat, writers' = w1, w1 >= writers,
         \/ UNCHANGED <<bound, queue>>
         \/ bound' = 0 /\ queue' = << >>
         \/ queue' = << >> /\ received[bound'] = << >>
  PROVE  OrderInv'
<1>1. /\ \A m : Returned(m, writers, sent) => Returned(m, writers', sent')
      /\ \A d : Waiting(d, writers, sent) => Waiting(d, writers', sent')
  <2>1. /\ sent \in [1..MAX_WRITERS -> Seq(Message)] /\ writers \in 0..MAX_WRITERS
        /\ \A w \in 1..MAX_WRITERS : Len(sent[w]) \in Nat
    BY DEF DatagramInv, TypeOK
  <2> QED BY <2>1, StaysSent
<1>2. ReceivedInv'
  BY <1>1 DEF OrderInv, ReceivedInv
<1>3. SocketInv'
  <2>1. CASE UNCHANGED <<bound, queue>>
    BY <1>1, <2>1 DEF OrderInv, SocketInv, Arrived
  <2>2. CASE queue' = << >> /\ (bound' = 0 \/ received[bound'] = << >>)
    <3>1. Len(queue') = 0 /\ DOMAIN queue' = {}
      BY <2>2
    <3>2. bound' # 0 => Len(received'[bound']) = 0
      BY <2>2
    <3> QED BY <3>1, <3>2 DEF SocketInv, Ordered, Arrived
  <2> QED BY <2>1, <2>2
<1> QED BY <1>2, <1>3 DEF OrderInv

\* What write() records when it returns true.
LEMMA SentFacts ==
  ASSUME DatagramInv, SendReturns(TRUE),
         NEW m, m = [id |-> last_id, obj |-> wobj]
  PROVE  /\ writers \in 1..MAX_WRITERS /\ UNCHANGED <<unix, bound, writers, runs, rpc, received>>
         /\ Len(sent[writers]) \in Nat /\ Len(sent'[writers]) = Len(sent[writers]) + 1
         /\ sent'[writers][Len(sent[writers]) + 1] = m
         /\ \A w \in 1..MAX_WRITERS \ {writers} : sent'[w] = sent[w]
         /\ \A w \in 1..MAX_WRITERS : Len(sent[w]) \in Nat
         /\ \A x : Returned(x, writers, sent) => Returned(x, writers', sent')
         /\ \A x : Waiting(x, writers, sent) => Waiting(x, writers', sent')
<1> USE DatagramAssumption
<1>1. /\ sent \in [1..MAX_WRITERS -> Seq(Message)] /\ writers \in 1..MAX_WRITERS
      /\ wobj \in DataObject /\ last_id \in Nat
  BY PingIsObject DEF DatagramInv, TypeOK, SendReturns
<1>2. UNCHANGED <<unix, bound, writers, runs, rpc, received>>
  BY DEF SendReturns, rvars
<1>3. m \in Message
  BY <1>1 DEF Message
<1> DEFINE s == sent[writers]
<1>4. s \in Seq(Message) /\ sent' = [sent EXCEPT ![writers] = Append(s, m)]
  BY <1>1 DEF SendReturns
<1> HIDE DEF s
<1>5. /\ Append(s, m) \in Seq(Message) /\ Len(Append(s, m)) = Len(s) + 1 /\ Len(s) \in Nat
      /\ Append(s, m)[Len(s) + 1] = m
      /\ \A n \in 1..Len(s) : Append(s, m)[n] = s[n]
  BY <1>3, <1>4
<1>6. /\ sent' \in [1..MAX_WRITERS -> Seq(Message)] /\ sent'[writers] = Append(s, m)
      /\ \A w \in 1..MAX_WRITERS \ {writers} : sent'[w] = sent[w]
  BY <1>1, <1>4, <1>5
<1>7. \A w \in 1..MAX_WRITERS :
        /\ Len(sent[w]) \in Nat
        /\ Len(sent'[w]) >= Len(sent[w])
        /\ \A n \in 1..Len(sent[w]) : sent'[w][n] = sent[w][n]
  <2> SUFFICES ASSUME NEW w \in 1..MAX_WRITERS
               PROVE  /\ Len(sent[w]) \in Nat
                      /\ Len(sent'[w]) >= Len(sent[w])
                      /\ \A n \in 1..Len(sent[w]) : sent'[w][n] = sent[w][n]
    OBVIOUS
  <2>1. CASE w = writers
    BY <1>5, <1>6, <2>1 DEF s
  <2>2. CASE w # writers
    BY <1>1, <1>6, <2>2
  <2> QED BY <2>1, <2>2
<1>8. writers \in Nat /\ writers' = writers /\ writers >= writers /\ writers \in 0..MAX_WRITERS
  BY <1>1, <1>2
<1>9. /\ \A x : Returned(x, writers, sent) => Returned(x, writers', sent')
      /\ \A x : Waiting(x, writers, sent) => Waiting(x, writers', sent')
  BY <1>1, <1>6, <1>7, <1>8, StaysSent
<1> QED BY <1>1, <1>2, <1>5, <1>6, <1>7, <1>9 DEF s

\* A datagram that nothing of the same writing process precedes out of order comes
\* last in the socket.
LEMMA QueuedInOrder ==
  ASSUME DatagramInv, OrderInv, NEW d \in Datagram, queue' = Append(queue, d),
         UNCHANGED <<bound, received>>,
         Own(d) => \A w, n : IsSent(w, n, writers, sent) => Before([writer |-> w, n |-> n], d)
  PROVE  /\ Ordered(queue)'
         /\ bound # 0 =>
              \A i \in 1..Len(received[bound]), k \in 1..Len(queue') :
                Own(received[bound][i]) /\ Own(queue'[k])
                  => Before(received[bound][i], queue'[k])
         /\ \A w, n : Arrived(w, n)' <=> Arrived(w, n) \/ (d.writer = w /\ d.n = n)
<1> DEFINE L == Len(queue)
<1>1. /\ queue \in Seq(Datagram) /\ L \in Nat /\ DOMAIN queue = 1..L
      /\ Len(queue') = L + 1 /\ DOMAIN queue' = 1..(L + 1)
      /\ queue'[L + 1] = d /\ \A k \in 1..L : queue'[k] = queue[k]
  BY DEF DatagramInv
<1> HIDE DEF L
<1>2. Ordered(queue')
  <2> SUFFICES ASSUME NEW k \in 1..(L + 1), NEW i \in 1..(k - 1),
                      Own(queue'[i]), Own(queue'[k])
               PROVE  Before(queue'[i], queue'[k])
    BY <1>1 DEF Ordered
  <2>1. CASE k = L + 1
    <3>1. i \in 1..L /\ queue'[i] = queue[i]
      BY <1>1, <2>1
    <3>2. IsSent(queue[i].writer, queue[i].n, writers, sent)
      BY <3>1 DEF OrderInv, SocketInv, Waiting, L
    <3> QED BY <1>1, <2>1, <3>1, <3>2 DEF Before
  <2>2. CASE k # L + 1
    <3>1. k \in 1..L /\ i \in 1..L
      BY <1>1, <2>2
    <3> QED BY <1>1, <3>1 DEF OrderInv, SocketInv, Ordered
  <2> QED BY <2>1, <2>2
<1>3. ASSUME bound # 0, NEW i \in 1..Len(received[bound]), NEW k \in 1..(L + 1),
             Own(received[bound][i]), Own(queue'[k])
      PROVE  Before(received[bound][i], queue'[k])
  <2>1. CASE k = L + 1
    <3>1. bound \in 1..MAX_RUNS
      BY <1>3, DatagramAssumption DEF DatagramInv, TypeOK
    <3>2. IsSent(received[bound][i].writer, received[bound][i].n, writers, sent)
      BY <1>3, <3>1 DEF OrderInv, ReceivedInv, Returned
    <3> QED BY <1>1, <1>3, <2>1, <3>2 DEF Before
  <2>2. CASE k # L + 1
    <3>1. k \in 1..L
      BY <1>1, <2>2
    <3> QED BY <1>1, <1>3, <3>1 DEF OrderInv, SocketInv, L
  <2> QED BY <2>1, <2>2
<1>4. ASSUME NEW w, NEW n
      PROVE  Arrived(w, n)' <=> Arrived(w, n) \/ (d.writer = w /\ d.n = n)
  <2>1. (\E k \in 1..(L + 1) : queue'[k].writer = w /\ queue'[k].n = n)
          <=> (\E k \in 1..L : queue[k].writer = w /\ queue[k].n = n)
              \/ (d.writer = w /\ d.n = n)
    <3>1. \A k \in 1..L : k \in 1..(L + 1)
      BY <1>1
    <3>2. L + 1 \in 1..(L + 1) /\ \A k \in 1..(L + 1) : k \in 1..L \/ k = L + 1
      BY <1>1
    <3> QED BY <1>1, <3>1, <3>2, Zenon
  <2> QED BY <1>1, <2>1 DEF Arrived, L
<1> QED BY <1>1, <1>2, <1>3, <1>4

\* sendto() puts the newest message behind everything else.
LEMMA SendOrder ==
  ASSUME DatagramInv, OrderInv, Send
  PROVE  OrderInv'
<1> DEFINE m == [id |-> last_id, obj |-> wobj]
           L == Len(sent[writers])
           d == [cells |-> Wire(last_id, wobj), writer |-> writers, n |-> L + 1]
<1>1. queue' = Append(queue, d) /\ bound # 0 /\ SendReturns(TRUE)
  BY DEF Send
<1>2. /\ writers \in 1..MAX_WRITERS /\ UNCHANGED <<unix, bound, writers, runs, rpc, received>>
      /\ L \in Nat /\ Len(sent'[writers]) = L + 1
      /\ sent'[writers][L + 1] = m
      /\ \A w \in 1..MAX_WRITERS \ {writers} : sent'[w] = sent[w]
      /\ \A w \in 1..MAX_WRITERS : Len(sent[w]) \in Nat
      /\ \A x : Returned(x, writers, sent) => Returned(x, writers', sent')
      /\ \A x : Waiting(x, writers, sent) => Waiting(x, writers', sent')
  BY <1>1, SentFacts
<1>3. d \in Datagram /\ Own(d) /\ d.writer = writers /\ d.n = L + 1
      /\ d.cells = Wire(m.id, m.obj)
  <2>1. Wire(last_id, wobj) \in Seq(Nat)
    BY PingIsObject, WireFacts, DatagramAssumption DEF DatagramInv, TypeOK
  <2>2. writers \in Nat /\ writers # 0 /\ L + 1 \in Nat
    BY <1>2
  <2> QED BY <2>1, <2>2 DEF Datagram, Own
<1>4. \A w, n : IsSent(w, n, writers, sent) => Before([writer |-> w, n |-> n], d)
  <2> SUFFICES ASSUME NEW w, NEW n, IsSent(w, n, writers, sent)
               PROVE  w < writers \/ (w = writers /\ n < L + 1)
    BY <1>3 DEF Before
  <2>1. w \in 1..writers /\ n \in 1..Len(sent[w]) /\ writers \in Nat
    BY <1>2 DEF IsSent
  <2> QED BY <1>2, <2>1
<1> HIDE DEF d, m, L
<1>5. /\ Ordered(queue)'
      /\ \A i \in 1..Len(received[bound]), k \in 1..Len(queue') :
           Own(received[bound][i]) /\ Own(queue'[k]) => Before(received[bound][i], queue'[k])
      /\ \A w, n : Arrived(w, n)' <=> Arrived(w, n) \/ (writers = w /\ L + 1 = n)
  BY <1>1, <1>2, <1>3, <1>4, QueuedInOrder
<1>6. \A k \in 1..Len(queue') : Own(queue'[k]) => Waiting(queue'[k], writers', sent')
  <2>1. /\ queue \in Seq(Datagram) /\ Len(queue) \in Nat /\ Len(queue') = Len(queue) + 1
        /\ queue'[Len(queue) + 1] = d /\ \A k \in 1..Len(queue) : queue'[k] = queue[k]
    BY <1>1, <1>3 DEF DatagramInv
  <2>2. ASSUME NEW k \in 1..Len(queue) PROVE Own(queue'[k]) => Waiting(queue'[k], writers', sent')
    BY <1>2, <2>1, <2>2 DEF OrderInv, SocketInv
  <2>3. Waiting(d, writers', sent')
    BY <1>2, <1>3 DEF Waiting, IsSent
  <2> QED BY <2>1, <2>2, <2>3
<1>7. ASSUME unix, NEW w \in 1..MAX_WRITERS,
             NEW n \in 1..Len(sent'[w]), NEW k \in 1..Len(sent'[w]), n <= k, Arrived(w, n)'
      PROVE  Arrived(w, k)'
  <2>1. CASE w = writers /\ k = L + 1
    BY <1>5, <2>1
  <2>2. CASE ~(w = writers /\ k = L + 1)
    <3>1. n \in 1..Len(sent[w]) /\ k \in 1..Len(sent[w]) /\ ~(w = writers /\ n = L + 1)
      BY <1>2, <1>7, <2>2 DEF L
    <3>2. Arrived(w, n)
      BY <1>5, <1>7, <3>1
    <3>3. Arrived(w, k)
      BY <1>1, <1>7, <3>1, <3>2 DEF OrderInv, SocketInv
    <3> QED BY <1>5, <3>3
  <2> QED BY <2>1, <2>2
<1>8. SocketInv'
  BY <1>2, <1>5, <1>6, <1>7 DEF SocketInv
<1>9. RunsInv' /\ ReceivedInv'
  BY <1>2 DEF OrderInv, RunsInv, ReceivedInv
<1> QED BY <1>8, <1>9 DEF OrderInv

\* A datagram that UDP drops is sent, and never arrives.
LEMMA LostOrder ==
  ASSUME DatagramInv, OrderInv, SendLost
  PROVE  OrderInv'
<1> DEFINE m == [id |-> last_id, obj |-> wobj]
<1>1. SendReturns(TRUE) /\ ~unix /\ queue' = queue
  BY DEF SendLost
<1>2. /\ UNCHANGED <<unix, bound, writers, runs, rpc, received>>
      /\ \A x : Returned(x, writers, sent) => Returned(x, writers', sent')
      /\ \A x : Waiting(x, writers, sent) => Waiting(x, writers', sent')
  BY <1>1, SentFacts
<1>3. RunsInv' /\ ReceivedInv'
  BY <1>2 DEF OrderInv, RunsInv, ReceivedInv
<1>4. SocketInv'
  BY <1>1, <1>2 DEF OrderInv, SocketInv
<1> QED BY <1>3, <1>4 DEF OrderInv

\* A datagram of a stranger comes between the others and changes nothing for them.
LEMMA StrangerOrder ==
  ASSUME DatagramInv, OrderInv, NEW cells \in Foreign, Stranger(cells)
  PROVE  OrderInv'
<1> DEFINE d == [Nobody EXCEPT !.cells = cells]
<1>1. /\ UNCHANGED <<unix, bound, runs, rpc, received, writers, sent>>
      /\ queue' = Append(queue, d) /\ bound # 0
  BY DEF Stranger, wvars, rvars
<1>2. d \in Datagram /\ ~Own(d) /\ d.writer = 0
  BY DatagramAssumption DEF Nobody, Datagram, Own
<1> HIDE DEF d
<1>3. /\ Ordered(queue)'
      /\ \A i \in 1..Len(received[bound]), k \in 1..Len(queue') :
           Own(received[bound][i]) /\ Own(queue'[k]) => Before(received[bound][i], queue'[k])
      /\ \A w, n : Arrived(w, n)' <=> Arrived(w, n) \/ (d.writer = w /\ d.n = n)
  BY <1>1, <1>2, QueuedInOrder
<1>4. \A k \in 1..Len(queue') : Own(queue'[k]) => Waiting(queue'[k], writers', sent')
  <2>1. /\ queue \in Seq(Datagram) /\ Len(queue) \in Nat /\ Len(queue') = Len(queue) + 1
        /\ queue'[Len(queue) + 1] = d /\ \A k \in 1..Len(queue) : queue'[k] = queue[k]
    BY <1>1, <1>2 DEF DatagramInv
  <2>2. ASSUME NEW k \in 1..Len(queue) PROVE Own(queue'[k]) => Waiting(queue'[k], writers', sent')
    BY <1>1, <2>1, <2>2 DEF OrderInv, SocketInv
  <2> QED BY <1>2, <2>1, <2>2
<1>5. ASSUME unix, NEW w \in 1..MAX_WRITERS, NEW n \in 1..Len(sent[w]), NEW k \in 1..Len(sent[w]),
             n <= k, Arrived(w, n)'
      PROVE  Arrived(w, k)'
  <2>1. Arrived(w, n)
    BY <1>2, <1>3, <1>5
  <2>2. Arrived(w, k)
    BY <1>1, <1>5, <2>1 DEF OrderInv, SocketInv
  <2> QED BY <1>3, <2>2
<1>6. SocketInv'
  BY <1>1, <1>3, <1>4, <1>5 DEF SocketInv
<1>7. RunsInv' /\ ReceivedInv'
  BY <1>1 DEF OrderInv, RunsInv, ReceivedInv
<1> QED BY <1>6, <1>7 DEF OrderInv

\* What read() takes from the socket: the message itself, when it is the datagram of a
\* writing process, and an entry of the history when it is an object at all.
LEMMA DecodeFacts ==
  ASSUME DatagramInv, DatagramInv', OrderInv, ReadDecode,
         NEW d, d = Head(queue),
         NEW e, e = [writer |-> d.writer, n |-> d.n, id |-> Header'.id, obj |-> Decoded']
  PROVE  /\ queue # << >> /\ queue' = Tail(queue) /\ bound = runs /\ bound \in 1..MAX_RUNS
         /\ UNCHANGED <<unix, bound, runs, sent, writers>> /\ rpc' \in {"await", "read"}
         /\ Own(d) => Returned(e, writers, sent)
         /\ \/ received' = received /\ ~Own(d)
            \/ /\ received' = [received EXCEPT ![bound] = Append(received[bound], e)]
               /\ e \in Entries
<1> USE DatagramAssumption
<1>1. /\ queue # << >> /\ queue' = Tail(queue) /\ got' = d
      /\ rbuf' = Overlay(rbuf, d.cells) /\ SizeMatches(got'.cells, Header'.body_size)
      /\ UNCHANGED <<unix, bound, runs, sent, writers>>
      /\ rpc = "read" /\ rpc' \in {"await", "read"}
  BY DEF ReadDecode, Recv, ReadStep, wvars
<1>2. bound = runs /\ bound \in 1..MAX_RUNS
  BY <1>1 DEF OrderInv, RunsInv, DatagramInv, TypeOK
<1>3. ASSUME Own(d)
      PROVE  Returned(e, writers, sent) /\ Decoded' \in DataObject
  <2> DEFINE m == sent[d.writer][d.n]
  <2>1. 1 \in 1..Len(queue) /\ d = queue[1] /\ Len(d.cells) <= BUFFER_SIZE
    <3>1. queue \in Seq(Datagram) /\ 1 \in 1..Len(queue) /\ d = queue[1] /\ 1 \in DOMAIN queue
      BY <1>1 DEF DatagramInv
    <3> QED BY <3>1 DEF DatagramInv, Genuine
  <2>2. IsSent(d.writer, d.n, writers, sent) /\ d.cells = Wire(m.id, m.obj)
    BY <1>3, <2>1 DEF OrderInv, SocketInv, Waiting
  <2>3. m \in Message
    <3>1. sent \in [1..MAX_WRITERS -> Seq(Message)] /\ writers \in 0..MAX_WRITERS
      BY DEF DatagramInv, TypeOK
    <3>2. d.writer \in 1..MAX_WRITERS /\ d.n \in 1..Len(sent[d.writer])
      <4>1. d.writer \in 1..writers /\ d.n \in 1..Len(sent[d.writer])
        BY <2>2 DEF IsSent
      <4> QED BY <3>1, <4>1
    <3> QED BY <3>1, <3>2
  <2>4. m.id \in Nat /\ m.obj \in DataObject /\ m = [id |-> m.id, obj |-> m.obj]
    BY <2>3 DEF Message
  <2> HIDE DEF m
  <2>5. /\ rbuf'[1] = m.id /\ rbuf'[2] = m.obj.type /\ rbuf'[3] = SerializedSize(m.obj)
        /\ deserialize_data_object(rbuf'[2], [k \in 1..BODY_SIZE |-> rbuf'[HEADER_SIZE + k]],
                                   rbuf'[3]) = m.obj
    <3>1. rbuf \in [BufferIx -> Nat] /\ rbuf' = Overlay(rbuf, Wire(m.id, m.obj))
          /\ Len(Wire(m.id, m.obj)) <= BUFFER_SIZE
      BY <1>1, <2>1, <2>2 DEF DatagramInv, TypeOK
    <3> HIDE DatagramAssumption
    <3> QED BY <2>4, <3>1, OwnDatagramDecodes
  <2>6. Header' = DataHeader(m.id, m.obj.type, SerializedSize(m.obj))
    BY <2>5 DEF Header
  <2>7. Decoded' = m.obj /\ Header'.id = m.id
    BY <2>5, <2>6 DEF Decoded, Body, DataHeader
  <2> QED BY <2>2, <2>4, <2>7 DEF Returned, m
<1>4. ASSUME ~IsError(Decoded')
      PROVE  Decoded' \in DataObject
  <2>1. (SizeMatches(got.cells, Header.body_size) /\ ~IsError(Decoded)
           => Decoded \in DataObject)'
    BY DecodedFacts, PTL
  <2> QED BY <1>1, <1>4, <2>1
<1>5. Own(d) => ~IsError(Decoded')
  BY <1>3, ObjectIsNoError
<1>6. \/ IsError(Decoded') /\ received' = received
      \/ /\ ~IsError(Decoded')
         /\ received' = [received EXCEPT ![bound] = Append(received[bound], e)]
  BY <1>1, <1>2 DEF ReadDecode
<1>7. ~IsError(Decoded') => e \in Entries
  <2>1. d \in Datagram
    BY <1>1, FrontDatagram
  <2>2. Header'.id \in Nat
    <3>1. rbuf' \in [BufferIx -> Nat]
      BY <1>1, FrontDatagram
    <3>2. 1 \in BufferIx
      BY DEF BufferIx, BUFFER_SIZE, HEADER_SIZE
    <3> QED BY <3>1, <3>2 DEF Header, DataHeader
  <2> QED BY <1>4, <2>1, <2>2 DEF Entries, Datagram
<1> QED BY <1>1, <1>2, <1>3, <1>5, <1>6, <1>7

\* The message that read() returns was the first one in the socket, and joins those
\* that were returned before.
LEMMA ReadOrder ==
  ASSUME DatagramInv, DatagramInv', OrderInv, ReadDecode
  PROVE  OrderInv'
<1> USE DatagramAssumption
<1> DEFINE d == Head(queue)
           e == [writer |-> d.writer, n |-> d.n, id |-> Header'.id, obj |-> Decoded']
           s == received[bound]
           t == received'[bound]
           L == Len(s)
<1>1. /\ queue # << >> /\ queue' = Tail(queue) /\ bound = runs /\ bound \in 1..MAX_RUNS
      /\ UNCHANGED <<unix, bound, runs, sent, writers>> /\ rpc' \in {"await", "read"}
      /\ Own(d) => Returned(e, writers, sent)
      /\ \/ received' = received /\ ~Own(d)
         \/ /\ received' = [received EXCEPT ![bound] = Append(received[bound], e)]
            /\ e \in Entries
  BY DecodeFacts
<1>2. e.writer = d.writer /\ e.n = d.n
  OBVIOUS
<1>3. /\ queue \in Seq(Datagram) /\ d = queue[1] /\ 1 \in 1..Len(queue)
      /\ DOMAIN queue = 1..Len(queue) /\ DOMAIN queue' = 1..Len(queue')
      /\ \A k \in 1..Len(queue') : k + 1 \in 2..Len(queue) /\ queue'[k] = queue[k + 1]
      /\ \A k \in 2..Len(queue) : k - 1 \in 1..Len(queue') /\ queue'[k - 1] = queue[k]
  BY <1>1 DEF DatagramInv
<1> HIDE DEF d, e
<1>4. /\ received' \in [1..MAX_RUNS -> Seq(Entries)]
      /\ \A r \in 1..MAX_RUNS : r # bound => received'[r] = received[r]
      /\ L \in Nat /\ DOMAIN s = 1..L /\ DOMAIN t = 1..Len(t) /\ Len(t) \in Nat
      /\ \A k \in 1..L : k \in 1..Len(t) /\ t[k] = s[k]
      /\ \A k \in 1..Len(t) : k \notin 1..L => k = L + 1 /\ t[k] = e
      /\ Own(d) => L + 1 \in 1..Len(t) /\ t[L + 1] = e
  <2>1. received \in [1..MAX_RUNS -> Seq(Entries)] /\ s \in Seq(Entries)
    BY <1>1 DEF OrderInv, ReceivedInv
  <2>2. CASE received' = received /\ ~Own(d)
    BY <2>1, <2>2
  <2>3. CASE /\ received' = [received EXCEPT ![bound] = Append(s, e)]
             /\ e \in Entries
    <3>1. t = Append(s, e) /\ Append(s, e) \in Seq(Entries)
      BY <1>1, <2>1, <2>3
    <3> HIDE DEF s, t
    <3>2. /\ received' \in [1..MAX_RUNS -> Seq(Entries)]
          /\ \A r \in 1..MAX_RUNS : r # bound => received'[r] = received[r]
      BY <1>1, <2>1, <2>3, <3>1
    <3>3. /\ L \in Nat /\ DOMAIN s = 1..L /\ DOMAIN t = 1..Len(t) /\ Len(t) = L + 1
          /\ \A k \in 1..L : t[k] = s[k]
          /\ t[L + 1] = e
      BY <2>1, <2>3, <3>1
    <3> QED BY <3>2, <3>3
  <2> QED BY <1>1, <2>2, <2>3
<1> HIDE DEF s, t, L
<1>5. \A k \in 1..Len(t) : Own(t[k]) => Returned(t[k], writers, sent)
  <2>1. \A k \in 1..L : Own(s[k]) => Returned(s[k], writers, sent)
    BY <1>1 DEF OrderInv, ReceivedInv, s, L
  <2>2. Own(e) => Own(d)
    BY <1>2 DEF Own
  <2> QED BY <1>1, <1>4, <2>1, <2>2
<1>6. Ordered(queue') /\ \A k \in 2..Len(queue) : Own(d) /\ Own(queue[k]) => Before(d, queue[k])
  <2>1. \A k \in 1..Len(queue) : \A i \in 1..(k - 1) :
          Own(queue[i]) /\ Own(queue[k]) => Before(queue[i], queue[k])
    BY <1>3 DEF OrderInv, SocketInv, Ordered
  <2>2. ASSUME NEW k \in 1..Len(queue'), NEW i \in 1..(k - 1), Own(queue'[i]), Own(queue'[k])
        PROVE  Before(queue'[i], queue'[k])
    <3>1. k + 1 \in 1..Len(queue) /\ i + 1 \in 1..((k + 1) - 1) /\ i \in 1..Len(queue')
      BY <1>3
    <3> QED BY <1>3, <2>1, <2>2, <3>1
  <2>3. \A k \in 2..Len(queue) : k \in 1..Len(queue) /\ 1 \in 1..(k - 1)
    BY <1>3
  <2> QED BY <1>3, <2>1, <2>2, <2>3 DEF Ordered
<1>7. \A i \in 1..L, k \in 1..Len(queue) : Own(s[i]) /\ Own(queue[k]) => Before(s[i], queue[k])
  BY <1>1 DEF OrderInv, SocketInv, s, L
<1>8. Ordered(t)
  <2>1. Ordered(s)
    BY <1>1 DEF OrderInv, ReceivedInv, s
  <2> SUFFICES ASSUME NEW k \in 1..Len(t), NEW i \in 1..(k - 1), Own(t[i]), Own(t[k])
               PROVE  Before(t[i], t[k])
    BY <1>4 DEF Ordered
  <2>2. CASE k \in 1..L
    <3>1. i \in 1..L
      BY <1>4, <2>2
    <3> QED BY <1>4, <2>1, <2>2, <3>1 DEF Ordered
  <2>3. CASE k \notin 1..L
    <3>1. i \in 1..L /\ t[k] = e /\ t[i] = s[i]
      BY <1>4, <2>3
    <3> QED BY <1>2, <1>3, <1>7, <3>1 DEF Own, Before
  <2> QED BY <2>2, <2>3
<1>9. \A i \in 1..Len(t), k \in 1..Len(queue') :
        Own(t[i]) /\ Own(queue'[k]) => Before(t[i], queue'[k])
  <2> SUFFICES ASSUME NEW i \in 1..Len(t), NEW k \in 2..Len(queue), Own(t[i]), Own(queue[k])
               PROVE  Before(t[i], queue[k])
    BY <1>3
  <2>1. CASE i \in 1..L
    <3>1. k \in 1..Len(queue)
      BY <1>3
    <3> QED BY <1>4, <1>7, <2>1, <3>1
  <2>2. CASE i \notin 1..L
    BY <1>2, <1>4, <1>6, <2>2 DEF Own, Before
  <2> QED BY <2>1, <2>2
<1>10. ASSUME NEW w \in 1..MAX_WRITERS, NEW n
       PROVE  Arrived(w, n) <=> \/ \E k \in 1..Len(t) : t[k].writer = w /\ t[k].n = n
                                \/ \E k \in 1..Len(queue') : queue'[k].writer = w /\ queue'[k].n = n
  <2>1. Arrived(w, n) <=> \/ \E k \in 1..L : s[k].writer = w /\ s[k].n = n
                          \/ \E k \in 1..Len(queue) : queue[k].writer = w /\ queue[k].n = n
    BY DEF Arrived, s, L
  <2>2. d.writer = w => Own(d)
    BY DEF Own
  <2>3. (\E k \in 1..Len(queue) : queue[k].writer = w /\ queue[k].n = n)
          <=> \/ d.writer = w /\ d.n = n
              \/ \E k \in 1..Len(queue') : queue'[k].writer = w /\ queue'[k].n = n
    <3>1. \A k \in 1..Len(queue) : k = 1 \/ k \in 2..Len(queue)
      BY <1>3
    <3>2. \A k \in 2..Len(queue) : k \in 1..Len(queue)
      BY <1>3
    <3> QED BY <1>3, <3>1, <3>2
  <2>4. (d.writer = w /\ d.n = n) \/ (\E k \in 1..L : s[k].writer = w /\ s[k].n = n)
          <=> (d.writer = w /\ d.n = n) \/ (\E k \in 1..Len(t) : t[k].writer = w /\ t[k].n = n)
    BY <1>2, <1>4
  <2>5. (d.writer = w /\ d.n = n) => \E k \in 1..Len(t) : t[k].writer = w /\ t[k].n = n
    BY <1>2, <1>4, <2>2
  <2>6. (\E k \in 1..Len(t) : t[k].writer = w /\ t[k].n = n)
          => (d.writer = w /\ d.n = n) \/ (\E k \in 1..L : s[k].writer = w /\ s[k].n = n)
    BY <2>4
  <2> QED BY <2>1, <2>3, <2>4, <2>5, <2>6
<1>11. ASSUME NEW w \in 1..MAX_WRITERS, NEW n
       PROVE  Arrived(w, n)' <=> Arrived(w, n)
  <2>1. Arrived(w, n)' <=> \/ \E k \in 1..Len(t) : t[k].writer = w /\ t[k].n = n
                           \/ \E k \in 1..Len(queue') : queue'[k].writer = w /\ queue'[k].n = n
    BY <1>1 DEF Arrived, t
  <2> QED BY <1>10, <2>1
<1>12. ASSUME unix, NEW w \in 1..MAX_WRITERS,
              NEW n \in 1..Len(sent[w]), NEW k \in 1..Len(sent[w]), n <= k, Arrived(w, n)
       PROVE  Arrived(w, k)
  BY <1>1, <1>12 DEF OrderInv, SocketInv
<1>13. ASSUME unix PROVE Gapless(t)
  <2> SUFFICES ASSUME NEW k \in 1..Len(t), NEW i \in 1..(k - 1), Own(t[i]),
                      t[i].writer = t[k].writer, NEW n \in t[i].n..t[k].n
               PROVE  \E j \in i..k : t[j].writer = t[k].writer /\ t[j].n = n
    BY <1>4 DEF Gapless
  <2> DEFINE w == t[k].writer
  <2>1. i \in 1..Len(t) /\ i < k /\ k \in Nat
    BY <1>4
  <2>2. /\ w \in 1..MAX_WRITERS /\ Len(sent[w]) \in Nat
        /\ t[i].n \in 1..Len(sent[w]) /\ t[k].n \in 1..Len(sent[w])
    <3>1. Own(t[k])
      BY DEF Own
    <3>2. IsSent(w, t[i].n, writers, sent) /\ IsSent(w, t[k].n, writers, sent)
      BY <1>5, <2>1, <3>1 DEF Returned
    <3>3. sent \in [1..MAX_WRITERS -> Seq(Message)] /\ writers \in 0..MAX_WRITERS
      BY DEF DatagramInv, TypeOK
    <3> HIDE DEF w
    <3> QED BY <3>2, <3>3 DEF IsSent
  <2>3. n \in 1..Len(sent[w]) /\ t[i].n <= n /\ n <= t[k].n /\ n \in Nat
    BY <2>2
  <2>4. Arrived(w, t[i].n)
    BY <1>10, <2>1, <2>2
  <2>5. Arrived(w, n)
    BY <1>12, <1>13, <2>2, <2>3, <2>4
  <2>6. CASE \E j \in 1..Len(queue') : queue'[j].writer = w /\ queue'[j].n = n
    <3>1. PICK j \in 1..Len(queue') : queue'[j].writer = w /\ queue'[j].n = n
      BY <2>6
    <3>2. Own(t[k]) /\ Own(queue'[j])
      BY <3>1 DEF Own
    <3>3. t[k].n < n
      BY <1>9, <2>2, <3>1, <3>2 DEF Before
    <3> QED BY <2>2, <2>3, <3>3
  <2>7. CASE \E j \in 1..Len(t) : t[j].writer = w /\ t[j].n = n
    <3>1. PICK j \in 1..Len(t) : t[j].writer = w /\ t[j].n = n
      BY <2>7
    <3>2. \A x, y \in 1..Len(t) :
            x < y /\ t[x].writer = w /\ t[y].writer = w => t[x].n < t[y].n
      <4> SUFFICES ASSUME NEW x \in 1..Len(t), NEW y \in 1..Len(t), x < y,
                          t[x].writer = w, t[y].writer = w
                   PROVE  t[x].n < t[y].n
        OBVIOUS
      <4>1. x \in 1..(y - 1) /\ Own(t[x]) /\ Own(t[y])
        BY DEF Own
      <4>2. Before(t[x], t[y])
        BY <1>4, <1>8, <4>1 DEF Ordered
      <4> QED BY <2>2, <4>2 DEF Before
    <3>3. ~(j < i) /\ ~(k < j)
      BY <2>1, <2>2, <2>3, <3>1, <3>2
    <3>4. j \in i..k
      BY <1>4, <2>1, <3>1, <3>3
    <3> QED BY <3>1, <3>4
  <2> QED BY <1>10, <2>2, <2>5, <2>6, <2>7
<1>14. ReceivedInv'
  <2>1. ASSUME NEW r \in 1..MAX_RUNS
        PROVE  /\ \A k \in 1..Len(received'[r]) :
                    Own(received'[r][k]) => Returned(received'[r][k], writers, sent)
               /\ Ordered(received'[r])
               /\ unix => Gapless(received'[r])
    <3>1. CASE r = bound
      BY <1>5, <1>8, <1>13, <3>1 DEF t
    <3>2. CASE r # bound
      BY <1>4, <3>2 DEF OrderInv, ReceivedInv
    <3> QED BY <3>1, <3>2
  <2> QED BY <1>1, <1>4, <2>1 DEF ReceivedInv
<1>15. SocketInv'
  <2>1. \A k \in 1..Len(queue') : Own(queue'[k]) => Waiting(queue'[k], writers, sent)
    <3>1. \A k \in 2..Len(queue) : k \in 1..Len(queue)
      BY <1>3
    <3> QED BY <1>3, <3>1 DEF OrderInv, SocketInv
  <2> QED BY <1>1, <1>6, <1>9, <1>11, <1>12, <2>1 DEF SocketInv, t
<1>16. RunsInv'
  <2>1. \A r \in 1..MAX_RUNS : r > runs => r # bound /\ received[r] = << >>
    BY <1>1 DEF OrderInv, RunsInv
  <2>2. \A r \in 1..MAX_RUNS : r > runs => received'[r] = << >>
    BY <1>4, <2>1
  <2>3. bound # 0 /\ rpc' # "bind"
    BY <1>1
  <2> QED BY <1>1, <2>2, <2>3 DEF RunsInv
<1> QED BY <1>14, <1>15, <1>16 DEF OrderInv

LEMMA WriterOrder ==
  ASSUME DatagramInv, OrderInv,
         \/ WriterOpen \/ WriterExit \/ SendRefused
         \/ \E obj \in Objects : WriteRefused(obj) \/ WriteSerialize(obj)
  PROVE  OrderInv'
<1>1. /\ UNCHANGED <<unix, bound, queue, runs, rpc, sent, received>>
      /\ writers' = writers \/ writers' = writers + 1
  BY DEF WriterOpen, WriterExit, SendRefused, SendReturns, WriteRefused, WriteSerialize, rvars
<1>2. writers \in Nat
  BY DatagramAssumption DEF DatagramInv, TypeOK
<1>3. RunsInv'
  BY <1>1 DEF OrderInv, RunsInv
<1> DEFINE w1 == writers'
<1>4. w1 \in Nat /\ w1 >= writers
  BY <1>1, <1>2
<1> HIDE DEF w1
<1> QED BY <1>1, <1>3, <1>4, QuietOrder DEF w1

\* Each reading process starts with nothing returned and an empty socket.
LEMMA ServerOrder ==
  ASSUME DatagramInv, OrderInv,
         \/ ServerRemoveOld \/ ServerBind \/ ServerBindFails \/ ServerClose \/ ServerRemove
         \/ ServerKilled \/ Await \/ ReadNoData \/ ReadAborts \/ UNCHANGED vars
  PROVE  OrderInv'
<1> USE DatagramAssumption
<1>1. /\ UNCHANGED <<unix, writers, sent, received>>
      /\ writers \in Nat /\ runs \in 0..MAX_RUNS
      /\ bound # 0 => rpc \in {"await", "read"}
      /\ bound = 0 => queue = << >>
  BY DEF DatagramInv, TypeOK, ServerRemoveOld, ServerBind, ServerBindFails, ServerClose,
     ServerRemove, ServerKilled, Await, ReadNoData, ReadAborts, OpenStep, ReadStep, vars,
     wvars, rvars
<1>2. RunsInv' /\ \/ UNCHANGED <<bound, queue>>
                  \/ bound' = 0 /\ queue' = << >>
                  \/ queue' = << >> /\ received[bound'] = << >>
  <2>1. CASE ServerRemoveOld
    BY <1>1, <2>1 DEF OrderInv, RunsInv, ServerRemoveOld, OpenStep
  <2>2. CASE ServerBind
    BY <1>1, <2>2 DEF OrderInv, RunsInv, ServerBind, OpenStep, SameHandler
  <2>3. CASE \/ ServerBindFails \/ ServerClose \/ ServerRemove \/ ServerKilled \/ Await
             \/ ReadNoData \/ ReadAborts \/ UNCHANGED vars
    <3>1. /\ runs' = runs
          /\ \/ UNCHANGED <<bound, queue>> /\ rpc' = rpc
             \/ UNCHANGED <<bound, queue>> /\ rpc = "bind" /\ rpc' = "remove"
             \/ UNCHANGED <<bound, queue>> /\ rpc = "remove" /\ rpc' = "closed"
             \/ UNCHANGED <<bound, queue>> /\ rpc \in {"await", "read"} /\ rpc' \in {"await", "read"}
             \/ bound' = 0 /\ queue' = << >> /\ rpc' \in {"remove", "closed"}
      BY <2>3 DEF ServerBindFails, ServerClose, ServerRemove, ServerKilled, Await, ReadNoData,
         ReadAborts, OpenStep, ReadStep, SameHandler, vars, rvars
    <3> QED BY <1>1, <3>1 DEF OrderInv, RunsInv
  <2> QED BY <2>1, <2>2, <2>3
<1> QED BY <1>1, <1>2, QuietOrder

\* The order survives every step, with processes that come and go.
THEOREM OrderInvariance == Spec => []OrderInv
<1>1. DatagramInv /\ DatagramInv' /\ OrderInv /\ [Next]_vars => OrderInv'
  <2> SUFFICES ASSUME DatagramInv, DatagramInv', OrderInv, [Next]_vars PROVE OrderInv'
    OBVIOUS
  <2>1. CASE WriterNext
    BY <2>1, WriterOrder, SendOrder, LostOrder DEF WriterNext, SendEnds
  <2>2. CASE ServerNext \/ UNCHANGED vars
    BY <2>2, ServerOrder, ReadOrder DEF ServerNext, ServerReads
  <2>3. ASSUME NEW cells \in Foreign, Stranger(cells) PROVE OrderInv'
    BY <2>3, StrangerOrder
  <2> QED BY <2>1, <2>2, <2>3 DEF Next
<1> QED BY <1>1, InitOrder, DatagramInvariance, PTL DEF Spec

\* What each reading process returns of the writing processes' datagrams is a part of
\* what write() returned true for, in order, each once, without a gap over a unix path;
\* and only a stranger's datagram ends it.
THEOREM DatagramInOrder == Spec => []InOrder
<1>1. DatagramInv /\ OrderInv => InOrder
  <2> SUFFICES ASSUME DatagramInv, OrderInv PROVE InOrder
    OBVIOUS
  <2>1. ASSUME NEW r \in 1..MAX_RUNS, NEW k \in DOMAIN received[r], Own(received[r][k])
        PROVE  /\ received[r][k].n \in DOMAIN sent[received[r][k].writer]
               /\ sent[received[r][k].writer][received[r][k].n] =
                    [id |-> received[r][k].id, obj |-> received[r][k].obj]
    <3> DEFINE m == received[r][k]
    <3>1. Returned(m, writers, sent)
      BY <2>1 DEF OrderInv, ReceivedInv
    <3>2. sent \in [1..MAX_WRITERS -> Seq(Message)] /\ writers \in 0..MAX_WRITERS
      BY DEF DatagramInv, TypeOK
    <3> HIDE DEF m
    <3>3. /\ m.writer \in 1..MAX_WRITERS /\ m.n \in 1..Len(sent[m.writer])
          /\ sent[m.writer][m.n] = [id |-> m.id, obj |-> m.obj]
      BY <3>1, <3>2, DatagramAssumption DEF Returned, IsSent
    <3> QED BY <3>2, <3>3 DEF m
  <2>2. \A r \in 1..MAX_RUNS : Ordered(received[r]) /\ (unix => Gapless(received[r]))
    BY DEF OrderInv, ReceivedInv
  <2>3. aborted => foreign > 0
    BY DEF DatagramInv
  <2> QED BY <2>1, <2>2, <2>3 DEF InOrder
<1> QED BY <1>1, DatagramInvariance, OrderInvariance, PTL

=============================================================================
