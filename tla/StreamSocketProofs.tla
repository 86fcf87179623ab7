------------------------- MODULE StreamSocketProofs -------------------------
(***************************************************************************)
(* Proofs about StreamSocket, for every size of the buffer and the socket, *)
(* all objects and any number of processes.                                *)
(*                                                                         *)
(* The invariant says how a byte stream is cut into messages although no   *)
(* cell says where one begins: what read() has taken of a message and what *)
(* is still in the socket is the wire form of every message that was sent  *)
(* and not read, one behind the other, and a beginning of one more.  A     *)
(* recv() moves cells within it; only send() and a complete body change    *)
(* it.                                                                     *)
(***************************************************************************)
EXTENDS StreamSocket, DataObjectsProofs

\* The beginning of a message that write() has accepted, but not the whole of it.
Partial(tail) ==
  \E id \in Nat, obj \in DataObject :
    /\ Fits(obj, BODY_SIZE)
    /\ Len(tail) < Len(Wire(id, obj))
    /\ \A k \in 1..Len(tail) : tail[k] = Wire(id, obj)[k]

-----------------------------------------------------------------------------
(* The inductive invariant. *)

\* What read() has taken of the message that it is in.
TakenCells(pc, n, h, buf) ==
  IF pc = "header" THEN [k \in 1..n |-> buf[k]]
  ELSE IF pc = "body" THEN <<h.id, h.type, h.body_size>> \o [k \in 1..n |-> buf[k]]
  ELSE << >>

Taken == TakenCells(rpc, amount, header, rbuf)

\* The cells of c that no complete message was made of.
Ahead(c) == IF c = cfd THEN Taken \o stream[c] ELSE stream[c]

\* send() hands over the message whose beginning is at the end of the stream.
WriterTail(c, tail) ==
  c = client => /\ cpc = "open" => tail = << >>
                /\ cpc = "send" => tail \o outbox = Wire(last_id, wobj)

Unread(c) ==
  \E tail \in Seq(Nat) :
    /\ Carries(Ahead(c), sent[c], Len(received[c]), tail)
    /\ Partial(tail)
    /\ WriterTail(c, tail)

WriterInv ==
  /\ \A c \in Connections : c \in finished <=> c < client \/ (c = client /\ cpc = "closed")
  /\ cpc # "closed" => client # 0
  /\ cpc # "send" => outbox = << >>
  /\ cpc = "send" => /\ outbox # << >> /\ last_id > 0
                     /\ wobj \in Objects /\ Fits(wobj, BODY_SIZE)
  /\ \A c \in Connections : \A i \in 1..Len(sent[c]) : Fits(sent[c][i].obj, BODY_SIZE)
  /\ \A c \in Connections : c > client =>
       stream[c] = << >> /\ sent[c] = << >> /\ received[c] = << >> /\ c \notin reset

ReaderInv ==
  /\ \A c \in Attached : c <= client /\ c \notin reset
  /\ \A i, j \in DOMAIN backlog : backlog[i] = backlog[j] => i = j
  /\ \A i \in DOMAIN backlog : backlog[i] # cfd
  /\ rpc = "closed" => cfd = 0 /\ backlog = << >>
  /\ rpc \in {"poll", "header", "body", "accept"} => cfd # 0
  /\ rpc = "header" => amount < HEADER_SIZE
  /\ rpc = "body" => amount <= header.body_size /\ header.body_size <= BODY_SIZE
  /\ rpc = "accept" => cfd \in finished /\ received[cfd] = sent[cfd] /\ stream[cfd] = << >>

Drained == \A c \in Connections : Dropped(c) => c \in finished /\ received[c] = sent[c]

StreamInv ==
  /\ TypeOK /\ WriterInv /\ ReaderInv /\ InOrder /\ Drained
  /\ \A c \in Attached : Unread(c)

-----------------------------------------------------------------------------
(* What is in front of cut cells. *)

\* What read() may rely on, with the r-th message of q the last that it returned: a
\* message is in front of s or, when all are read, the beginning of one, and the
\* third cell tells which.
InFront(s, q, r) ==
  /\ Len(s) < HEADER_SIZE => r = Len(q)
  /\ Len(s) >= HEADER_SIZE =>
       /\ s[3] <= BODY_SIZE
       /\ Len(s) < HEADER_SIZE + s[3] => r = Len(q)
       /\ Len(s) >= HEADER_SIZE + s[3] =>
            /\ r < Len(q)
            /\ s[1] = q[r + 1].id /\ s[2] = q[r + 1].obj.type
            /\ s[3] = SerializedSize(q[r + 1].obj)
            /\ \A k \in 1..s[3] : s[HEADER_SIZE + k] = Serialize(q[r + 1].obj)[k]

\* Cells that are cut into messages have one in front.
LEMMA FrontFacts ==
  ASSUME NEW s \in Seq(Nat), NEW tail \in Seq(Nat), NEW q \in Seq(Sendable),
         NEW r \in 0..Len(q), Carries(s, q, r, tail), Partial(tail),
         \A i \in 1..Len(q) : Fits(q[i].obj, BODY_SIZE)
  PROVE  InFront(s, q, r)
<1> USE DEF HEADER_SIZE, InFront
<1>1. CASE r = Len(q)
  <2>1. s = tail
    BY <1>1, CutDone
  <2>2. PICK id \in Nat, obj \in DataObject :
             /\ Fits(obj, BODY_SIZE)
             /\ Len(s) < Len(Wire(id, obj))
             /\ \A k \in 1..Len(s) : s[k] = Wire(id, obj)[k]
    BY <2>1 DEF Partial
  <2> DEFINE w == Wire(id, obj)
  <2> DEFINE size == SerializedSize(obj)
  <2>3. w \in Seq(Nat) /\ size \in Nat /\ Len(w) = 3 + size /\ w[3] = size /\ size <= BODY_SIZE
    BY <2>2, WireFacts DEF Fits
  <2> HIDE DEF w, size
  <2>4. Len(s) \in Nat /\ Len(s) < 3 + size /\ (Len(s) >= 3 => s[3] = size)
    <3>1. Len(s) \in Nat /\ (Len(s) >= 3 => 3 \in 1..Len(s))
      OBVIOUS
    <3>2. Len(s) < Len(w) /\ \A k \in 1..Len(s) : s[k] = w[k]
      BY <2>2 DEF w
    <3> QED BY <2>3, <3>1, <3>2
  <2>5. size <= BODY_SIZE
    BY <2>3
  <2> QED BY ONLY <1>1, <2>4, <2>5
<1>2. CASE r < Len(q)
  <2> DEFINE id == q[r + 1].id
  <2> DEFINE obj == q[r + 1].obj
  <2> DEFINE w == Wire(id, obj)
  <2> DEFINE size == SerializedSize(obj)
  <2>1. r \in Nat /\ r + 1 \in 1..Len(q) /\ WireCells(q[r + 1]) = w
    BY <1>2 DEF WireCells
  <2>2. id \in Nat /\ obj \in DataObject /\ size <= BODY_SIZE
    BY <2>1, CellsFacts DEF Fits
  <2>3. /\ w \in Seq(Nat) /\ size \in Nat /\ Len(w) = 3 + size
        /\ w[1] = id /\ w[2] = obj.type /\ w[3] = size
        /\ \A k \in 1..size : w[3 + k] = Serialize(obj)[k]
    <3> HIDE DEF id, obj
    <3> QED BY <2>2, WireFacts
  <2>4. Len(w) <= Len(s) /\ \A j \in 1..Len(w) : s[j] = w[j]
    <3> DEFINE n == Len(WireCells(q[r + 1]))
    <3>1. n = Len(WireCells(q[r + 1]))
      OBVIOUS
    <3> HIDE DEF n, w
    <3>2. n <= Len(s) /\ \A j \in 1..n : s[j] = WireCells(q[r + 1])[j]
      BY <1>2, <2>1, <3>1, CutNext
    <3> QED BY <2>1, <3>1, <3>2
  <2> HIDE DEF w, size, id, obj
  <2>5. Len(s) \in Nat /\ Len(s) >= 3 + size
    BY <2>3, <2>4
  <2>6. /\ s[1] = id /\ s[2] = obj.type /\ s[3] = size
        /\ \A k \in 1..size : s[3 + k] = Serialize(obj)[k]
    <3>1. 1 \in 1..Len(w) /\ 2 \in 1..Len(w) /\ 3 \in 1..Len(w)
      BY <2>3
    <3>2. \A k \in 1..size : 3 + k \in 1..Len(w)
      BY <2>3
    <3> QED BY <2>3, <2>4, <3>1, <3>2
  <2>7. /\ ~(Len(s) < 3) /\ ~(Len(s) < 3 + s[3]) /\ s[3] <= BODY_SIZE
    <3>1. s[3] <= BODY_SIZE
      BY <2>2, <2>6
    <3>2. ~(Len(s) < 3) /\ ~(Len(s) < 3 + size)
      <4>1. size \in Nat
        BY <2>3
      <4> QED BY ONLY <2>5, <4>1
    <3> QED BY <2>6, <3>1, <3>2
  <2> QED BY <1>2, <2>6, <2>7 DEF id, obj, size
<1> QED BY <1>1, <1>2

-----------------------------------------------------------------------------
(* Facts about a state. *)

LEMMA Histories ==
  ASSUME TypeOK, NEW c \in Connections
  PROVE  /\ sent[c] \in Seq(Message) /\ sent[c] \in Seq(Sendable)
         /\ Len(sent[c]) \in Nat /\ Len(received[c]) \in Nat
         /\ stream[c] \in Seq(Nat)
<1>1. sent[c] \in Seq(Message) /\ received[c] \in Seq(Message) /\ stream[c] \in Seq(Nat)
  BY DEF TypeOK
<1>2. Message \subseteq Sendable
  BY StreamAssumption DEF Message, Sendable
<1> QED BY <1>1, <1>2

\* The cells of a message that are in buffer_.
LEMMA BufferCells ==
  ASSUME NEW n \in Nat, NEW buf, \A k \in 1..n : buf[k] \in Nat,
         NEW x, x = [k \in 1..n |-> buf[k]]
  PROVE  /\ x \in Seq(Nat) /\ Len(x) = n /\ \A k \in 1..n : x[k] = buf[k]
         /\ n = 0 => x = << >>
<1>1. x \in [1..n -> Nat] /\ \A k \in 1..n : x[k] = buf[k]
  OBVIOUS
<1>2. x \in Seq(Nat) /\ Len(x) = n
  <2>1. n \in Nat /\ x \in [1..n -> Nat]
    BY <1>1
  <2> QED BY ONLY <2>1, FunctionIsSequence
<1> QED BY <1>1, <1>2

HeaderTaken(t, n, buf) ==
  t \in Seq(Nat) /\ Len(t) = n /\ \A k \in 1..n : t[k] = buf[k]

BodyTaken(t, n, h, buf) ==
  /\ t \in Seq(Nat) /\ Len(t) = 3 + n
  /\ t[1] = h.id /\ t[2] = h.type /\ t[3] = h.body_size
  /\ \A k \in 1..n : t[3 + k] = buf[k]

LEMMA TakenHeader ==
  ASSUME NEW n \in Nat, NEW h, NEW buf, \A k \in 1..n : buf[k] \in Nat
  PROVE  HeaderTaken(TakenCells("header", n, h, buf), n, buf)
BY BufferCells DEF TakenCells, HeaderTaken

LEMMA TakenBody ==
  ASSUME NEW n \in Nat, NEW h, NEW buf, \A k \in 1..n : buf[k] \in Nat,
         h.id \in Nat, h.type \in Nat, h.body_size \in Nat
  PROVE  BodyTaken(TakenCells("body", n, h, buf), n, h, buf)
<1> DEFINE x == [k \in 1..n |-> buf[k]]
<1> DEFINE y == <<h.id, h.type, h.body_size>>
<1>1. x \in Seq(Nat) /\ Len(x) = n /\ \A k \in 1..n : x[k] = buf[k]
  BY BufferCells
<1>2. /\ y \in Seq(Nat) /\ Len(y) = 3
      /\ y[1] = h.id /\ y[2] = h.type /\ y[3] = h.body_size
  OBVIOUS
<1> HIDE DEF x, y
<1> DEFINE z == y \o x
<1>3. /\ z \in Seq(Nat) /\ Len(z) = 3 + n
      /\ \A k \in 1..(3 + n) : z[k] = IF k <= 3 THEN y[k] ELSE x[k - 3]
  <2>1. /\ z \in Seq(Nat) /\ Len(z) = Len(y) + Len(x)
        /\ \A k \in 1..(Len(y) + Len(x)) : z[k] = IF k <= Len(y) THEN y[k] ELSE x[k - Len(y)]
    <3>1. x \in Seq(Nat) /\ y \in Seq(Nat)
      BY <1>1, <1>2
    <3> QED BY <3>1, ConcatProperties
  <2> QED BY <1>1, <1>2, <2>1
<1>4. TakenCells("body", n, h, buf) = z
  BY DEF TakenCells, x, y
<1> HIDE DEF z
<1>5. z[1] = y[1] /\ z[2] = y[2] /\ z[3] = y[3]
  <2>1. 1 \in 1..(3 + n) /\ 2 \in 1..(3 + n) /\ 3 \in 1..(3 + n)
    OBVIOUS
  <2> QED BY <1>3, <2>1
<1>6. ASSUME NEW k \in 1..n PROVE z[3 + k] = buf[k]
  <2>1. 3 + k \in 1..(3 + n) /\ ~(3 + k <= 3) /\ (3 + k) - 3 = k
    OBVIOUS
  <2> QED BY <1>1, <1>3, <2>1
<1>7. BodyTaken(z, n, h, buf)
  BY <1>2, <1>3, <1>5, <1>6 DEF BodyTaken
<1> QED BY <1>4, <1>7

LEMMA HeaderParts ==
  ASSUME TypeOK
  PROVE  /\ header.id \in Nat /\ header.type \in Nat /\ header.body_size \in Nat
         /\ amount \in Nat /\ amount <= HEADER_SIZE + BODY_SIZE
         /\ rbuf \in [BufferIx -> Nat]
         /\ \A k \in 1..amount : rbuf[k] \in Nat
<1>1. /\ header \in [id : Nat, type : Nat, body_size : Nat] /\ rbuf \in [BufferIx -> Nat]
      /\ amount \in 0..(HEADER_SIZE + BODY_SIZE)
  BY DEF TypeOK
<1>2. amount \in Nat /\ amount <= HEADER_SIZE + BODY_SIZE
  BY <1>1, StreamAssumption DEF HEADER_SIZE
<1>3. \A k \in 1..amount : k \in BufferIx
  BY <1>2, StreamAssumption DEF BufferIx, HEADER_SIZE
<1> QED BY <1>1, <1>2, <1>3

LEMMA TakenType ==
  ASSUME TypeOK
  PROVE  Taken \in Seq(Nat)
<1>1. CASE rpc = "header"
  <2>1. HeaderTaken(TakenCells("header", amount, header, rbuf), amount, rbuf)
    BY HeaderParts, TakenHeader
  <2> QED BY <1>1, <2>1 DEF HeaderTaken, Taken
<1>2. CASE rpc = "body"
  <2>1. BodyTaken(TakenCells("body", amount, header, rbuf), amount, header, rbuf)
    BY HeaderParts, TakenBody
  <2> QED BY <1>2, <2>1 DEF BodyTaken, Taken
<1>3. CASE rpc \notin {"header", "body"}
  BY <1>3 DEF Taken, TakenCells
<1> QED BY <1>1, <1>2, <1>3

LEMMA AheadType ==
  ASSUME TypeOK, NEW c \in Connections
  PROVE  Ahead(c) \in Seq(Nat)
<1>1. Taken \in Seq(Nat) /\ stream[c] \in Seq(Nat)
  BY TakenType, Histories
<1> HIDE DEF Taken
<1> QED BY <1>1 DEF Ahead

LEMMA Attachments ==
  ASSUME TypeOK
  PROVE  /\ \A c : c \in Attached <=>
                 c \in Connections /\ (c = cfd \/ \E k \in 1..Len(backlog) : backlog[k] = c)
         /\ DOMAIN backlog = 1..Len(backlog) /\ Len(backlog) \in Nat
         /\ \A k \in 1..Len(backlog) : backlog[k] \in Connections
<1>1. backlog \in Seq(Connections)
  BY DEF TypeOK
<1> QED BY <1>1 DEF Attached

\* A step that moves no cell of c and keeps its writing process in order.
LEMMA UnreadKept ==
  ASSUME NEW c, Unread(c), Ahead(c)' = Ahead(c),
         sent'[c] = sent[c], received'[c] = received[c],
         \A tail \in Seq(Nat) : WriterTail(c, tail) => WriterTail(c, tail)'
  PROVE  Unread(c)'
<1>1. PICK tail \in Seq(Nat) : /\ Carries(Ahead(c), sent[c], Len(received[c]), tail)
                               /\ Partial(tail) /\ WriterTail(c, tail)
  BY DEF Unread
<1>2. WriterTail(c, tail)'
  BY <1>1
<1>3. Carries(Ahead(c)', sent'[c], Len(received'[c]), tail)
  BY <1>1
<1> QED BY <1>1, <1>2, <1>3 DEF Unread

\* A message that has not begun.
LEMMA NothingPartial ==
  Partial(<< >>) /\ << >> \in Seq(Nat)
<1>1. /\ Ping \in DataObject /\ SerializedSize(Ping) = 0 /\ 0 \in Nat
  BY DEF DataObject, SerializedSize, Ping, PING
<1>2. Fits(Ping, BODY_SIZE)
  BY <1>1, StreamAssumption DEF Fits
<1>3. Len(Wire(0, Ping)) = HEADER_SIZE + SerializedSize(Ping)
  BY <1>1, WireFacts
<1>4. Len(<< >>) < Len(Wire(0, Ping)) /\ \A k \in 1..Len(<< >>) : << >>[k] = Wire(0, Ping)[k]
  BY <1>1, <1>3 DEF HEADER_SIZE
<1> QED BY <1>1, <1>2, <1>4 DEF Partial

\* The beginning z of a message, of which y is left.
LEMMA Beginning ==
  ASSUME NEW z \in Seq(Nat), NEW y \in Seq(Nat)
  PROVE  /\ y # << >> => /\ Len(z) < Len(z \o y)
                        /\ \A k \in 1..Len(z) : z[k] = (z \o y)[k]
         /\ y = << >> => z \o y = z
OBVIOUS

-----------------------------------------------------------------------------
(* The invariant holds initially. *)

LEMMA InitStream == Init => StreamInv
<1> SUFFICES ASSUME Init PROVE StreamInv
  OBVIOUS
<1> USE StreamAssumption DEF Init
<1>1. TypeOK
  <2>1. header \in [id : Nat, type : Nat, body_size : Nat]
    BY DEF ZeroHeader, DataHeader, INVALID
  <2>2. amount \in 0..(HEADER_SIZE + BODY_SIZE)
    BY DEF HEADER_SIZE
  <2> QED BY <2>1, <2>2 DEF TypeOK, ReaderStates
<1>2. Attached = {}
  BY DEF Attached, Connections
<1>3. WriterInv
  BY DEF WriterInv, Connections
<1>4. ReaderInv
  BY <1>2 DEF ReaderInv
<1>5. InOrder
  BY DEF InOrder
<1>6. Drained
  BY DEF Drained, Dropped, Connections
<1> QED BY <1>1, <1>2, <1>3, <1>4, <1>5, <1>6 DEF StreamInv

-----------------------------------------------------------------------------
(* The steps of the writing process. *)

LEMMA WriteSerializeStep ==
  ASSUME StreamInv, NEW obj \in Objects, WriteSerialize(obj)
  PROVE  StreamInv'
<1>1. /\ TypeOK /\ WriterInv /\ ReaderInv /\ InOrder /\ Drained
      /\ \A c \in Attached : Unread(c)
  BY DEF StreamInv
<1>2. /\ cpc = "open" /\ cpc' = "send" /\ Fits(obj, BODY_SIZE) /\ wobj' = obj
      /\ last_id < MAX_ID /\ last_id' = last_id + 1
      /\ outbox' = Wire(last_id + 1, obj)
      /\ UNCHANGED <<stream, finished, svars, backlog, client, cfd, rvars, sent, received>>
  BY DEF WriteSerialize
<1>3. last_id \in Nat /\ obj \in DataObject
  BY <1>1, StreamAssumption DEF TypeOK
<1>4. outbox' \in Seq(Nat) /\ outbox' # << >>
  <2>1. /\ last_id + 1 \in Nat /\ Wire(last_id + 1, obj) \in Seq(Nat)
        /\ Len(Wire(last_id + 1, obj)) = HEADER_SIZE + SerializedSize(obj)
        /\ SerializedSize(obj) \in Nat
    BY <1>3, WireFacts
  <2>2. Len(outbox') > 0 /\ outbox' \in Seq(Nat)
    BY <1>2, <2>1 DEF HEADER_SIZE
  <2> QED BY <2>2
<1>5. TypeOK'
  BY <1>1, <1>2, <1>3, <1>4, StreamAssumption DEF TypeOK, svars, rvars
<1>6. WriterInv'
  BY <1>1, <1>2, <1>3, <1>4 DEF WriterInv, svars
<1>7. Attached' = Attached
  BY <1>2 DEF Attached
<1>8. ReaderInv'
  BY <1>1, <1>2, <1>7 DEF ReaderInv, svars, rvars
<1>9. InOrder' /\ Drained'
  BY <1>1, <1>2, <1>7 DEF InOrder, Drained, Dropped, svars
<1>10. ASSUME NEW c \in Attached PROVE Unread(c)'
  <2>1. ASSUME NEW tail \in Seq(Nat), WriterTail(c, tail) PROVE WriterTail(c, tail)'
    <3>1. c = client => tail \o outbox' = outbox'
      BY <1>2, <1>4, <2>1 DEF WriterTail
    <3> QED BY <1>2, <3>1 DEF WriterTail
  <2>2. Ahead(c)' = Ahead(c)
    BY <1>2 DEF Ahead, Taken, rvars
  <2> QED BY <1>1, <1>2, <2>1, <2>2, UnreadKept
<1> QED BY <1>5, <1>6, <1>7, <1>8, <1>9, <1>10 DEF StreamInv

LEMMA ClientOpenStep ==
  ASSUME StreamInv, ClientOpen
  PROVE  StreamInv'
<1> PICK new : new = client + 1
  OBVIOUS
<1>1. /\ TypeOK /\ WriterInv /\ ReaderInv /\ InOrder /\ Drained
      /\ \A c \in Attached : Unread(c)
  BY DEF StreamInv
<1>2. /\ cpc = "closed" /\ cpc' = "open" /\ rpc # "closed"
      /\ client < MAX_CLIENTS /\ client' = new
      /\ Len(backlog) < BACKLOG /\ backlog' = Append(backlog, new)
      /\ wobj' = Ping /\ last_id' = 0
      /\ UNCHANGED <<stream, finished, svars, outbox, cfd, rvars, sent, received>>
  BY DEF ClientOpen
<1>3. /\ client \in Nat /\ new \in Nat /\ new \in Connections /\ new # 0 /\ new > client
      /\ \A c \in Connections : /\ c \in Nat /\ (c < new <=> c <= client) /\ ~(c < client /\ c = new)
                                /\ (c <= new <=> c <= client \/ c = new)
                                /\ (c > new => c > client)
                                /\ (c <= client <=> c < client \/ c = client)
  <2>1. client \in 0..MAX_CLIENTS /\ MAX_CLIENTS \in Nat
    BY <1>1, StreamAssumption DEF TypeOK
  <2>2. /\ client \in Nat /\ new \in Nat /\ new # 0 /\ new > client
        /\ new \in Connections
    BY <1>2, <2>1 DEF Connections
  <2> QED BY <2>1, <2>2 DEF Connections
<1>4. /\ backlog \in Seq(Connections) /\ Len(backlog) \in Nat /\ DOMAIN backlog = 1..Len(backlog)
      /\ backlog' \in Seq(Connections) /\ Len(backlog') = Len(backlog) + 1
      /\ DOMAIN backlog' = 1..(Len(backlog) + 1)
      /\ backlog'[Len(backlog) + 1] = new /\ \A k \in 1..Len(backlog) : backlog'[k] = backlog[k]
  BY <1>1, <1>2, <1>3 DEF TypeOK
<1>5. \A c : c \in Attached' <=> c \in Attached \/ c = new
  <2>1. \A c : c \in Attached <=>
          c \in Connections /\ (c = cfd \/ \E k \in 1..Len(backlog) : backlog[k] = c)
    BY <1>1, Attachments
  <2>2. \A c : c \in Attached' <=>
          c \in Connections /\ (c = cfd \/ \E k \in 1..(Len(backlog) + 1) : backlog'[k] = c)
    BY <1>2, <1>4 DEF Attached
  <2>3. ASSUME NEW c \in Connections, NEW k \in 1..(Len(backlog) + 1), backlog'[k] = c
        PROVE  c = new \/ \E l \in 1..Len(backlog) : backlog[l] = c
    BY <1>4, <2>3
  <2>4. ASSUME NEW c \in Connections, NEW k \in 1..Len(backlog), backlog[k] = c
        PROVE  \E l \in 1..(Len(backlog) + 1) : backlog'[l] = c
    BY <1>4, <2>4
  <2>5. Len(backlog) + 1 \in 1..(Len(backlog) + 1)
    BY <1>4
  <2> QED BY <1>3, <1>4, <2>1, <2>2, <2>3, <2>4, <2>5
<1>6. /\ \A k \in 1..Len(backlog) : backlog[k] \in Attached
      /\ cfd # 0 => cfd \in Attached /\ cfd \in Connections
      /\ \A c \in Attached : c \in Connections /\ c <= client /\ c \notin reset
  <2>1. cfd # 0 => cfd \in Connections
    BY <1>1, StreamAssumption DEF TypeOK, Connections
  <2> QED BY <1>1, <2>1, Attachments DEF ReaderInv
<1>7. new # cfd /\ \A k \in 1..Len(backlog) : backlog[k] # new
  BY <1>3, <1>6
<1>8. TypeOK'
  <2>1. Len(backlog') <= BACKLOG
    BY <1>2, <1>4, StreamAssumption
  <2>2. client' \in 0..MAX_CLIENTS /\ last_id' \in 0..MAX_ID
    BY <1>2, <1>3, StreamAssumption DEF Connections
  <2> QED BY <1>1, <1>2, <1>4, <2>1, <2>2 DEF TypeOK, svars, rvars
<1>9. WriterInv'
  BY <1>1, <1>2, <1>3 DEF WriterInv, svars
<1>10. ReaderInv'
  <2>1. \A c \in Attached' : c <= client' /\ c \notin reset'
    <3>1. new <= client' /\ new \notin reset
      BY <1>1, <1>2, <1>3 DEF WriterInv
    <3>2. \A c \in Attached : c <= client'
      BY <1>2, <1>3, <1>6
    <3> QED BY <1>2, <1>5, <1>6, <3>1, <3>2 DEF svars
  <2>2. \A i, j \in DOMAIN backlog' : backlog'[i] = backlog'[j] => i = j
    BY <1>1, <1>4, <1>7 DEF ReaderInv
  <2>3. \A i \in DOMAIN backlog' : backlog'[i] # cfd'
    BY <1>1, <1>2, <1>4, <1>7 DEF ReaderInv
  <2> QED BY <1>1, <1>2, <2>1, <2>2, <2>3 DEF ReaderInv, rvars
<1>11. InOrder'
  BY <1>1, <1>2 DEF InOrder
<1>12. Drained'
  BY <1>1, <1>2, <1>3, <1>5 DEF Drained, Dropped, svars
<1>13. ASSUME NEW c \in Attached PROVE Unread(c)'
  <2>1. c # client'
    BY <1>2, <1>3, <1>6
  <2>2. \A tail \in Seq(Nat) : WriterTail(c, tail)'
    BY <2>1 DEF WriterTail
  <2>3. Ahead(c)' = Ahead(c)
    BY <1>2 DEF Ahead, Taken, rvars
  <2> QED BY <1>1, <1>2, <2>2, <2>3, UnreadKept
<1>14. Unread(new)'
  <2>1. stream[new] = << >> /\ sent[new] = << >> /\ received[new] = << >>
    BY <1>1, <1>3 DEF WriterInv
  <2>2. Ahead(new)' = << >>
    BY <1>2, <1>7, <2>1 DEF Ahead
  <2>3. Carries(<< >>, sent[new], Len(sent[new]), << >>)
    BY <1>1, <1>3, Histories, NothingPartial, CutNothing
  <2>4. Carries(Ahead(new)', sent'[new], Len(received'[new]), << >>)
    BY <1>2, <2>1, <2>2, <2>3
  <2>5. WriterTail(new, << >>)'
    BY <1>2 DEF WriterTail
  <2> QED BY <2>4, <2>5, NothingPartial DEF Unread
<1> QED BY <1>5, <1>8, <1>9, <1>10, <1>11, <1>12, <1>13, <1>14 DEF StreamInv

LEMMA ClientExitStep ==
  ASSUME StreamInv, ClientExit
  PROVE  StreamInv'
<1>1. /\ TypeOK /\ WriterInv /\ ReaderInv /\ InOrder /\ Drained
      /\ \A c \in Attached : Unread(c)
  BY DEF StreamInv
<1>2. /\ cpc # "closed" /\ cpc' = "closed" /\ finished' = finished \cup {client}
      /\ outbox' = << >>
      /\ UNCHANGED <<stream, svars, backlog, client, wobj, last_id, cfd, rvars, sent, received>>
  BY DEF ClientExit
<1>3. client \in Connections
  BY <1>1, <1>2, StreamAssumption DEF TypeOK, WriterInv, Connections
<1>4. TypeOK'
  <2>1. finished' \in SUBSET Connections
    BY <1>1, <1>2, <1>3 DEF TypeOK
  <2>2. outbox' \in Seq(Nat)
    BY <1>2
  <2> QED BY <1>1, <1>2, <2>1, <2>2 DEF TypeOK, svars, rvars
<1>5. WriterInv'
  BY <1>1, <1>2 DEF WriterInv, svars
<1>6. Attached' = Attached
  BY <1>2 DEF Attached
<1>7. ReaderInv'
  BY <1>1, <1>2, <1>6 DEF ReaderInv, svars, rvars
<1>8. InOrder' /\ Drained'
  BY <1>1, <1>2, <1>6 DEF InOrder, Drained, Dropped, svars
<1>9. ASSUME NEW c \in Attached PROVE Unread(c)'
  <2>1. \A tail \in Seq(Nat) : WriterTail(c, tail)'
    BY <1>2 DEF WriterTail
  <2>2. Ahead(c)' = Ahead(c)
    BY <1>2 DEF Ahead, Taken, rvars
  <2> QED BY <1>1, <1>2, <2>1, <2>2, UnreadKept
<1> QED BY <1>4, <1>5, <1>6, <1>7, <1>8, <1>9 DEF StreamInv

\* One more message in the history of c.
LEMMA LongerHistory ==
  ASSUME NEW s \in [Connections -> Seq(Message)], NEW c \in Connections, NEW m \in Message,
         NEW t, t = [s EXCEPT ![c] = Append(@, m)]
  PROVE  /\ t \in [Connections -> Seq(Message)]
         /\ t[c] = Append(s[c], m)
         /\ Len(t[c]) = Len(s[c]) + 1 /\ t[c][Len(s[c]) + 1] = m
         /\ \A i \in 1..Len(s[c]) : t[c][i] = s[c][i]
         /\ \A d \in Connections : d # c => t[d] = s[d]
<1> DEFINE q == Append(s[c], m)
<1>1. /\ s[c] \in Seq(Message) /\ q \in Seq(Message) /\ Len(q) = Len(s[c]) + 1
      /\ q[Len(s[c]) + 1] = m /\ \A i \in 1..Len(s[c]) : q[i] = s[c][i]
  OBVIOUS
<1>2. t = [s EXCEPT ![c] = q]
  OBVIOUS
<1> HIDE DEF q
<1>3. t[c] = q /\ \A d \in Connections : d # c => t[d] = s[d]
  BY <1>2
<1>4. t \in [Connections -> Seq(Message)]
  BY <1>1, <1>2
<1> QED BY <1>1, <1>3, <1>4 DEF q

LEMMA SendResetStep ==
  ASSUME StreamInv, SendReset
  PROVE  StreamInv'
<1> PICK m : m = [id |-> last_id, obj |-> wobj]
  OBVIOUS
<1>1. /\ TypeOK /\ WriterInv /\ ReaderInv /\ InOrder /\ Drained
      /\ \A c \in Attached : Unread(c)
  BY DEF StreamInv
<1>2. /\ cpc = "send" /\ cpc' = "open" /\ client \in reset /\ outbox' = << >>
      /\ sent' = [sent EXCEPT ![client] = Append(@, m)] \/ sent' = sent
      /\ UNCHANGED <<stream, finished, svars, backlog, client, wobj, last_id, cfd, rvars, received>>
  BY DEF SendReset
<1>3. client \in Connections /\ m \in Message /\ m.obj = wobj /\ Fits(wobj, BODY_SIZE)
  BY <1>1, <1>2 DEF TypeOK, WriterInv, Message
<1>4. \A c \in Connections : c # client => sent'[c] = sent[c]
  BY <1>1, <1>2 DEF TypeOK
<1>5. \/ sent'[client] = sent[client]
      \/ /\ Len(sent'[client]) = Len(sent[client]) + 1 /\ sent'[client][Len(sent[client]) + 1] = m
         /\ \A i \in 1..Len(sent[client]) : sent'[client][i] = sent[client][i]
  <2>1. CASE sent' = sent
    BY <2>1
  <2>2. CASE sent' = [sent EXCEPT ![client] = Append(@, m)]
    <3>1. sent \in [Connections -> Seq(Message)]
      BY <1>1 DEF TypeOK
    <3> QED BY <1>3, <2>2, <3>1, LongerHistory
  <2> QED BY <1>2, <2>1, <2>2
<1>6. \A c \in Attached : c \in Connections /\ c # client
  BY <1>1, <1>2 DEF ReaderInv, Attached
<1>7. TypeOK'
  <2>1. sent' \in [Connections -> Seq(Message)]
    <3>1. sent \in [Connections -> Seq(Message)]
      BY <1>1 DEF TypeOK
    <3>2. CASE sent' = [sent EXCEPT ![client] = Append(@, m)]
      BY <1>3, <3>1, <3>2, LongerHistory
    <3> QED BY <1>2, <3>1, <3>2
  <2>2. outbox' \in Seq(Nat)
    BY <1>2
  <2> QED BY <1>1, <1>2, <2>1, <2>2 DEF TypeOK, svars, rvars
<1>8. WriterInv'
  <2>1. ASSUME NEW c \in Connections, NEW i \in 1..Len(sent'[c])
        PROVE  Fits(sent'[c][i].obj, BODY_SIZE)
    <3>1. CASE sent'[c] = sent[c]
      BY <1>1, <2>1, <3>1 DEF WriterInv
    <3>2. CASE sent'[c] # sent[c]
      <4>1. c = client /\ Len(sent[client]) \in Nat
        BY <1>1, <1>3, <1>4, <3>2, Histories
      <4>2. i \in 1..Len(sent[client]) \/ i = Len(sent[client]) + 1
        BY <1>5, <3>2, <4>1
      <4> QED BY <1>1, <1>3, <1>5, <3>2, <4>1, <4>2 DEF WriterInv
    <3> QED BY <3>1, <3>2
  <2>2. ASSUME NEW c \in Connections, c > client'
        PROVE  stream'[c] = << >> /\ sent'[c] = << >> /\ received'[c] = << >> /\ c \notin reset'
    <3>1. c > client /\ c # client
      BY <1>2, <1>3, <2>2 DEF Connections
    <3> QED BY <1>1, <1>2, <1>4, <3>1 DEF WriterInv, svars
  <2> QED BY <1>1, <1>2, <2>1, <2>2 DEF WriterInv
<1>9. Attached' = Attached
  BY <1>2 DEF Attached
<1>10. ReaderInv'
  <2>1. rpc = "accept" => sent'[cfd] = sent[cfd]
    <3>1. rpc = "accept" => cfd \in Connections /\ cfd # client
      BY <1>1, <1>6, StreamAssumption DEF ReaderInv, TypeOK, Connections, Attached
    <3> QED BY <1>4, <3>1
  <2> QED BY <1>1, <1>2, <1>9, <2>1 DEF ReaderInv, svars, rvars
<1>11. InOrder'
  <2> SUFFICES ASSUME NEW c \in Connections
               PROVE  /\ Len(received[c]) <= Len(sent'[c])
                      /\ \A i \in 1..Len(received[c]) : received[c][i] = sent'[c][i]
    BY <1>2 DEF InOrder
  <2>1. /\ Len(received[c]) <= Len(sent[c]) /\ Len(sent[c]) \in Nat /\ Len(received[c]) \in Nat
        /\ \A i \in 1..Len(received[c]) : received[c][i] = sent[c][i]
    BY <1>1, Histories DEF InOrder
  <2>2. \/ sent'[c] = sent[c]
        \/ /\ Len(sent'[c]) = Len(sent[c]) + 1
           /\ \A i \in 1..Len(sent[c]) : sent'[c][i] = sent[c][i]
    BY <1>4, <1>5
  <2> QED BY <2>1, <2>2
<1>12. Drained'
  <2>1. \A c \in Connections : Dropped(c)' => Dropped(c) /\ c # client
    BY <1>2, <1>9 DEF Dropped, svars
  <2> QED BY <1>1, <1>2, <1>4, <2>1 DEF Drained
<1>13. ASSUME NEW c \in Attached PROVE Unread(c)'
  <2>1. \A tail \in Seq(Nat) : WriterTail(c, tail)'
    BY <1>2, <1>6 DEF WriterTail
  <2>2. Ahead(c)' = Ahead(c)
    BY <1>2 DEF Ahead, Taken, rvars
  <2> QED BY <1>1, <1>2, <1>4, <1>6, <2>1, <2>2, UnreadKept
<1> QED BY <1>7, <1>8, <1>9, <1>10, <1>11, <1>12, <1>13 DEF StreamInv

\* send() lengthens the beginning of its message; with the last cell it becomes
\* one more message of the stream.
LEMMA SendStep ==
  ASSUME StreamInv, NEW n \in Pieces, Send(n)
  PROVE  StreamInv'
<1>d. PICK m : m = [id |-> last_id, obj |-> wobj]
  OBVIOUS
<1>a. PICK out : out = outbox
  OBVIOUS
<1>b. PICK x : x = SubSeq(out, 1, n)
  OBVIOUS
<1>c. PICK y : y = SubSeq(out, n + 1, Len(out))
  OBVIOUS
<1>1. /\ TypeOK /\ WriterInv /\ ReaderInv /\ InOrder /\ Drained
      /\ \A c \in Attached : Unread(c)
  BY DEF StreamInv
<1>2. /\ cpc = "send" /\ client \notin reset /\ n <= Len(out) /\ outbox = out
      /\ stream' = [stream EXCEPT ![client] = @ \o x]
      /\ outbox' = y
      /\ \/ n < Len(out) /\ cpc' = cpc /\ sent' = sent
         \/ n = Len(out) /\ cpc' = "open" /\ sent' = [sent EXCEPT ![client] = Append(@, m)]
      /\ UNCHANGED <<finished, svars, backlog, client, wobj, last_id, cfd, rvars, received>>
  BY <1>a, <1>b, <1>c, <1>d DEF Send
<1>3. /\ client \in Connections /\ m \in Message /\ m \in Sendable /\ m.obj = wobj /\ m.id = last_id
      /\ Fits(wobj, BODY_SIZE) /\ wobj \in DataObject /\ last_id \in Nat
  BY <1>1, <1>2, <1>d, StreamAssumption DEF TypeOK, WriterInv, Message, Sendable, Connections
<1>4. /\ out \in Seq(Nat) /\ n \in Nat /\ x \in Seq(Nat) /\ y \in Seq(Nat)
      /\ Len(x) = n /\ Len(y) = Len(out) - n /\ out = x \o y
  <2>1. out \in Seq(Nat) /\ n \in Nat /\ n <= Len(out)
    BY <1>1, <1>2 DEF TypeOK, Pieces
  <2>2. /\ SubSeq(out, 1, n) \in Seq(Nat) /\ Len(SubSeq(out, 1, n)) = n
        /\ SubSeq(out, n + 1, Len(out)) \in Seq(Nat)
        /\ Len(SubSeq(out, n + 1, Len(out))) = Len(out) - n
        /\ out = SubSeq(out, 1, n) \o SubSeq(out, n + 1, Len(out))
    BY <2>1, SplitCells
  <2> QED BY <1>b, <1>c, <2>1, <2>2
<1>5. client \in Attached
  <2>1. client \notin finished /\ client <= client
    BY <1>1, <1>2, <1>3, StreamAssumption DEF WriterInv, Connections
  <2> QED BY <1>1, <1>2, <1>3, <2>1 DEF Drained, Dropped
<1>6. /\ \A c \in Connections : c # client => sent'[c] = sent[c] /\ stream'[c] = stream[c]
      /\ stream'[client] = stream[client] \o x
  BY <1>1, <1>2, <1>3 DEF TypeOK
<1>7. \/ sent'[client] = sent[client] /\ n < Len(out) /\ cpc' = "send"
      \/ /\ sent'[client] = Append(sent[client], m) /\ n = Len(out) /\ cpc' = "open"
         /\ Len(sent'[client]) = Len(sent[client]) + 1 /\ sent'[client][Len(sent[client]) + 1] = m
         /\ \A i \in 1..Len(sent[client]) : sent'[client][i] = sent[client][i]
  <2>1. sent \in [Connections -> Seq(Message)]
    BY <1>1 DEF TypeOK
  <2>2. CASE n < Len(out) /\ cpc' = cpc /\ sent' = sent
    BY <1>2, <2>2
  <2>3. CASE n = Len(out) /\ cpc' = "open" /\ sent' = [sent EXCEPT ![client] = Append(@, m)]
    BY <1>3, <2>1, <2>3, LongerHistory
  <2> QED BY <1>2, <2>2, <2>3
<1>8. TypeOK'
  <2>1. sent' \in [Connections -> Seq(Message)]
    <3>1. sent \in [Connections -> Seq(Message)]
      BY <1>1 DEF TypeOK
    <3>2. CASE sent' = [sent EXCEPT ![client] = Append(@, m)]
      BY <1>3, <3>1, <3>2, LongerHistory
    <3> QED BY <1>2, <3>1, <3>2
  <2>2. stream' \in [Connections -> Seq(Nat)]
    <3>1. stream[client] \o x \in Seq(Nat)
      BY <1>1, <1>3, <1>4, Histories, ConcatProperties
    <3> QED BY <1>1, <1>2, <1>3, <3>1 DEF TypeOK
  <2>3. cpc' \in {"closed", "open", "send"}
    BY <1>2
  <2> QED BY <1>1, <1>2, <1>4, <2>1, <2>2, <2>3 DEF TypeOK, svars, rvars
<1>9. WriterInv'
  <2>1. ASSUME NEW c \in Connections, NEW i \in 1..Len(sent'[c])
        PROVE  Fits(sent'[c][i].obj, BODY_SIZE)
    <3>1. CASE sent'[c] = sent[c]
      BY <1>1, <2>1, <3>1 DEF WriterInv
    <3>2. CASE sent'[c] # sent[c]
      <4>1. c = client /\ Len(sent[client]) \in Nat
        BY <1>1, <1>3, <1>6, <3>2, Histories
      <4>2. i \in 1..Len(sent[client]) \/ i = Len(sent[client]) + 1
        BY <1>7, <3>2, <4>1
      <4> QED BY <1>1, <1>3, <1>7, <3>2, <4>1, <4>2 DEF WriterInv
    <3> QED BY <3>1, <3>2
  <2>2. ASSUME NEW c \in Connections, c > client'
        PROVE  stream'[c] = << >> /\ sent'[c] = << >> /\ received'[c] = << >> /\ c \notin reset'
    <3>1. c > client /\ c # client
      BY <1>2, <1>3, <2>2 DEF Connections
    <3> QED BY <1>1, <1>2, <1>6, <3>1 DEF WriterInv, svars
  <2>3. /\ cpc' # "send" => outbox' = << >>
        /\ cpc' = "send" => outbox' # << >>
    <3>1. Len(out) \in Nat /\ (y = << >> <=> Len(y) = 0)
      <4>1. out \in Seq(Nat) /\ y \in Seq(Nat)
        BY <1>4
      <4> QED BY <4>1
    <3>2. Len(y) = 0 <=> n = Len(out)
      BY <1>4, <3>1
    <3>3. cpc' = "send" <=> n < Len(out)
      BY <1>2, <1>4, <3>1
    <3> QED BY <1>2, <1>4, <3>1, <3>2, <3>3
  <2>4. cpc' # "closed"
    BY <1>2
  <2> QED BY <1>1, <1>2, <2>1, <2>2, <2>3, <2>4 DEF WriterInv
<1>10. Attached' = Attached
  BY <1>2 DEF Attached
<1>11. ReaderInv'
  <2>1. rpc = "accept" => sent'[cfd] = sent[cfd] /\ stream'[cfd] = stream[cfd]
    <3>1. rpc = "accept" => cfd \in Connections /\ cfd # client
      <4>1. client \notin finished /\ (rpc = "accept" => cfd \in finished)
        BY <1>1, <1>2, <1>3, StreamAssumption DEF WriterInv, ReaderInv, Connections
      <4> QED BY <1>1, <4>1 DEF TypeOK
    <3> QED BY <1>6, <3>1
  <2> QED BY <1>1, <1>2, <1>10, <2>1 DEF ReaderInv, svars, rvars
<1>12. InOrder'
  <2> SUFFICES ASSUME NEW c \in Connections
               PROVE  /\ Len(received[c]) <= Len(sent'[c])
                      /\ \A i \in 1..Len(received[c]) : received[c][i] = sent'[c][i]
    BY <1>2 DEF InOrder
  <2>1. /\ Len(received[c]) <= Len(sent[c]) /\ Len(sent[c]) \in Nat /\ Len(received[c]) \in Nat
        /\ \A i \in 1..Len(received[c]) : received[c][i] = sent[c][i]
    BY <1>1, Histories DEF InOrder
  <2>2. \/ sent'[c] = sent[c]
        \/ /\ Len(sent'[c]) = Len(sent[c]) + 1
           /\ \A i \in 1..Len(sent[c]) : sent'[c][i] = sent[c][i]
    BY <1>6, <1>7
  <2> QED BY <2>1, <2>2
<1>13. Drained'
  <2>1. \A c \in Connections : Dropped(c)' => Dropped(c) /\ c # client
    BY <1>2, <1>5, <1>10 DEF Dropped, svars
  <2> QED BY <1>1, <1>2, <1>6, <2>1 DEF Drained
<1>14. ASSUME NEW c \in Attached, c # client PROVE Unread(c)'
  <2>1. \A tail \in Seq(Nat) : WriterTail(c, tail)'
    BY <1>2, <1>14 DEF WriterTail
  <2>2. c \in Connections
    BY DEF Attached
  <2>3. Ahead(c)' = Ahead(c)
    BY <1>2, <1>6, <1>14, <2>2 DEF Ahead, Taken, rvars
  <2> QED BY <1>1, <1>2, <1>6, <1>14, <2>1, <2>2, <2>3, UnreadKept
<1>15. PICK c : c = client
  OBVIOUS
<1>16. Unread(c)'
  <2> PICK r : r = Len(received[c])
    OBVIOUS
  <2>1. PICK tail \in Seq(Nat) : /\ Carries(Ahead(c), sent[c], r, tail)
                                 /\ Partial(tail) /\ WriterTail(c, tail)
    BY <1>1, <1>5, <1>15 DEF Unread
  <2>a. PICK longer : longer = tail \o x
    OBVIOUS
  <2>2. /\ Ahead(c) \in Seq(Nat) /\ sent[c] \in Seq(Sendable) /\ r \in 0..Len(sent[c])
        /\ Taken \in Seq(Nat) /\ stream[c] \in Seq(Nat)
    BY <1>1, <1>3, <1>15, AheadType, Histories, TakenType DEF InOrder
  <2>3. Ahead(c)' = Ahead(c) \o x
    <3>1. Taken' = Taken
      BY <1>2 DEF Taken, rvars
    <3>2. (Taken \o stream[c]) \o x = Taken \o (stream[c] \o x)
      <4>a. PICK a : a = Taken
        OBVIOUS
      <4>b. PICK b : b = stream[c]
        OBVIOUS
      <4>1. a \in Seq(Nat) /\ b \in Seq(Nat) /\ x \in Seq(Nat)
        BY <1>4, <2>2, <4>a, <4>b
      <4>2. (a \o b) \o x = a \o (b \o x)
        BY ONLY <4>1, Associative
      <4> QED BY <4>2, <4>a, <4>b
    <3> HIDE DEF Taken
    <3> QED BY <1>2, <1>6, <1>15, <3>1, <3>2 DEF Ahead
  <2>4. Carries(Ahead(c)', sent[c], r, longer) /\ longer \in Seq(Nat)
    <3>1. tail \o x \in Seq(Nat)
      BY <1>4, ConcatProperties
    <3>2. Carries(Ahead(c) \o x, sent[c], r, tail \o x)
      BY <1>4, <2>1, <2>2, CutGrows
    <3> QED BY <2>a, <2>3, <3>1, <3>2
  <2>5. /\ longer \o y = Wire(last_id, wobj)
        /\ y # << >> => /\ Len(longer) < Len(Wire(last_id, wobj))
                       /\ \A k \in 1..Len(longer) : longer[k] = Wire(last_id, wobj)[k]
        /\ y = << >> => longer = Wire(last_id, wobj)
    <3>1. tail \o out = Wire(last_id, wobj)
      BY <1>2, <1>15, <2>1 DEF WriterTail
    <3>2. (tail \o x) \o y = tail \o (x \o y)
      BY <1>4, Associative
    <3>3. longer \o y = Wire(last_id, wobj)
      BY <1>4, <2>a, <3>1, <3>2
    <3>4. /\ y # << >> => /\ Len(longer) < Len(longer \o y)
                         /\ \A k \in 1..Len(longer) : longer[k] = (longer \o y)[k]
          /\ y = << >> => longer \o y = longer
      BY <1>4, <2>4, Beginning
    <3> QED BY <3>3, <3>4
  <2>6. CASE cpc' = "send"
    <3>1. Partial(longer)
      <4>1. y # << >>
        BY <1>2, <1>9, <2>6 DEF WriterInv
      <4> QED BY <1>3, <2>5, <4>1 DEF Partial
    <3>2. WriterTail(c, longer)'
      BY <1>2, <2>5, <2>6 DEF WriterTail
    <3>3. Carries(Ahead(c)', sent'[c], Len(received'[c]), longer)
      BY <1>2, <1>7, <1>15, <2>4, <2>6
    <3> QED BY <2>4, <3>1, <3>2, <3>3 DEF Unread
  <2>7. CASE cpc' = "open"
    <3>1. longer = WireCells(m)
      <4>1. y = << >>
        BY <1>2, <1>9, <2>7 DEF WriterInv
      <4> QED BY <1>3, <2>5, <4>1 DEF WireCells
    <3>2. Carries(Ahead(c)', Append(sent[c], m), r, << >>)
      <4>1. Ahead(c)' \in Seq(Nat)
        BY <1>4, <2>2, <2>3, ConcatProperties
      <4> QED BY <1>3, <2>2, <2>4, <3>1, <4>1, CutMessage
    <3>3. Carries(Ahead(c)', sent'[c], Len(received'[c]), << >>)
      BY <1>2, <1>7, <1>15, <2>7, <3>2
    <3>4. WriterTail(c, << >>)'
      BY <2>7 DEF WriterTail
    <3> QED BY <3>3, <3>4, NothingPartial DEF Unread
  <2> QED BY <1>7, <2>6, <2>7
<1> QED BY <1>8, <1>9, <1>10, <1>11, <1>12, <1>13, <1>14, <1>15, <1>16 DEF StreamInv

-----------------------------------------------------------------------------
(* The steps of the reading process. *)

LEMMA ServerOpenStep ==
  ASSUME StreamInv, ServerOpen
  PROVE  StreamInv'
<1>1. /\ TypeOK /\ WriterInv /\ ReaderInv /\ InOrder /\ Drained
      /\ \A c \in Attached : Unread(c)
  BY DEF StreamInv
<1>2. /\ rpc = "closed" /\ rpc' = "await" /\ runs < MAX_RUNS /\ runs' = runs + 1
      /\ UNCHANGED <<stream, finished, reset, backlog, wvars, cfd, amount, header, rbuf,
                     sent, received>>
  BY DEF ServerOpen
<1>3. TypeOK'
  <2>1. runs' \in 0..MAX_RUNS
    BY <1>1, <1>2, StreamAssumption DEF TypeOK
  <2> QED BY <1>1, <1>2, <2>1 DEF TypeOK, wvars, ReaderStates
<1>4. WriterInv'
  BY <1>1, <1>2 DEF WriterInv, wvars
<1>5. Attached' = {}
  BY <1>1, <1>2 DEF Attached, ReaderInv, TypeOK, Connections
<1>6. ReaderInv'
  BY <1>1, <1>2, <1>5 DEF ReaderInv, wvars
<1>7. Attached = {}
  BY <1>1, <1>2 DEF Attached, ReaderInv, TypeOK, Connections
<1>8. InOrder' /\ Drained'
  BY <1>1, <1>2, <1>5, <1>7 DEF InOrder, Drained, Dropped, wvars
<1> QED BY <1>3, <1>4, <1>5, <1>6, <1>8 DEF StreamInv

LEMMA ServerStopStep ==
  ASSUME StreamInv, ServerStop
  PROVE  StreamInv'
<1>1. /\ TypeOK /\ WriterInv /\ ReaderInv /\ InOrder /\ Drained
      /\ \A c \in Attached : Unread(c)
  BY DEF StreamInv
<1>2. /\ rpc' = "closed" /\ reset' = reset \cup Attached
      /\ stream' = [c \in Connections |-> IF c \in Attached THEN << >> ELSE stream[c]]
      /\ backlog' = << >> /\ cfd' = 0
      /\ amount' = 0 /\ header' = ZeroHeader /\ rbuf' = [k \in BufferIx |-> 0]
      /\ UNCHANGED <<finished, runs, wvars, sent, received>>
  BY DEF ServerStop
<1>3. Attached' = {} /\ Attached \subseteq Connections
  BY <1>2 DEF Attached, Connections
<1>4. TypeOK'
  <2>1. /\ header' \in [id : Nat, type : Nat, body_size : Nat] /\ rbuf' \in [BufferIx -> Nat]
        /\ amount' \in 0..(HEADER_SIZE + BODY_SIZE)
    BY <1>2, StreamAssumption DEF ZeroHeader, DataHeader, INVALID, HEADER_SIZE
  <2>2. stream' \in [Connections -> Seq(Nat)]
    <3>1. \A c \in Connections : (IF c \in Attached THEN << >> ELSE stream[c]) \in Seq(Nat)
      BY <1>1 DEF TypeOK
    <3> QED BY <1>2, <3>1
  <2>3. backlog' \in Seq(Connections) /\ Len(backlog') <= BACKLOG /\ cfd' \in 0..MAX_CLIENTS
    BY <1>2, StreamAssumption
  <2>4. reset' \in SUBSET Connections
    BY <1>1, <1>2, <1>3 DEF TypeOK
  <2> QED BY <1>1, <1>2, <2>1, <2>2, <2>3, <2>4 DEF TypeOK, wvars, ReaderStates
<1>5. WriterInv'
  <2>1. ASSUME NEW c \in Connections, c > client
        PROVE  stream'[c] = << >> /\ sent'[c] = << >> /\ received'[c] = << >> /\ c \notin reset'
    <3>1. ~(c <= client)
      BY <1>1, <2>1, StreamAssumption DEF TypeOK, Connections
    <3>2. c \notin Attached
      BY <1>1, <3>1 DEF ReaderInv
    <3> QED BY <1>1, <1>2, <2>1, <3>2 DEF WriterInv
  <2> QED BY <1>1, <1>2, <2>1 DEF WriterInv, wvars
<1>6. ReaderInv'
  BY <1>2, <1>3 DEF ReaderInv
<1>7. InOrder'
  BY <1>1, <1>2 DEF InOrder
<1>8. Drained'
  BY <1>1, <1>2 DEF Drained, Dropped, wvars
<1> QED BY <1>3, <1>4, <1>5, <1>6, <1>7, <1>8 DEF StreamInv

\* accept() leaves a connection only when it was at its end.
LEMMA AcceptStep ==
  ASSUME StreamInv, AwaitAccept \/ ServerAccept
  PROVE  StreamInv'
<1>1. /\ TypeOK /\ WriterInv /\ ReaderInv /\ InOrder /\ Drained
      /\ \A c \in Attached : Unread(c)
  BY DEF StreamInv
<1>2. /\ (rpc = "await" /\ cfd = 0) \/ rpc = "accept"
      /\ \/ /\ backlog # << >> /\ cfd' = Head(backlog) /\ backlog' = Tail(backlog)
            /\ rpc' \in {"await", "poll"}
         \/ backlog = << >> /\ cfd' = 0 /\ backlog' = backlog /\ rpc' = "await"
      /\ UNCHANGED <<stream, finished, svars, wvars, amount, header, rbuf, sent, received>>
  BY DEF AwaitAccept, ServerAccept, AcceptNext
<1>2a. rpc' \in {"await", "poll"} /\ (rpc' = "poll" => cfd' # 0)
  <2>1. \A c \in Connections : c # 0
    BY StreamAssumption DEF Connections
  <2>2. backlog # << >> => Head(backlog) \in Connections
    BY <1>1 DEF TypeOK
  <2> QED BY <1>2, <2>1, <2>2
<1>3. /\ backlog \in Seq(Connections) /\ Len(backlog) \in Nat /\ DOMAIN backlog = 1..Len(backlog)
      /\ Len(backlog) <= BACKLOG
  BY <1>1 DEF TypeOK
<1>4. /\ backlog' \in Seq(Connections) /\ Len(backlog') <= Len(backlog) /\ Len(backlog') \in Nat
      /\ DOMAIN backlog' = 1..Len(backlog')
      /\ \A k \in 1..Len(backlog') : k + 1 \in 1..Len(backlog) /\ backlog'[k] = backlog[k + 1]
      /\ \A k \in 1..Len(backlog) : k = 1 \/ (k - 1 \in 1..Len(backlog') /\ backlog'[k - 1] = backlog[k])
      /\ cfd' # 0 => /\ Len(backlog) > 0 /\ cfd' = backlog[1] /\ cfd' \in Connections
      /\ cfd' = 0 => Len(backlog) = 0
  <2>1. CASE backlog # << >> /\ cfd' = Head(backlog) /\ backlog' = Tail(backlog)
    <3>1. /\ Len(backlog) > 0 /\ cfd' = backlog[1] /\ cfd' \in Connections /\ cfd' # 0
      BY <1>3, <2>1, StreamAssumption DEF Connections
    <3>2. /\ backlog' \in Seq(Connections) /\ Len(backlog') = Len(backlog) - 1
          /\ \A k \in 1..Len(backlog') : backlog'[k] = backlog[k + 1]
      BY <1>3, <2>1, HeadTailProperties
    <3>3. DOMAIN backlog' = 1..Len(backlog')
      BY <3>2
    <3>4. \A k \in 1..Len(backlog) : k = 1 \/ (k - 1 \in 1..Len(backlog') /\ (k - 1) + 1 = k)
      BY <1>3, <3>2
    <3>5. \A k \in 1..Len(backlog') : k + 1 \in 1..Len(backlog)
      BY <1>3, <3>2
    <3>6. Len(backlog') <= Len(backlog) /\ Len(backlog') \in Nat
      BY <1>3, <3>1, <3>2
    <3> QED BY <3>1, <3>2, <3>3, <3>4, <3>5, <3>6
  <2>2. CASE backlog = << >> /\ cfd' = 0 /\ backlog' = backlog
    BY <1>3, <2>2
  <2> QED BY <1>2, <2>1, <2>2
<1>5. \A c : c \in Attached' <=> c \in Connections /\ \E k \in 1..Len(backlog) : backlog[k] = c
  <2>1. \A c : c \in Attached' <=>
          c \in Connections /\ (c = cfd' \/ \E k \in 1..Len(backlog') : backlog'[k] = c)
    BY <1>4 DEF Attached
  <2>2. ASSUME NEW c \in Connections, c = cfd' PROVE \E k \in 1..Len(backlog) : backlog[k] = c
    <3>1. cfd' # 0
      BY <2>2, StreamAssumption DEF Connections
    <3>2. 1 \in 1..Len(backlog)
      BY <1>3, <1>4, <3>1
    <3> QED BY <1>4, <2>2, <3>1, <3>2
  <2>3. ASSUME NEW c \in Connections, NEW k \in 1..Len(backlog'), backlog'[k] = c
        PROVE  \E l \in 1..Len(backlog) : backlog[l] = c
    BY <1>4, <2>3
  <2>4. ASSUME NEW c \in Connections, NEW k \in 1..Len(backlog), backlog[k] = c
        PROVE  c = cfd' \/ \E l \in 1..Len(backlog') : backlog'[l] = c
    <3>1. Len(backlog) # 0
      BY <1>3
    <3> QED BY <1>4, <2>4, <3>1
  <2> QED BY <2>1, <2>2, <2>3, <2>4
<1>6. \A c : c \in Attached <=> c \in Attached' \/ (c = cfd /\ c \in Connections)
  BY <1>1, <1>5, Attachments
<1>7. TypeOK'
  <2>1. Len(backlog') <= BACKLOG
    BY <1>3, <1>4, StreamAssumption
  <2>2. cfd' \in 0..MAX_CLIENTS
    <3>1. cfd' = 0 \/ cfd' \in Connections
      BY <1>4
    <3> QED BY <3>1, StreamAssumption DEF Connections
  <2>3. rpc' \in ReaderStates
    BY <1>2a DEF ReaderStates
  <2> QED BY <1>1, <1>2, <1>4, <2>1, <2>2, <2>3 DEF TypeOK, svars, wvars
<1>8. WriterInv'
  BY <1>1, <1>2 DEF WriterInv, svars, wvars
<1>9. ReaderInv'
  <2>1. \A c \in Attached' : c <= client' /\ c \notin reset'
    BY <1>1, <1>2, <1>6 DEF ReaderInv, svars, wvars
  <2>2. \A i, j \in DOMAIN backlog' : backlog'[i] = backlog'[j] => i = j
    <3> SUFFICES ASSUME NEW i \in 1..Len(backlog'), NEW j \in 1..Len(backlog'), backlog'[i] = backlog'[j]
                 PROVE  i = j
      BY <1>4
    <3>1. backlog[i + 1] = backlog[j + 1] /\ i + 1 \in 1..Len(backlog) /\ j + 1 \in 1..Len(backlog)
      BY <1>4
    <3>2. i + 1 = j + 1
      BY <1>1, <1>3, <3>1 DEF ReaderInv
    <3> QED BY <3>2
  <2>3. \A i \in DOMAIN backlog' : backlog'[i] # cfd'
    <3> SUFFICES ASSUME NEW i \in 1..Len(backlog'), backlog'[i] = cfd'
                 PROVE  FALSE
      BY <1>4
    <3>1. i + 1 \in 1..Len(backlog) /\ backlog[i + 1] = cfd' /\ backlog[i + 1] \in Connections
      BY <1>3, <1>4
    <3>2. cfd' # 0
      BY <3>1, StreamAssumption DEF Connections
    <3>3. backlog[i + 1] = backlog[1] /\ 1 \in 1..Len(backlog)
      BY <1>3, <1>4, <3>1, <3>2
    <3>4. i + 1 = 1
      BY <1>1, <1>3, <3>1, <3>3 DEF ReaderInv
    <3> QED BY <3>4
  <2>4. rpc' \in {"await", "poll"} /\ (rpc' = "poll" => cfd' # 0)
    BY <1>2a
  <2> QED BY <2>1, <2>2, <2>3, <2>4 DEF ReaderInv
<1>10. InOrder'
  BY <1>1, <1>2 DEF InOrder
<1>11. Drained'
  <2> SUFFICES ASSUME NEW c \in Connections, Dropped(c)'
               PROVE  c \in finished' /\ received'[c] = sent'[c]
    BY DEF Drained
  <2>1. c <= client /\ c \notin Attached' /\ c \notin reset
    BY <1>2 DEF Dropped, svars, wvars
  <2>2. CASE c \notin Attached
    BY <1>1, <1>2, <2>1, <2>2 DEF Drained, Dropped
  <2>3. CASE c \in Attached
    <3>1. c = cfd /\ c # 0
      BY <1>6, <2>1, <2>3, StreamAssumption DEF Connections
    <3>2. rpc = "accept"
      BY <1>2, <3>1
    <3> QED BY <1>1, <1>2, <3>1, <3>2 DEF ReaderInv
  <2> QED BY <2>2, <2>3
<1>12. ASSUME NEW c \in Attached' PROVE Unread(c)'
  <2>1. c \in Attached /\ c \in Connections /\ c # cfd
    BY <1>1, <1>3, <1>5, <1>6 DEF ReaderInv
  <2>2. Ahead(c) = stream[c] /\ stream[c] \in Seq(Nat)
    BY <1>1, <2>1, Histories DEF Ahead
  <2>3. Taken' = << >>
    BY <1>2 DEF Taken, TakenCells
  <2>4. Ahead(c)' = stream[c]
    <3>1. Ahead(c)' = stream'[c] \/ Ahead(c)' = Taken' \o stream'[c]
      BY DEF Ahead
    <3> QED BY <1>2, <2>2, <2>3, <3>1
  <2>5. \A tail \in Seq(Nat) : WriterTail(c, tail) => WriterTail(c, tail)'
    BY <1>2 DEF WriterTail, wvars
  <2> QED BY <1>1, <1>2, <2>1, <2>2, <2>4, <2>5, UnreadKept
<1> QED BY <1>7, <1>8, <1>9, <1>10, <1>11, <1>12 DEF StreamInv

\* The steps in which read() has taken nothing of a message.
LEMMA PollStep ==
  ASSUME StreamInv, AwaitPoll \/ RecvHeaderEmpty
  PROVE  StreamInv'
<1>1. /\ TypeOK /\ WriterInv /\ ReaderInv /\ InOrder /\ Drained
      /\ \A c \in Attached : Unread(c)
  BY DEF StreamInv
<1>2. /\ rpc \in {"await", "poll"} \/ (rpc = "header" /\ amount = 0)
      /\ rpc' \in {"await", "header"} /\ amount' = 0 /\ cfd # 0
      /\ UNCHANGED <<stream, finished, svars, backlog, wvars, cfd, header, rbuf, sent, received>>
  BY <1>1 DEF AwaitPoll, RecvHeaderEmpty, ReaderInv
<1>3. TypeOK'
  <2>1. amount' \in 0..(HEADER_SIZE + BODY_SIZE) /\ rpc' \in ReaderStates
    BY <1>2, StreamAssumption DEF HEADER_SIZE, ReaderStates
  <2> QED BY <1>1, <1>2, <2>1 DEF TypeOK, svars, wvars
<1>4. WriterInv'
  BY <1>1, <1>2 DEF WriterInv, svars, wvars
<1>5. Attached' = Attached
  BY <1>2 DEF Attached
<1>6. ReaderInv'
  BY <1>1, <1>2, <1>5 DEF ReaderInv, svars, wvars, HEADER_SIZE
<1>7. InOrder' /\ Drained'
  BY <1>1, <1>2, <1>5 DEF InOrder, Drained, Dropped, svars, wvars
<1>8. Taken = << >> /\ Taken' = << >>
  <2>1. \A k \in 1..0 : FALSE
    OBVIOUS
  <2>2. \A b : [k \in 1..0 |-> b[k]] = << >>
    OBVIOUS
  <2> QED BY <1>2, <2>2 DEF Taken, TakenCells
<1>9. ASSUME NEW c \in Attached PROVE Unread(c)'
  <2>1. \A tail \in Seq(Nat) : WriterTail(c, tail) => WriterTail(c, tail)'
    BY <1>2 DEF WriterTail, wvars
  <2>2. Ahead(c)' = Ahead(c)
    BY <1>2, <1>8 DEF Ahead
  <2> QED BY <1>1, <1>2, <2>1, <2>2, UnreadKept
<1> QED BY <1>3, <1>4, <1>5, <1>6, <1>7, <1>9 DEF StreamInv

-----------------------------------------------------------------------------
(* The steps of read(). *)

\* The connection that read() serves: what is in front of its cells.
LEMMA Served ==
  ASSUME StreamInv, rpc \in {"header", "body"},
         NEW s, s = Ahead(cfd), NEW q, q = sent[cfd], NEW r, r = Len(received[cfd])
  PROVE  /\ cfd \in Connections /\ cfd \in Attached
         /\ s \in Seq(Nat) /\ q \in Seq(Sendable) /\ q \in Seq(Message) /\ r \in 0..Len(q)
         /\ received[cfd] \in Seq(Message)
         /\ InFront(s, q, r)
<1>1. TypeOK /\ InOrder /\ cfd # 0 /\ cfd \in 0..MAX_CLIENTS
  BY DEF StreamInv, ReaderInv, TypeOK
<1>2. cfd \in Connections /\ cfd \in Attached
  <2>1. cfd \in Connections
    BY <1>1, StreamAssumption DEF Connections
  <2> QED BY <2>1 DEF Attached
<1>3. /\ q \in Seq(Sendable) /\ q \in Seq(Message) /\ Len(q) \in Nat /\ r \in Nat
      /\ s \in Seq(Nat)
  BY <1>1, <1>2, Histories, AheadType
<1>4. received[cfd] \in Seq(Message)
  BY <1>1, <1>2 DEF TypeOK
<1>5. r \in 0..Len(q)
  BY <1>1, <1>2, <1>3 DEF InOrder
<1>6. \A i \in 1..Len(q) : Fits(q[i].obj, BODY_SIZE)
  BY <1>2 DEF StreamInv, WriterInv
<1>7. PICK tail \in Seq(Nat) : Carries(s, q, r, tail) /\ Partial(tail)
  BY <1>2 DEF StreamInv, Unread
<1>8. InFront(s, q, r)
  BY <1>3, <1>5, <1>6, <1>7, FrontFacts
<1> QED BY <1>2, <1>3, <1>4, <1>5, <1>8

\* The beginning of Ahead(cfd) is what read() has taken.
LEMMA TakenFirst ==
  ASSUME NEW t \in Seq(Nat), NEW s \in Seq(Nat)
  PROVE  /\ t \o s \in Seq(Nat) /\ Len(t \o s) = Len(t) + Len(s) /\ Len(t) \in Nat /\ Len(s) \in Nat
         /\ \A k \in 1..Len(t) : (t \o s)[k] = t[k]
OBVIOUS

\* recv() moves cells from the socket to read(), and no other step of the writing
\* process or the history goes with it.
LEMMA RecvMoves ==
  ASSUME StreamInv, rpc \in {"header", "body"}, NEW n \in Nat, n <= Len(stream[cfd]),
         stream' = [stream EXCEPT ![cfd] = SubSeq(@, n + 1, Len(@))],
         Taken' \in Seq(Nat), Len(Taken') = Len(Taken) + n,
         \A k \in 1..Len(Taken) : Taken'[k] = Taken[k],
         \A k \in 1..n : Taken'[Len(Taken) + k] = stream[cfd][k],
         UNCHANGED <<finished, svars, backlog, wvars, cfd, sent, received>>
  PROVE  /\ Attached' = Attached /\ stream' \in [Connections -> Seq(Nat)]
         /\ WriterInv' /\ InOrder' /\ Drained'
         /\ Ahead(cfd)' = Ahead(cfd)
         /\ \A c \in Attached : Unread(c)'
<1>1. /\ TypeOK /\ WriterInv /\ ReaderInv /\ InOrder /\ Drained
      /\ \A c \in Attached : Unread(c)
  BY DEF StreamInv
<1>2. cfd \in Connections /\ cfd \in Attached
  BY Served
<1>3. Attached' = Attached
  BY DEF Attached
<1>a. PICK s : s = stream[cfd]
  OBVIOUS
<1>b. PICK t : t = Taken
  OBVIOUS
<1>c. PICK u : u = Taken'
  OBVIOUS
<1>4. s \in Seq(Nat) /\ t \in Seq(Nat) /\ u \in Seq(Nat) /\ n <= Len(s)
  BY <1>1, <1>2, <1>a, <1>b, <1>c, Histories, TakenType
<1>5. SubSeq(s, n + 1, Len(s)) \in Seq(Nat)
  BY <1>4, RestFacts
<1>6. /\ stream' \in [Connections -> Seq(Nat)]
      /\ stream'[cfd] = SubSeq(s, n + 1, Len(s))
      /\ \A c \in Connections : c # cfd => stream'[c] = stream[c]
  <2>1. stream \in [Connections -> Seq(Nat)]
    BY <1>1 DEF TypeOK
  <2>2. stream' = [stream EXCEPT ![cfd] = SubSeq(s, n + 1, Len(s))]
    BY <1>a
  <2> QED BY <1>2, <1>5, <2>1, <2>2
<1>7. Ahead(cfd)' = Ahead(cfd)
  <2>1. u \o SubSeq(s, n + 1, Len(s)) = t \o s
    <3>1. /\ Len(u) = Len(t) + n /\ \A k \in 1..Len(t) : u[k] = t[k]
          /\ \A k \in 1..n : u[Len(t) + k] = s[k]
      BY <1>a, <1>b, <1>c
    <3>2. n \in 0..Len(s)
      BY <1>4
    <3> QED BY ONLY <1>4, <3>1, <3>2, MovedCells
  <2>2. Ahead(cfd) = t \o s
    BY <1>a, <1>b DEF Ahead
  <2>3. Ahead(cfd)' = u \o SubSeq(s, n + 1, Len(s))
    BY <1>6, <1>c DEF Ahead
  <2> QED BY <2>1, <2>2, <2>3
<1>8. WriterInv'
  <2>1. \A c \in Connections : c > client => c # cfd
    <3>1. cfd <= client /\ cfd \in Nat /\ client \in Nat
      BY <1>1, <1>2, StreamAssumption DEF ReaderInv, TypeOK, Connections
    <3>2. ~(cfd > client)
      BY <3>1
    <3> QED BY <3>2
  <2> QED BY <1>1, <1>6, <2>1 DEF WriterInv, svars, wvars
<1>9. InOrder' /\ Drained'
  BY <1>1, <1>3 DEF InOrder, Drained, Dropped, svars, wvars
<1>10. ASSUME NEW c \in Attached PROVE Unread(c)'
  <2>1. Ahead(c)' = Ahead(c)
    <3>1. CASE c = cfd
      BY <1>7, <3>1
    <3>2. CASE c # cfd
      <4>1. c \in Connections /\ stream'[c] = stream[c]
        BY <1>6, <3>2 DEF Attached
      <4> QED BY <3>2, <4>1 DEF Ahead
    <3> QED BY <3>1, <3>2
  <2>2. \A tail \in Seq(Nat) : WriterTail(c, tail) => WriterTail(c, tail)'
    BY DEF WriterTail, wvars
  <2> QED BY <1>1, <2>1, <2>2, UnreadKept
<1> QED BY <1>3, <1>6, <1>7, <1>8, <1>9, <1>10

LEMMA RecvBuffer ==
  ASSUME TypeOK, cfd \in Connections, NEW n \in Nat, NEW wanted \in Nat,
         wanted <= HEADER_SIZE + BODY_SIZE, Recv(n, wanted)
  PROVE  /\ rbuf' \in [BufferIx -> Nat]
         /\ amount \in Nat /\ amount + n <= wanted
         /\ \A k \in 1..amount : rbuf'[k] = rbuf[k]
         /\ \A k \in 1..n : rbuf'[amount + k] = stream[cfd][k]
<1>a. PICK s : s = stream[cfd]
  OBVIOUS
<1>b. PICK a : a = amount
  OBVIOUS
<1>1. s \in Seq(Nat) /\ Len(s) \in Nat /\ rbuf \in [BufferIx -> Nat] /\ a \in Nat
  BY <1>a, <1>b, StreamAssumption DEF TypeOK, HEADER_SIZE
<1>2. /\ n <= Len(s) /\ n <= wanted - a
      /\ rbuf' = [k \in BufferIx |-> IF k \in (a + 1)..(a + n) THEN s[k - a] ELSE rbuf[k]]
  BY <1>a, <1>b DEF Recv
<1>3. a + n <= wanted
  BY <1>1, <1>2
<1>4. BufferIx = 1..(HEADER_SIZE + BODY_SIZE) /\ HEADER_SIZE + BODY_SIZE \in Nat
  BY StreamAssumption DEF BufferIx, HEADER_SIZE
<1>5. \A k \in BufferIx : rbuf'[k] = IF k \in (a + 1)..(a + n) THEN s[k - a] ELSE rbuf[k]
  BY <1>2
<1>6. \A k \in (a + 1)..(a + n) : k - a \in 1..n /\ k - a \in 1..Len(s)
  BY <1>1, <1>2
<1>7. rbuf' \in [BufferIx -> Nat]
  <2>1. \A k \in (a + 1)..(a + n) : s[k - a] \in Nat
    <3>1. \A i \in 1..Len(s) : s[i] \in Nat
      BY <1>1
    <3> QED BY <1>6, <3>1
  <2>2. \A k \in BufferIx : (IF k \in (a + 1)..(a + n) THEN s[k - a] ELSE rbuf[k]) \in Nat
    BY <1>1, <2>1
  <2> QED BY <1>2, <2>2
<1>8. \A k \in 1..a : k \in BufferIx /\ k \notin (a + 1)..(a + n)
  BY <1>1, <1>3, <1>4
<1>9. \A k \in 1..n : a + k \in BufferIx /\ a + k \in (a + 1)..(a + n) /\ (a + k) - a = k
  BY <1>1, <1>3, <1>4
<1>10. \A k \in 1..a : rbuf'[k] = rbuf[k]
  BY <1>5, <1>8
<1>11. \A k \in 1..n : rbuf'[a + k] = s[k]
  BY <1>5, <1>9
<1> QED BY <1>1, <1>3, <1>7, <1>10, <1>11, <1>a, <1>b

LEMMA RecvBodyStep ==
  ASSUME StreamInv, NEW n \in Nat, RecvBody(n)
  PROVE  StreamInv'
<1>1. TypeOK /\ ReaderInv
  BY DEF StreamInv
<1>2. /\ rpc = "body" /\ amount < header.body_size
      /\ n <= Len(stream[cfd])
      /\ stream' = [stream EXCEPT ![cfd] = SubSeq(@, n + 1, Len(@))]
      /\ Recv(n, header.body_size) /\ amount' = amount + n
      /\ UNCHANGED <<finished, svars, backlog, wvars, cfd, rpc, header, sent, received>>
  BY DEF RecvBody, Recv
<1>3. cfd \in Connections /\ cfd \in Attached
  BY <1>2, Served
<1>4. /\ header.body_size \in Nat /\ header.body_size <= BODY_SIZE
      /\ header.body_size <= HEADER_SIZE + BODY_SIZE
      /\ header \in [id : Nat, type : Nat, body_size : Nat]
  BY <1>1, <1>2, StreamAssumption DEF TypeOK, ReaderInv, HEADER_SIZE
<1>5. /\ rbuf' \in [BufferIx -> Nat]
      /\ amount \in Nat /\ amount + n <= header.body_size
      /\ \A k \in 1..amount : rbuf'[k] = rbuf[k]
      /\ \A k \in 1..n : rbuf'[amount + k] = stream[cfd][k]
  BY <1>1, <1>2, <1>3, <1>4, RecvBuffer
<1>6. /\ amount \in 0..(HEADER_SIZE + BODY_SIZE) /\ amount' \in 0..(HEADER_SIZE + BODY_SIZE)
      /\ amount' <= header.body_size
  BY <1>2, <1>4, <1>5, StreamAssumption DEF HEADER_SIZE
<1>a. PICK a : a = amount
  OBVIOUS
<1>b. PICK t : t = Taken
  OBVIOUS
<1>c. PICK u : u = Taken'
  OBVIOUS
<1>7. /\ t \in Seq(Nat) /\ Len(t) = 3 + a
      /\ t[1] = header.id /\ t[2] = header.type /\ t[3] = header.body_size
      /\ \A k \in 1..a : t[3 + k] = rbuf[k]
  <2>1. t = TakenCells("body", amount, header, rbuf)
    BY <1>2, <1>b DEF Taken
  <2>2. BodyTaken(TakenCells("body", amount, header, rbuf), amount, header, rbuf)
    BY <1>1, HeaderParts, TakenBody
  <2> QED BY <1>a, <2>1, <2>2 DEF BodyTaken
<1>8. /\ u \in Seq(Nat) /\ Len(u) = 3 + (a + n)
      /\ u[1] = header.id /\ u[2] = header.type /\ u[3] = header.body_size
      /\ \A k \in 1..(a + n) : u[3 + k] = rbuf'[k]
  <2>1. u = TakenCells("body", amount', header, rbuf')
    BY <1>2, <1>c DEF Taken
  <2>2. amount' = a + n
    BY <1>2, <1>a
  <2>3. \A k \in 1..amount' : rbuf'[k] \in Nat
    <3>1. \A k \in 1..amount' : k \in BufferIx
      BY <1>6, StreamAssumption DEF BufferIx, HEADER_SIZE
    <3> QED BY <1>5, <3>1
  <2>4. amount' \in Nat
    BY <1>6, StreamAssumption DEF HEADER_SIZE
  <2>5. BodyTaken(TakenCells("body", amount', header, rbuf'), amount', header, rbuf')
    BY <1>1, <2>3, <2>4, HeaderParts, TakenBody
  <2> QED BY <2>1, <2>2, <2>5 DEF BodyTaken
<1>9. /\ Len(u) = Len(t) + n
      /\ \A k \in 1..Len(t) : u[k] = t[k]
      /\ \A k \in 1..n : u[Len(t) + k] = stream[cfd][k]
  <2>1. a \in Nat
    BY <1>5, <1>a
  <2>2. Len(u) = Len(t) + n
    BY <1>7, <1>8, <2>1
  <2>3. ASSUME NEW k \in 1..Len(t) PROVE u[k] = t[k]
    <3>1. k = 1 \/ k = 2 \/ k = 3 \/ (k - 3 \in 1..a /\ k - 3 \in 1..(a + n) /\ 3 + (k - 3) = k)
      BY <1>7, <2>1
    <3>2. ASSUME k - 3 \in 1..a, k - 3 \in 1..(a + n), 3 + (k - 3) = k PROVE u[k] = t[k]
      <4>1. u[3 + (k - 3)] = rbuf'[k - 3] /\ t[3 + (k - 3)] = rbuf[k - 3]
        BY <1>7, <1>8, <3>2
      <4>2. rbuf'[k - 3] = rbuf[k - 3]
        BY <1>5, <1>a, <3>2
      <4> QED BY <3>2, <4>1, <4>2
    <3> QED BY <1>7, <1>8, <3>1, <3>2
  <2>4. ASSUME NEW k \in 1..n PROVE u[Len(t) + k] = stream[cfd][k]
    <3>1. a + k \in 1..(a + n) /\ Len(t) + k = 3 + (a + k)
      <4>1. Len(t) = 3 + a /\ k \in Nat /\ 1 <= k /\ k <= n
        BY <1>7
      <4> QED BY <2>1, <4>1
    <3> QED BY <1>5, <1>8, <1>a, <3>1
  <2> QED BY <2>2, <2>3, <2>4
<1>10. /\ Attached' = Attached /\ stream' \in [Connections -> Seq(Nat)]
       /\ WriterInv' /\ InOrder' /\ Drained'
       /\ \A c \in Attached : Unread(c)'
  <2>1. /\ Taken' \in Seq(Nat) /\ Len(Taken') = Len(Taken) + n
        /\ \A k \in 1..Len(Taken) : Taken'[k] = Taken[k]
        /\ \A k \in 1..n : Taken'[Len(Taken) + k] = stream[cfd][k]
    BY <1>8, <1>9, <1>b, <1>c
  <2> QED BY <1>2, <2>1, RecvMoves
<1>11. TypeOK'
  BY <1>1, <1>2, <1>5, <1>6, <1>10 DEF TypeOK, svars, wvars
<1>12. ReaderInv'
  BY <1>1, <1>2, <1>4, <1>6, <1>10 DEF ReaderInv, svars, wvars
<1> QED BY <1>10, <1>11, <1>12 DEF StreamInv

\* A complete header: it names the size of the message that is in front.
LEMMA RecvHeaderStep ==
  ASSUME StreamInv, NEW n \in Nat, RecvHeader(n)
  PROVE  StreamInv'
<1>1. TypeOK /\ ReaderInv
  BY DEF StreamInv
<1>2. /\ rpc = "header"
      /\ n <= Len(stream[cfd])
      /\ stream' = [stream EXCEPT ![cfd] = SubSeq(@, n + 1, Len(@))]
      /\ Recv(n, HEADER_SIZE)
      /\ UNCHANGED <<finished, svars, backlog, wvars, cfd, sent, received>>
  BY DEF RecvHeader, Recv
<1>3. cfd \in Connections /\ cfd \in Attached
  BY <1>2, Served
<1>4. HEADER_SIZE \in Nat /\ HEADER_SIZE <= HEADER_SIZE + BODY_SIZE
  BY StreamAssumption DEF HEADER_SIZE
<1>5. /\ rbuf' \in [BufferIx -> Nat]
      /\ amount \in Nat /\ amount + n <= HEADER_SIZE
      /\ \A k \in 1..amount : rbuf'[k] = rbuf[k]
      /\ \A k \in 1..n : rbuf'[amount + k] = stream[cfd][k]
  BY <1>1, <1>2, <1>3, <1>4, RecvBuffer
<1>6. \A k \in 1..HEADER_SIZE : rbuf'[k] \in Nat
  BY <1>4, <1>5, StreamAssumption DEF BufferIx, HEADER_SIZE
<1>7. rbuf'[1] \in Nat /\ rbuf'[2] \in Nat /\ rbuf'[3] \in Nat
  BY <1>6 DEF HEADER_SIZE
<1>8. \/ /\ amount + n < HEADER_SIZE
         /\ rpc' = "header" /\ amount' = amount + n /\ header' = header
      \/ /\ amount + n = HEADER_SIZE
         /\ rpc' = "body" /\ amount' = 0
         /\ header'.id = rbuf'[1] /\ header'.type = rbuf'[2] /\ header'.body_size = rbuf'[3]
         /\ header' \in [id : Nat, type : Nat, body_size : Nat]
  <2>1. CASE amount + n < HEADER_SIZE /\ rpc' = "header" /\ amount' = amount + n /\ header' = header
    BY <2>1
  <2>2. CASE /\ amount + n = HEADER_SIZE /\ rpc' = "body" /\ amount' = 0
             /\ header' = DataHeader(rbuf'[1], rbuf'[2], rbuf'[3])
    <3>1. header' = [id |-> rbuf'[1], type |-> rbuf'[2], body_size |-> rbuf'[3]]
      BY <2>2 DEF DataHeader
    <3> QED BY <1>7, <2>2, <3>1
  <2> QED BY <1>2, <2>1, <2>2 DEF RecvHeader
<1>a. PICK a : a = amount
  OBVIOUS
<1>b. PICK t : t = Taken
  OBVIOUS
<1>c. PICK u : u = Taken'
  OBVIOUS
<1>9. t \in Seq(Nat) /\ Len(t) = a /\ \A k \in 1..a : t[k] = rbuf[k]
  <2>1. HeaderTaken(TakenCells("header", amount, header, rbuf), amount, rbuf)
    BY <1>1, HeaderParts, TakenHeader
  <2> QED BY <1>2, <1>a, <1>b, <2>1 DEF HeaderTaken, Taken
<1>10. u \in Seq(Nat) /\ Len(u) = a + n /\ \A k \in 1..(a + n) : u[k] = rbuf'[k]
  <2>1. CASE /\ amount + n < HEADER_SIZE
             /\ rpc' = "header" /\ amount' = amount + n /\ header' = header
    <3>1. amount' \in Nat /\ amount' <= HEADER_SIZE
      BY <1>4, <1>5, <2>1
    <3>2. \A k \in 1..amount' : rbuf'[k] \in Nat
      BY <1>4, <1>6, <3>1
    <3>3. HeaderTaken(TakenCells("header", amount', header', rbuf'), amount', rbuf')
      BY <3>1, <3>2, TakenHeader
    <3> QED BY <1>a, <1>c, <2>1, <3>3 DEF HeaderTaken, Taken
  <2>2. CASE /\ amount + n = HEADER_SIZE
             /\ rpc' = "body" /\ amount' = 0
             /\ header'.id = rbuf'[1] /\ header'.type = rbuf'[2] /\ header'.body_size = rbuf'[3]
    <3>1. \A k \in 1..0 : rbuf'[k] \in Nat
      OBVIOUS
    <3>2. BodyTaken(TakenCells("body", 0, header', rbuf'), 0, header', rbuf')
      <4>1. header'.id \in Nat /\ header'.type \in Nat /\ header'.body_size \in Nat /\ 0 \in Nat
        BY <1>7, <2>2
      <4> QED BY <3>1, <4>1, TakenBody
    <3>3. /\ u \in Seq(Nat) /\ Len(u) = 3 + 0
          /\ u[1] = rbuf'[1] /\ u[2] = rbuf'[2] /\ u[3] = rbuf'[3]
      BY <1>c, <2>2, <3>2 DEF BodyTaken, Taken
    <3>4. a + n = 3
      BY <1>a, <2>2 DEF HEADER_SIZE
    <3>5. \A k \in 1..3 : k = 1 \/ k = 2 \/ k = 3
      OBVIOUS
    <3> QED BY <3>3, <3>4, <3>5
  <2> QED BY <1>8, <2>1, <2>2
<1>11. /\ Len(u) = Len(t) + n
       /\ \A k \in 1..Len(t) : u[k] = t[k]
       /\ \A k \in 1..n : u[Len(t) + k] = stream[cfd][k]
  <2>1. a \in Nat
    BY <1>5, <1>a
  <2>2. ASSUME NEW k \in 1..a PROVE u[k] = t[k]
    <3>1. k \in 1..(a + n)
      BY <2>1
    <3> QED BY <1>5, <1>9, <1>10, <1>a, <3>1
  <2>3. ASSUME NEW k \in 1..n PROVE u[a + k] = stream[cfd][k]
    <3>1. a + k \in 1..(a + n)
      BY <2>1
    <3> QED BY <1>5, <1>10, <1>a, <3>1
  <2> QED BY <1>9, <1>10, <2>2, <2>3
<1>12. /\ Attached' = Attached /\ stream' \in [Connections -> Seq(Nat)]
       /\ WriterInv' /\ InOrder' /\ Drained'
       /\ Ahead(cfd)' = Ahead(cfd)
       /\ \A c \in Attached : Unread(c)'
  <2>1. /\ Taken' \in Seq(Nat) /\ Len(Taken') = Len(Taken) + n
        /\ \A k \in 1..Len(Taken) : Taken'[k] = Taken[k]
        /\ \A k \in 1..n : Taken'[Len(Taken) + k] = stream[cfd][k]
    BY <1>10, <1>11, <1>b, <1>c
  <2> QED BY <1>2, <2>1, RecvMoves
<1>13. TypeOK'
  <2>1. rpc' \in ReaderStates /\ header' \in [id : Nat, type : Nat, body_size : Nat]
    BY <1>1, <1>8 DEF TypeOK, ReaderStates
  <2>2. amount' \in 0..(HEADER_SIZE + BODY_SIZE)
    BY <1>5, <1>8, StreamAssumption DEF HEADER_SIZE
  <2> QED BY <1>1, <1>2, <1>5, <1>12, <2>1, <2>2 DEF TypeOK, svars, wvars
<1>14. rpc' = "body" => amount' <= header'.body_size /\ header'.body_size <= BODY_SIZE
  <2> SUFFICES ASSUME rpc' = "body"
               PROVE  amount' = 0 /\ header'.body_size \in Nat /\ header'.body_size <= BODY_SIZE
    OBVIOUS
  <2>1. /\ a + n = 3 /\ amount' = 0
        /\ header'.body_size = rbuf'[3] /\ header'.body_size \in Nat
    BY <1>7, <1>8, <1>a DEF HEADER_SIZE
  <2>a. PICK s : s = Ahead(cfd)
    OBVIOUS
  <2>2. s = u \o stream'[cfd] /\ stream'[cfd] \in Seq(Nat)
    BY <1>2, <1>3, <1>12, <1>c, <2>a DEF Ahead
  <2>3. Len(s) >= 3 /\ s[3] = u[3]
    <3>1. Len(u) = 3 /\ 3 \in 1..Len(u) /\ u \in Seq(Nat)
      BY <1>10, <2>1
    <3>b. PICK x : x = stream'[cfd]
      OBVIOUS
    <3>2. x \in Seq(Nat) /\ s = u \o x
      BY <2>2, <3>b
    <3>3. /\ Len(u \o x) = Len(u) + Len(x) /\ Len(x) \in Nat
          /\ \A k \in 1..Len(u) : (u \o x)[k] = u[k]
      BY <3>1, <3>2, TakenFirst
    <3> QED BY <3>1, <3>2, <3>3
  <2>4. s[3] <= BODY_SIZE
    <3>1. InFront(s, sent[cfd], Len(received[cfd]))
      BY <1>2, <2>a, Served
    <3> QED BY <2>3, <3>1 DEF InFront, HEADER_SIZE
  <2>5. u[3] = rbuf'[3]
    <3>1. 3 \in 1..(a + n)
      BY <2>1
    <3> QED BY <1>10, <3>1
  <2> QED BY <2>1, <2>3, <2>4, <2>5
<1>15. ReaderInv'
  <2>1. rpc' \in {"header", "body"} /\ (rpc' = "header" => amount' < HEADER_SIZE) /\ cfd # 0
    BY <1>1, <1>2, <1>8 DEF ReaderInv
  <2> QED BY <1>1, <1>2, <1>12, <1>14, <2>1 DEF ReaderInv, svars, wvars
<1> QED BY <1>12, <1>13, <1>15 DEF StreamInv

\* The end of the stream in a message: read() has every message before it.
LEMMA RecvEndStep ==
  ASSUME StreamInv, RecvEnd
  PROVE  StreamInv'
<1>1. /\ TypeOK /\ WriterInv /\ ReaderInv /\ InOrder /\ Drained
      /\ \A c \in Attached : Unread(c)
  BY DEF StreamInv
<1>2. /\ rpc = "header" \/ (rpc = "body" /\ amount < header.body_size)
      /\ stream[cfd] = << >> /\ cfd \in finished /\ rpc' = "accept"
      /\ UNCHANGED <<stream, finished, svars, backlog, wvars, cfd, amount, header, rbuf,
                     sent, received>>
  BY DEF RecvEnd, AtEnd
<1>a. PICK s : s = Ahead(cfd)
  OBVIOUS
<1>b. PICK q : q = sent[cfd]
  OBVIOUS
<1>c. PICK r : r = Len(received[cfd])
  OBVIOUS
<1>3. /\ cfd \in Connections /\ cfd \in Attached
      /\ s \in Seq(Nat) /\ q \in Seq(Sendable) /\ q \in Seq(Message) /\ r \in 0..Len(q)
      /\ received[cfd] \in Seq(Message)
      /\ InFront(s, q, r)
  BY <1>2, <1>a, <1>b, <1>c, Served
<1>4. s = Taken
  <2>1. s = Taken \o << >>
    BY <1>2, <1>a DEF Ahead
  <2>2. \A t \in Seq(Nat) : t \o << >> = t
    OBVIOUS
  <2> QED BY <1>1, <2>1, <2>2, TakenType
<1>5. r = Len(q)
  <2>1. CASE rpc = "header"
    <3>1. HeaderTaken(TakenCells("header", amount, header, rbuf), amount, rbuf)
      BY <1>1, HeaderParts, TakenHeader
    <3>2. Len(s) = amount /\ amount < HEADER_SIZE
      BY <1>1, <1>4, <2>1, <3>1 DEF HeaderTaken, Taken, ReaderInv
    <3> QED BY <1>3, <3>2 DEF InFront
  <2>2. CASE rpc = "body" /\ amount < header.body_size
    <3>1. BodyTaken(TakenCells("body", amount, header, rbuf), amount, header, rbuf)
      BY <1>1, HeaderParts, TakenBody
    <3>2. Len(s) = 3 + amount /\ s[3] = header.body_size
      BY <1>4, <2>2, <3>1 DEF BodyTaken, Taken
    <3>3. amount \in Nat /\ header.body_size \in Nat
      BY <1>1, HeaderParts
    <3>4. Len(s) >= HEADER_SIZE /\ Len(s) < HEADER_SIZE + s[3]
      BY <2>2, <3>2, <3>3 DEF HEADER_SIZE
    <3> QED BY <1>3, <3>4 DEF InFront
  <2> QED BY <1>2, <2>1, <2>2
<1>6. received[cfd] = q
  <2>1. \A i \in 1..r : received[cfd][i] = q[i]
    BY <1>1, <1>3, <1>b, <1>c DEF InOrder
  <2>2. Len(received[cfd]) = Len(q)
    BY <1>5, <1>c
  <2>3. received[cfd] \in Seq(Message) /\ q \in Seq(Message) /\ 1..r = 1..Len(received[cfd])
    BY <1>3, <1>5, <2>2
  <2> QED BY <2>1, <2>2, <2>3, SameElements
<1>7. Attached' = Attached
  BY <1>2 DEF Attached
<1>8. TypeOK'
  <2>1. rpc' \in ReaderStates
    BY <1>2 DEF ReaderStates
  <2> QED BY <1>1, <1>2, <2>1 DEF TypeOK, svars, wvars
<1>9. WriterInv' /\ InOrder' /\ Drained'
  BY <1>1, <1>2, <1>7 DEF WriterInv, InOrder, Drained, Dropped, svars, wvars
<1>10. ReaderInv'
  <2>1. cfd # 0 /\ received[cfd] = sent[cfd]
    BY <1>1, <1>2, <1>6, <1>b DEF ReaderInv
  <2> QED BY <1>1, <1>2, <1>7, <2>1 DEF ReaderInv, svars, wvars
<1>11. ASSUME NEW c \in Attached PROVE Unread(c)'
  <2>1. CASE c # cfd
    <3>1. Ahead(c)' = Ahead(c)
      BY <1>2, <2>1 DEF Ahead
    <3>2. \A tail \in Seq(Nat) : WriterTail(c, tail) => WriterTail(c, tail)'
      BY <1>2 DEF WriterTail, wvars
    <3> QED BY <1>1, <1>2, <3>1, <3>2, UnreadKept
  <2>2. CASE c = cfd
    <3>1. Ahead(cfd)' = << >>
      <4>1. Ahead(cfd)' = << >> \o << >>
        BY <1>2 DEF Ahead, Taken, TakenCells
      <4> QED BY <4>1
    <3>2. Carries(<< >>, q, r, << >>)
      <4>a. PICK e : e = << >>
        OBVIOUS
      <4>1. e \in Seq(Nat) /\ q \in Seq(Sendable)
        BY <1>3, <4>a, NothingPartial
      <4>2. Carries(e, q, Len(q), e)
        BY <4>1, CutNothing
      <4> QED BY <1>5, <4>2, <4>a
    <3>3. WriterTail(cfd, << >>)'
      <4>1. cfd = client => cpc = "closed"
        <5>1. ~(client < client)
          BY <1>1, StreamAssumption DEF TypeOK
        <5> QED BY <1>1, <1>2, <1>3, <5>1 DEF WriterInv
      <4> QED BY <1>2, <4>1 DEF WriterTail, wvars
    <3>4. sent'[cfd] = q /\ Len(received'[cfd]) = r
      BY <1>2, <1>b, <1>c
    <3> QED BY <1>2, <2>2, <3>1, <3>2, <3>3, <3>4, NothingPartial DEF Unread
  <2> QED BY <2>1, <2>2
<1> QED BY <1>7, <1>8, <1>9, <1>10, <1>11 DEF StreamInv

\* What is left when the cells in front are taken off.
LEMMA Behind ==
  ASSUME NEW t \in Seq(Nat), NEW x \in Seq(Nat)
  PROVE  SubSeq(t \o x, Len(t) + 1, Len(t \o x)) = x
<1>a. PICK s : s = t \o x
  OBVIOUS
<1>b. PICK y : y = SubSeq(s, Len(t) + 1, Len(s))
  OBVIOUS
<1>1. /\ s \in Seq(Nat) /\ Len(s) = Len(t) + Len(x) /\ Len(t) \in Nat /\ Len(x) \in Nat
      /\ \A k \in 1..(Len(t) + Len(x)) : s[k] = IF k <= Len(t) THEN t[k] ELSE x[k - Len(t)]
  BY <1>a, ConcatProperties
<1>2. /\ y \in Seq(Nat) /\ Len(y) = Len(s) - Len(t)
      /\ \A k \in 1..(Len(s) - Len(t)) : y[k] = s[Len(t) + k]
  <2>a. PICK l : l = Len(t)
    OBVIOUS
  <2>1. l \in Nat /\ l <= Len(s) /\ s \in Seq(Nat) /\ y = SubSeq(s, l + 1, Len(s))
    BY <1>b, <1>1, <2>a
  <2>2. /\ y \in Seq(Nat) /\ Len(y) = Len(s) - l
        /\ \A k \in 1..(Len(s) - l) : y[k] = s[l + k]
    BY ONLY <2>1, RestFacts
  <2> QED BY <2>2, <2>a
<1>3. Len(y) = Len(x) /\ Len(s) - Len(t) = Len(x)
  BY <1>1, <1>2
<1>4. ASSUME NEW k \in 1..Len(x) PROVE y[k] = x[k]
  <2>1. /\ Len(t) + k \in 1..(Len(t) + Len(x)) /\ ~(Len(t) + k <= Len(t))
        /\ (Len(t) + k) - Len(t) = k
    BY <1>1
  <2>2. y[k] = s[Len(t) + k]
    BY <1>2, <1>3
  <2> QED BY <1>1, <2>1, <2>2
<1>5. y = x
  BY <1>2, <1>3, <1>4, SameCells
<1> QED BY <1>5, <1>a, <1>b

\* The body is complete: what read() decodes is the next message of the history.
LEMMA Decoded ==
  ASSUME StreamInv, rpc = "body", amount >= header.body_size,
         NEW q, q = sent[cfd], NEW r, r = Len(received[cfd])
  PROVE  /\ r \in Nat /\ r < Len(q) /\ q[r + 1] \in Message
         /\ deserialize_data_object(header.type, rbuf, header.body_size) = q[r + 1].obj
         /\ ~IsError(q[r + 1].obj)
         /\ [id |-> header.id, obj |-> q[r + 1].obj] = q[r + 1]
         /\ Taken \in Seq(Nat) /\ Len(Taken) = Len(WireCells(q[r + 1]))
<1>1. TypeOK /\ ReaderInv
  BY DEF StreamInv
<1>a. PICK t : t = Taken
  OBVIOUS
<1>b. PICK x : x = stream[cfd]
  OBVIOUS
<1>c. PICK s : s = Ahead(cfd)
  OBVIOUS
<1>2. /\ cfd \in Connections
      /\ s \in Seq(Nat) /\ q \in Seq(Sendable) /\ q \in Seq(Message) /\ r \in 0..Len(q)
      /\ InFront(s, q, r)
  BY <1>c, Served
<1>3. /\ header.id \in Nat /\ header.type \in Nat /\ header.body_size \in Nat
      /\ amount = header.body_size
  <2>1. amount <= header.body_size /\ amount \in Nat /\ header.body_size \in Nat
    BY <1>1, HeaderParts DEF ReaderInv
  <2> QED BY <1>1, <2>1, HeaderParts
<1>d. PICK size : size = header.body_size
  OBVIOUS
<1>4. /\ t \in Seq(Nat) /\ Len(t) = 3 + size /\ size \in Nat
      /\ t[1] = header.id /\ t[2] = header.type /\ t[3] = size
      /\ \A k \in 1..size : t[3 + k] = rbuf[k]
  <2>1. BodyTaken(TakenCells("body", amount, header, rbuf), amount, header, rbuf)
    BY <1>1, HeaderParts, TakenBody
  <2>2. t = TakenCells("body", amount, header, rbuf)
    BY <1>a DEF Taken
  <2> QED BY <1>3, <1>d, <2>1, <2>2 DEF BodyTaken
<1>5. x \in Seq(Nat) /\ s = t \o x
  BY <1>1, <1>2, <1>a, <1>b, <1>c, Histories DEF Ahead
<1>6. Len(s) >= 3 + size /\ \A k \in 1..(3 + size) : s[k] = t[k]
  <2>1. /\ Len(t \o x) = Len(t) + Len(x) /\ Len(x) \in Nat
        /\ \A k \in 1..Len(t) : (t \o x)[k] = t[k]
    BY <1>4, <1>5, TakenFirst
  <2> QED BY <1>4, <1>5, <2>1
<1>7. /\ s[1] = header.id /\ s[2] = header.type /\ s[3] = size
      /\ \A k \in 1..size : s[3 + k] = rbuf[k]
  <2>1. 1 \in 1..(3 + size) /\ 2 \in 1..(3 + size) /\ 3 \in 1..(3 + size)
    BY <1>4
  <2>2. \A k \in 1..size : 3 + k \in 1..(3 + size)
    BY <1>4
  <2> QED BY <1>4, <1>6, <2>1, <2>2
<1>8. /\ r < Len(q)
      /\ header.id = q[r + 1].id /\ header.type = q[r + 1].obj.type
      /\ size = SerializedSize(q[r + 1].obj)
      /\ \A k \in 1..size : rbuf[k] = Serialize(q[r + 1].obj)[k]
  <2>1. Len(s) >= 3 /\ Len(s) >= 3 + s[3]
    <3>1. Len(s) >= 3 + size /\ size \in Nat /\ Len(s) \in Nat /\ s[3] = size
      BY <1>2, <1>4, <1>6, <1>7
    <3> QED BY <3>1
  <2>2. /\ r < Len(q) /\ s[1] = q[r + 1].id /\ s[2] = q[r + 1].obj.type
        /\ s[3] = SerializedSize(q[r + 1].obj)
        /\ \A k \in 1..s[3] : s[3 + k] = Serialize(q[r + 1].obj)[k]
    BY <1>2, <2>1 DEF InFront, HEADER_SIZE
  <2> QED BY <1>7, <2>2
<1>9. r \in Nat /\ r + 1 \in 1..Len(q) /\ q[r + 1] \in Message
  <2>1. r \in Nat /\ Len(q) \in Nat
    BY <1>2
  <2>2. r + 1 \in 1..Len(q)
    BY <1>8, <2>1
  <2> QED BY <1>2, <2>1, <2>2
<1>e. PICK m : m = q[r + 1]
  OBVIOUS
<1>10. /\ m.obj \in DataObject /\ m.id \in Nat
       /\ \A h : h = m.id => [id |-> h, obj |-> m.obj] = m
  BY <1>9, <1>e, StreamAssumption DEF Message
<1>11. deserialize_data_object(header.type, rbuf, header.body_size) = m.obj /\ ~IsError(m.obj)
  <2>1. \A k \in 1..SerializedSize(m.obj) : rbuf[k] = Serialize(m.obj)[k]
    BY <1>8, <1>e
  <2>2. deserialize_data_object(m.obj.type, rbuf, SerializedSize(m.obj)) = m.obj
    BY <1>10, <2>1, RoundTrip
  <2>3. header.type = m.obj.type /\ header.body_size = SerializedSize(m.obj)
    BY <1>8, <1>d, <1>e
  <2>4. ~IsError(m.obj)
    BY <1>10, ObjectIsNoError
  <2> QED BY <2>2, <2>3, <2>4
<1>12. [id |-> header.id, obj |-> m.obj] = m
  BY <1>8, <1>10, <1>e
<1>13. Len(WireCells(m)) = 3 + size
  <2>1. Len(Wire(m.id, m.obj)) = HEADER_SIZE + SerializedSize(m.obj)
    BY <1>10, WireFacts
  <2> QED BY <1>8, <1>e, <2>1 DEF WireCells, HEADER_SIZE
<1> QED BY <1>4, <1>8, <1>9, <1>11, <1>12, <1>13, <1>a, <1>e

LEMMA ReadDecodeStep ==
  ASSUME StreamInv, ReadDecode
  PROVE  StreamInv'
<1>1. /\ TypeOK /\ WriterInv /\ ReaderInv /\ InOrder /\ Drained
      /\ \A c \in Attached : Unread(c)
  BY DEF StreamInv
<1>a. PICK q : q = sent[cfd]
  OBVIOUS
<1>b. PICK r : r = Len(received[cfd])
  OBVIOUS
<1>c. PICK m : m = q[r + 1]
  OBVIOUS
<1>d. PICK t : t = Taken
  OBVIOUS
<1>e. PICK x : x = stream[cfd]
  OBVIOUS
<1>2. rpc = "body" /\ amount >= header.body_size
  BY DEF ReadDecode
<1>3. /\ cfd \in Connections /\ cfd \in Attached
      /\ q \in Seq(Sendable) /\ r \in 0..Len(q) /\ received[cfd] \in Seq(Message)
  <2>a. PICK s : s = Ahead(cfd)
    OBVIOUS
  <2> QED BY <1>2, <1>a, <1>b, <2>a, Served
<1>4. /\ r \in Nat /\ r < Len(q) /\ m \in Message
      /\ deserialize_data_object(header.type, rbuf, header.body_size) = m.obj
      /\ ~IsError(m.obj)
      /\ [id |-> header.id, obj |-> m.obj] = m
      /\ t \in Seq(Nat) /\ Len(t) = Len(WireCells(m))
  BY <1>2, <1>a, <1>b, <1>c, <1>d, Decoded
<1>5. /\ rpc' = "header" /\ amount' = 0
      /\ received' = [received EXCEPT ![cfd] = Append(@, m)]
      /\ UNCHANGED <<stream, finished, svars, backlog, wvars, cfd, header, rbuf, sent>>
  BY <1>4 DEF ReadDecode
<1>6. /\ received' \in [Connections -> Seq(Message)]
      /\ Len(received'[cfd]) = r + 1 /\ received'[cfd][r + 1] = m
      /\ \A i \in 1..r : received'[cfd][i] = received[cfd][i]
      /\ \A c \in Connections : c # cfd => received'[c] = received[c]
  <2>1. received \in [Connections -> Seq(Message)]
    BY <1>1 DEF TypeOK
  <2> QED BY <1>3, <1>4, <1>5, <1>b, <2>1, LongerHistory
<1>7. Attached' = Attached
  BY <1>5 DEF Attached
<1>8. TypeOK'
  <2>1. amount' \in 0..(HEADER_SIZE + BODY_SIZE) /\ rpc' \in ReaderStates
    BY <1>5, StreamAssumption DEF HEADER_SIZE, ReaderStates
  <2> QED BY <1>1, <1>5, <1>6, <2>1 DEF TypeOK, svars, wvars
<1>9. WriterInv'
  <2>1. \A c \in Connections : c > client => c # cfd
    <3>1. cfd <= client /\ cfd \in Nat /\ client \in Nat
      BY <1>1, <1>3, StreamAssumption DEF ReaderInv, TypeOK, Connections
    <3>2. ~(cfd > client)
      BY <3>1
    <3> QED BY <3>2
  <2> QED BY <1>1, <1>5, <1>6, <2>1 DEF WriterInv, svars, wvars
<1>10. ReaderInv'
  BY <1>1, <1>2, <1>5, <1>7 DEF ReaderInv, svars, wvars, HEADER_SIZE
<1>11. InOrder'
  <2> SUFFICES ASSUME NEW c \in Connections
               PROVE  /\ Len(received'[c]) <= Len(sent[c])
                      /\ \A i \in 1..Len(received'[c]) : received'[c][i] = sent[c][i]
    BY <1>5 DEF InOrder
  <2>1. CASE c # cfd
    BY <1>1, <1>6, <2>1 DEF InOrder
  <2>2. CASE c = cfd
    <3>1. r + 1 <= Len(q) /\ \A i \in 1..(r + 1) : i \in 1..r \/ i = r + 1
      BY <1>3, <1>4
    <3>2. \A i \in 1..r : received[cfd][i] = q[i]
      BY <1>1, <1>3, <1>a, <1>b DEF InOrder
    <3> QED BY <1>6, <1>a, <1>c, <2>2, <3>1, <3>2
  <2> QED BY <2>1, <2>2
<1>12. Drained'
  <2>1. \A c \in Connections : Dropped(c)' => Dropped(c) /\ c # cfd
    BY <1>3, <1>5, <1>7 DEF Dropped, svars, wvars
  <2> QED BY <1>1, <1>5, <1>6, <2>1 DEF Drained
<1>13. ASSUME NEW c \in Attached PROVE Unread(c)'
  <2>1. \A tail \in Seq(Nat) : WriterTail(c, tail) => WriterTail(c, tail)'
    BY <1>5 DEF WriterTail, wvars
  <2>2. CASE c # cfd
    <3>1. Ahead(c)' = Ahead(c) /\ c \in Connections
      BY <1>5, <2>2 DEF Ahead, Attached
    <3> QED BY <1>1, <1>5, <1>6, <2>1, <2>2, <3>1, UnreadKept
  <2>3. CASE c = cfd
    <3>1. PICK tail \in Seq(Nat) : /\ Carries(Ahead(c), sent[c], Len(received[c]), tail)
                                   /\ Partial(tail) /\ WriterTail(c, tail)
      BY <1>1, <2>3 DEF Unread
    <3>2. x \in Seq(Nat) /\ t \o x \in Seq(Nat) /\ Ahead(c) = t \o x
      <4>1. x \in Seq(Nat)
        BY <1>1, <1>3, <1>e, Histories
      <4>2. Ahead(c) = t \o x
        BY <1>d, <1>e, <2>3 DEF Ahead
      <4> QED BY <1>4, <4>1, <4>2, TakenFirst
    <3>a. PICK s : s = t \o x
      OBVIOUS
    <3>b. PICK n : n = Len(WireCells(q[r + 1]))
      OBVIOUS
    <3>3. Carries(SubSeq(s, n + 1, Len(s)), q, r + 1, tail)
      <4>1. /\ s \in Seq(Nat) /\ tail \in Seq(Nat) /\ q \in Seq(Sendable)
            /\ r \in Nat /\ r < Len(q) /\ Carries(s, q, r, tail)
        BY <1>3, <1>4, <1>a, <1>b, <2>3, <3>1, <3>2, <3>a
      <4> QED BY <4>1, <3>b, CutNext
    <3>4. SubSeq(s, n + 1, Len(s)) = x
      <4>1. n = Len(t)
        BY <1>4, <1>c, <3>b
      <4>2. SubSeq(t \o x, Len(t) + 1, Len(t \o x)) = x
        BY <1>4, <3>2, Behind
      <4> QED BY <3>a, <4>1, <4>2
    <3>5. Ahead(c)' = x
      <4>1. Taken' = << >>
        <5>1. \A b : [k \in 1..0 |-> b[k]] = << >>
          OBVIOUS
        <5> QED BY <1>5, <5>1 DEF Taken, TakenCells
      <4>2. Ahead(c)' = << >> \o x
        BY <1>5, <1>e, <2>3, <4>1 DEF Ahead
      <4>3. << >> \o x = x
        BY <3>2
      <4> QED BY <4>2, <4>3
    <3>6. Carries(x, q, r + 1, tail)
      BY <3>3, <3>4
    <3>7. sent'[c] = q /\ Len(received'[c]) = r + 1
      BY <1>5, <1>6, <1>a, <2>3
    <3>8. WriterTail(c, tail)'
      BY <2>1, <3>1
    <3>9. Carries(Ahead(c)', sent'[c], Len(received'[c]), tail)
      BY <3>5, <3>6, <3>7
    <3> QED BY <3>1, <3>8, <3>9 DEF Unread
  <2> QED BY <2>2, <2>3
<1> QED BY <1>7, <1>8, <1>9, <1>10, <1>11, <1>12, <1>13 DEF StreamInv

-----------------------------------------------------------------------------
(* The theorems. *)

LEMMA StutteringStep ==
  ASSUME StreamInv, UNCHANGED vars
  PROVE  StreamInv'
<1>1. /\ TypeOK /\ WriterInv /\ ReaderInv /\ InOrder /\ Drained
      /\ \A c \in Attached : Unread(c)
  BY DEF StreamInv
<1>2. UNCHANGED <<stream, finished, svars, backlog, wvars, cfd, rvars, sent, received>>
  BY DEF vars
<1>3. Attached' = Attached
  BY <1>2 DEF Attached
<1>4. TypeOK' /\ WriterInv' /\ InOrder'
  BY <1>1, <1>2 DEF TypeOK, WriterInv, InOrder, svars, wvars, rvars
<1>5. ReaderInv' /\ Drained'
  BY <1>1, <1>2, <1>3 DEF ReaderInv, Drained, Dropped, svars, wvars, rvars
<1>6. ASSUME NEW c \in Attached PROVE Unread(c)'
  <2>1. \A tail \in Seq(Nat) : WriterTail(c, tail) => WriterTail(c, tail)'
    BY <1>2 DEF WriterTail, wvars
  <2>2. Ahead(c)' = Ahead(c)
    BY <1>2 DEF Ahead, Taken, rvars
  <2> QED BY <1>1, <1>2, <2>1, <2>2, UnreadKept
<1> QED BY <1>3, <1>4, <1>5, <1>6 DEF StreamInv

LEMMA NextStream == StreamInv /\ [Next]_vars => StreamInv'
<1> SUFFICES ASSUME StreamInv, [Next]_vars PROVE StreamInv'
  OBVIOUS
<1>1. CASE ClientOpen
  BY <1>1, ClientOpenStep
<1>2. CASE ClientExit
  BY <1>2, ClientExitStep
<1>3. ASSUME NEW obj \in Objects, WriteRefused(obj) PROVE StreamInv'
  <2>1. UNCHANGED vars
    BY <1>3 DEF WriteRefused, vars, wvars, svars
  <2> QED BY <2>1, StutteringStep
<1>4. ASSUME NEW obj \in Objects, WriteSerialize(obj) PROVE StreamInv'
  BY <1>4, WriteSerializeStep
<1>5. CASE SendReset
  BY <1>5, SendResetStep
<1>6. ASSUME NEW n \in Pieces, Send(n) PROVE StreamInv'
  BY <1>6, SendStep
<1>7. CASE ServerOpen
  BY <1>7, ServerOpenStep
<1>8. CASE ServerStop
  BY <1>8, ServerStopStep
<1>9. CASE AwaitAccept \/ ServerAccept
  BY <1>9, AcceptStep
<1>10. CASE AwaitPoll \/ RecvHeaderEmpty
  BY <1>10, PollStep
<1>11. ASSUME NEW n \in Pieces, RecvHeader(n) \/ RecvBody(n) PROVE StreamInv'
  <2>1. n \in Nat
    BY DEF Pieces
  <2> QED BY <1>11, <2>1, RecvHeaderStep, RecvBodyStep
<1>12. CASE RecvEnd
  BY <1>12, RecvEndStep
<1>13. CASE ReadDecode
  BY <1>13, ReadDecodeStep
<1>14. CASE UNCHANGED vars
  BY <1>14, StutteringStep
<1>15. CASE ClientNext
  BY <1>1, <1>2, <1>3, <1>4, <1>5, <1>6, <1>15 DEF ClientNext, SendProgress
<1>16. CASE ServerReads
  BY <1>9, <1>10, <1>11, <1>12, <1>13, <1>16 DEF ServerReads
<1> QED BY <1>7, <1>8, <1>14, <1>15, <1>16 DEF Next

\* The inductive invariant: on every connection that the server has, the cells that
\* read() has taken and the cells in the socket are the messages that were sent and
\* not read, and a beginning of one more.
THEOREM StreamInvariance == Spec => []StreamInv
<1> QED BY InitStream, NextStream, PTL DEF Spec

\* Type correctness: no header makes read() write behind buffer_, whatever recv()
\* returns.
THEOREM StreamTypeCorrect == Spec => []TypeOK
<1>1. StreamInv => TypeOK
  BY DEF StreamInv
<1> QED BY StreamInvariance, <1>1, PTL

\* Each connection delivers its messages whole and in order, for every cut of
\* send() and recv() and every message that an earlier process left unfinished.
THEOREM StreamInOrder == Spec => []InOrder
<1>1. StreamInv => InOrder
  BY DEF StreamInv
<1> QED BY StreamInvariance, <1>1, PTL

\* accept() drops no connection with a message that was not read.
THEOREM StreamDrained == Spec => []DrainedWhenDropped
<1>1. StreamInv => DrainedWhenDropped
  BY DEF StreamInv, Drained, DrainedWhenDropped
<1> QED BY StreamInvariance, <1>1, PTL

=============================================================================
