----------------------------- MODULE FifoProofs -----------------------------
(***************************************************************************)
(* Proofs about the named pipe of module Fifo, for every capacity of the   *)
(* pipe and size of a message, all objects, and any number of pipes and of *)
(* writing processes.                                                      *)
(*                                                                         *)
(* Order rests on what the pipe holds while the reading process has it or  *)
(* is about to: the wire form of every message that was written and not    *)
(* read, one behind the other, of which the loop may have taken the header *)
(* of the first.  A pipe that a process was killed on in the middle of a   *)
(* message begins with a body; that harms nobody, because no process reads *)
(* it again: each run of the reading process makes a pipe of its own.      *)
(***************************************************************************)
EXTENDS Fifo, DataObjectsProofs

-----------------------------------------------------------------------------
(* The inductive invariant. *)

\* A descriptor is open exactly between open() and close(), and no pipe is used
\* before it is made.
Handles ==
  /\ path <= made /\ wfd <= made /\ rfd <= made
  /\ wfd = 0 <=> wpc = "closed"
  /\ rfd # 0 <=> rpc \in {"await", "header", "body"}
  /\ rpc = "mkfifo" => made < MAX_PIPES
  /\ rpc = "open" => path # 0

\* What write() has got ready for ::write.
Prepared ==
  wpc = "write" => last_id > 0 /\ wobj \in Objects /\ Fits(wobj, BODY_SIZE)

\* The pipe that the reading process has, or is about to open.
Live(p) == p = rfd \/ (p = path /\ rpc = "open")

HeaderCells(h) == <<h.id, h.type, h.body_size>>

\* The cells of p that no message was made of.
Ahead(p) == IF p = rfd /\ rpc = "body" THEN HeaderCells(header) \o pipes[p] ELSE pipes[p]

Unread(p) == Carries(Ahead(p), sent[p], Len(received[p]), << >>)

PipeInv(p) ==
  /\ pipes[p] \in Seq(Nat)
  /\ Len(received[p]) <= Len(sent[p])
  /\ \A i \in 1..Len(received[p]) : received[p][i] = sent[p][i]
  /\ \A i \in 1..Len(sent[p]) : Fits(sent[p][i].obj, BODY_SIZE)
  /\ p > made => pipes[p] = << >> /\ sent[p] = << >> /\ received[p] = << >>
  /\ Live(p) => Unread(p)

FifoInv ==
  /\ TypeOK /\ Handles /\ Prepared /\ ~aborted
  /\ DOMAIN pipes = Pipes /\ \A p \in Pipes : PipeInv(p)

USE FifoAssumption

-----------------------------------------------------------------------------
(* Facts about a state. *)

LEMMA PipeParts ==
  ASSUME TypeOK, NEW p \in Pipes
  PROVE  /\ sent[p] \in Seq(Message) /\ sent[p] \in Seq(Sendable)
         /\ received[p] \in Seq(Message)
         /\ Len(sent[p]) \in Nat /\ Len(received[p]) \in Nat
         /\ pipes[p] \in Seq(Nat) /\ Len(pipes[p]) \in Nat /\ Len(pipes[p]) <= CAPACITY
         /\ p \in Nat /\ p # 0
<1>1. sent[p] \in Seq(Message) /\ received[p] \in Seq(Message) /\ pipes[p] \in Seq(Nat)
  BY DEF TypeOK
<1>2. Message \subseteq Sendable
  BY DEF Message, Sendable
<1>3. p \in Nat /\ p # 0
  BY DEF Pipes
<1>4. Len(pipes[p]) <= CAPACITY
  BY DEF TypeOK
<1> QED BY <1>1, <1>2, <1>3, <1>4

LEMMA HeaderParts ==
  ASSUME TypeOK
  PROVE  /\ header.id \in Nat /\ header.type \in Nat /\ header.body_size \in Nat
         /\ HeaderCells(header) \in Seq(Nat) /\ Len(HeaderCells(header)) = 3
         /\ HeaderCells(header)[1] = header.id /\ HeaderCells(header)[2] = header.type
         /\ HeaderCells(header)[3] = header.body_size
<1>1. header.id \in Nat /\ header.type \in Nat /\ header.body_size \in Nat
  BY DEF TypeOK
<1> QED BY <1>1 DEF HeaderCells

LEMMA AheadType ==
  ASSUME TypeOK, NEW p \in Pipes
  PROVE  Ahead(p) \in Seq(Nat)
<1>1. HeaderCells(header) \in Seq(Nat) /\ pipes[p] \in Seq(Nat)
  BY HeaderParts, PipeParts
<1> HIDE DEF HeaderCells
<1> QED BY <1>1 DEF Ahead

\* A pipe that no step touches.
LEMMA PipeKept ==
  ASSUME NEW p, PipeInv(p), pipes'[p] = pipes[p], sent'[p] = sent[p],
         received'[p] = received[p], p > made' => p > made,
         Live(p)' => Live(p) /\ Ahead(p)' = Ahead(p)
  PROVE  PipeInv(p)'
<1>1. Live(p)' /\ Unread(p) => Unread(p)'
  BY DEF Unread
<1> QED BY <1>1 DEF PipeInv

\* A pipe that nobody has open any more is empty.
LEMMA PipeLetGo ==
  ASSUME FifoInv, NEW p \in Pipes, p <= made, made' = made,
         pipes'[p] = << >>, sent'[p] = received[p], received'[p] = received[p],
         Ahead(p)' = pipes'[p]
  PROVE  PipeInv(p)'
<1>1. received[p] \in Seq(Message) /\ Len(received[p]) \in Nat
  BY PipeParts DEF FifoInv
<1>2. received[p] \in Seq(Sendable) /\ << >> \in Seq(Nat)
  <2>1. Message \subseteq Sendable
    BY DEF Message, Sendable
  <2> QED BY <1>1, <2>1
<1>3. Carries(<< >>, received[p], Len(received[p]), << >>)
  BY <1>2, CutNothing
<1>4. Unread(p)'
  BY <1>3 DEF Unread
<1>5. \A i \in 1..Len(received[p]) : Fits(received[p][i].obj, BODY_SIZE)
  <2>1. PipeInv(p) /\ Len(sent[p]) \in Nat
    BY PipeParts DEF FifoInv
  <2>2. SUFFICES ASSUME NEW i \in 1..Len(received[p])
                 PROVE  Fits(received[p][i].obj, BODY_SIZE)
    OBVIOUS
  <2>3. received[p][i] = sent[p][i] /\ i \in 1..Len(sent[p])
    BY <1>1, <2>1 DEF PipeInv
  <2> QED BY <2>1, <2>3 DEF PipeInv
<1>6. made \in Nat /\ p \in Nat
  BY DEF FifoInv, TypeOK, Pipes
<1> QED BY <1>1, <1>2, <1>4, <1>5, <1>6 DEF PipeInv

-----------------------------------------------------------------------------
(* The invariant holds initially. *)

LEMMA InitFifo == Init => FifoInv
<1> SUFFICES ASSUME Init PROVE FifoInv
  OBVIOUS
<1> USE DEF Init
<1>1. TypeOK
  <2>1. header \in [id : Nat, type : Nat, body_size : Nat]
    BY DEF ZeroHeader, DataHeader, INVALID
  <2>2. \A p \in Pipes : pipes[p] \in Seq(Nat) /\ Len(pipes[p]) <= CAPACITY
    OBVIOUS
  <2>3. sent \in [Pipes -> Seq(Message)] /\ received \in [Pipes -> Seq(Message)]
    <3>1. << >> \in Seq(Message)
      OBVIOUS
    <3> QED BY <3>1
  <2>4. rbuf \in [BufferIx -> Nat]
    OBVIOUS
  <2>5. /\ path \in 0..MAX_PIPES /\ made \in 0..MAX_PIPES /\ writers \in 0..MAX_WRITERS
        /\ wfd \in 0..MAX_PIPES /\ last_id \in 0..MAX_ID /\ rfd \in 0..MAX_PIPES
    OBVIOUS
  <2>6. /\ wobj \in Objects \cup {Ping} /\ wret \in BOOLEAN /\ aborted \in BOOLEAN
        /\ wpc = "closed" /\ rpc = "closed" /\ rret = "none"
    OBVIOUS
  <2> HIDE DEF Init
  <2> QED BY <2>1, <2>2, <2>3, <2>4, <2>5, <2>6 DEF TypeOK
<1>2. Handles /\ Prepared
  BY DEF Handles, Prepared
<1>3. \A p \in Pipes : PipeInv(p)
  <2>1. \A p \in Pipes : ~Live(p)
    BY DEF Live, Pipes
  <2> QED BY <2>1 DEF PipeInv
<1> QED BY <1>1, <1>2, <1>3 DEF FifoInv

-----------------------------------------------------------------------------
(* The steps of the writing process. *)

\* A step that moves no cell and no message.
LEMMA PipesKept ==
  ASSUME FifoInv, UNCHANGED <<pipes, sent, received, aborted>>, made' \in {made, made + 1},
         \A p \in Pipes : Live(p)' => Live(p) \/ (p > made /\ Ahead(p)' = << >>),
         \A p \in Pipes : Live(p)' /\ Live(p) => Ahead(p)' = Ahead(p)
  PROVE  (~aborted /\ DOMAIN pipes = Pipes /\ \A p \in Pipes : PipeInv(p))'
<1>1. made \in Nat
  BY DEF FifoInv, TypeOK
<1>2. ASSUME NEW p \in Pipes PROVE PipeInv(p)'
  <2>1. PipeInv(p) /\ p \in Nat
    BY DEF FifoInv, Pipes
  <2>2. p > made' => p > made
    BY <1>1, <2>1
  <2>3. CASE ~Live(p)'
    BY <2>1, <2>2, <2>3 DEF PipeInv
  <2>4. CASE Live(p)' /\ Live(p)
    BY <2>1, <2>2, <2>4 DEF PipeInv, Unread
  <2>5. CASE Live(p)' /\ ~Live(p)
    <3>1. p > made /\ Ahead(p)' = << >>
      BY <2>5
    <3>2. pipes[p] = << >> /\ sent[p] = << >> /\ received[p] = << >>
      BY <2>1, <3>1 DEF PipeInv
    <3>3. Carries(<< >>, sent[p], Len(sent[p]), << >>)
      <4>1. sent[p] \in Seq(Sendable) /\ << >> \in Seq(Nat)
        BY PipeParts DEF FifoInv
      <4> QED BY ONLY <4>1, CutNothing
    <3>4. Unread(p)'
      BY <3>1, <3>2, <3>3 DEF Unread
    <3> QED BY <2>1, <2>2, <3>4 DEF PipeInv
  <2> QED BY <2>3, <2>4, <2>5
<1>3. aborted' = aborted /\ DOMAIN pipes' = DOMAIN pipes /\ Pipes' = Pipes
  BY DEF Pipes
<1> QED BY <1>2, <1>3 DEF FifoInv

LEMMA WriterOpenStep ==
  ASSUME FifoInv, WriterOpen
  PROVE  FifoInv'
<1> USE DEF FifoInv, WriterOpen, rvars
<1>1. TypeOK'
  <2>1. TypeOK /\ writers' \in 0..MAX_WRITERS /\ wfd' \in 0..MAX_PIPES /\ last_id' \in 0..MAX_ID
    BY DEF TypeOK
  <2>2. /\ wpc' = "idle" /\ wobj' = Ping /\ wret' = FALSE
        /\ UNCHANGED <<pipes, sent, path, made, rfd, rpc, header, rbuf, rret, aborted, received>>
    OBVIOUS
  <2> HIDE DEF WriterOpen, FifoInv
  <2> QED BY <2>1, <2>2 DEF TypeOK
<1>2. Handles'
  BY DEF Handles
<1>3. Prepared'
  BY DEF Prepared
<1>4. \A p \in Pipes : (Live(p)' => Live(p)) /\ Ahead(p)' = Ahead(p)
  BY DEF Live, Ahead
<1>5. (~aborted /\ DOMAIN pipes = Pipes /\ \A p \in Pipes : PipeInv(p))'
  BY <1>4, PipesKept
<1> QED BY <1>1, <1>2, <1>3, <1>5

LEMMA WriteRefusedStep ==
  ASSUME FifoInv, WriteFails \/ \E obj \in Objects : WriteRefused(obj)
  PROVE  FifoInv'
<1> USE DEF FifoInv, WriteFails, WriteRefused, rvars
<1>1. TypeOK'
  BY DEF TypeOK
<1>2. Handles' /\ Prepared'
  BY DEF Handles, Prepared
<1>3. \A p \in Pipes : (Live(p)' => Live(p)) /\ Ahead(p)' = Ahead(p)
  BY DEF Live, Ahead
<1>4. (~aborted /\ DOMAIN pipes = Pipes /\ \A p \in Pipes : PipeInv(p))'
  BY <1>3, PipesKept
<1> QED BY <1>1, <1>2, <1>4

LEMMA WriteSerializeStep ==
  ASSUME FifoInv, NEW obj \in Objects, WriteSerialize(obj)
  PROVE  FifoInv'
<1> USE DEF FifoInv, WriteSerialize, rvars
<1>1. TypeOK'
  BY DEF TypeOK
<1>2. Handles'
  BY DEF Handles
<1>3. Prepared'
  BY DEF Prepared, TypeOK
<1>4. \A p \in Pipes : (Live(p)' => Live(p)) /\ Ahead(p)' = Ahead(p)
  BY DEF Live, Ahead
<1>5. (~aborted /\ DOMAIN pipes = Pipes /\ \A p \in Pipes : PipeInv(p))'
  BY <1>4, PipesKept
<1> QED BY <1>1, <1>2, <1>3, <1>5

\* One more message in the history of p.
LEMMA LongerHistory ==
  ASSUME NEW h \in [Pipes -> Seq(Message)], NEW p \in Pipes, NEW m \in Message,
         NEW h2, h2 = [h EXCEPT ![p] = Append(@, m)]
  PROVE  /\ h2 \in [Pipes -> Seq(Message)]
         /\ h2[p] = Append(h[p], m) /\ Len(h[p]) \in Nat /\ Len(h2[p]) = Len(h[p]) + 1
         /\ h2[p][Len(h[p]) + 1] = m /\ \A i \in 1..Len(h[p]) : h2[p][i] = h[p][i]
         /\ \A o \in Pipes \ {p} : h2[o] = h[o]
<1>1. h[p] \in Seq(Message) /\ Append(h[p], m) \in Seq(Message)
  OBVIOUS
<1>2. h2 \in [Pipes -> Seq(Message)] /\ h2[p] = Append(h[p], m)
  BY <1>1
<1> QED BY <1>1, <1>2

LEMMA WriteIntoPipeStep ==
  ASSUME FifoInv, WriteIntoPipe
  PROVE  FifoInv'
<1>a. PICK cells : cells = Wire(last_id, wobj)
  OBVIOUS
<1>b. PICK m : m = [id |-> last_id, obj |-> wobj]
  OBVIOUS
<1>1. /\ TypeOK /\ Handles /\ Prepared /\ ~aborted
      /\ DOMAIN pipes = Pipes /\ \A p \in Pipes : PipeInv(p)
  BY DEF FifoInv
<1>2. /\ wpc = "write" /\ wpc' = "idle"
      /\ Len(pipes[wfd]) + Len(cells) <= CAPACITY
      /\ pipes' = [pipes EXCEPT ![wfd] = pipes[wfd] \o cells]
      /\ sent' = [sent EXCEPT ![wfd] = Append(@, m)]
      /\ wret' = TRUE
      /\ UNCHANGED <<writers, wfd, wobj, last_id, rvars>>
  BY <1>a, <1>b DEF WriteIntoPipe
<1>3. wfd \in Pipes /\ wfd <= made
  BY <1>1, <1>2 DEF TypeOK, Handles, Pipes
<1>4. /\ m \in Message /\ m \in Sendable /\ WireCells(m) = cells /\ cells \in Seq(Nat)
      /\ Fits(m.obj, BODY_SIZE)
  <2>1. last_id \in 1..MAX_ID /\ wobj \in Objects /\ Fits(wobj, BODY_SIZE)
    BY <1>1, <1>2 DEF TypeOK, Prepared
  <2>2. last_id \in Nat /\ wobj \in DataObject
    BY <2>1
  <2>3. cells \in Seq(Nat)
    BY <1>a, <2>2, WireFacts
  <2> QED BY <1>a, <1>b, <2>1, <2>2, <2>3 DEF Message, Sendable, WireCells
<1>5. /\ sent' \in [Pipes -> Seq(Message)]
      /\ sent'[wfd] = Append(sent[wfd], m) /\ Len(sent'[wfd]) = Len(sent[wfd]) + 1
      /\ sent'[wfd][Len(sent[wfd]) + 1] = m
      /\ \A i \in 1..Len(sent[wfd]) : sent'[wfd][i] = sent[wfd][i]
      /\ \A o \in Pipes \ {wfd} : sent'[o] = sent[o]
  <2>1. sent \in [Pipes -> Seq(Message)]
    BY <1>1 DEF TypeOK
  <2> QED BY ONLY <1>2, <1>3, <1>4, <2>1, LongerHistory
<1>6. /\ pipes'[wfd] = pipes[wfd] \o cells /\ DOMAIN pipes' = Pipes
      /\ \A o \in Pipes \ {wfd} : pipes'[o] = pipes[o]
  BY <1>1, <1>2, <1>3
<1>7. /\ pipes[wfd] \o cells \in Seq(Nat)
      /\ Len(pipes[wfd] \o cells) = Len(pipes[wfd]) + Len(cells)
  <2>1. pipes[wfd] \in Seq(Nat)
    BY <1>1, <1>3, PipeParts
  <2> QED BY <1>4, <2>1, ConcatProperties
<1>8. TypeOK'
  <2>1. \A p \in Pipes : pipes'[p] \in Seq(Nat) /\ Len(pipes'[p]) <= CAPACITY
    BY <1>1, <1>2, <1>6, <1>7, PipeParts
  <2> QED BY <1>1, <1>2, <1>5, <2>1 DEF TypeOK, rvars
<1>9. Handles' /\ Prepared'
  BY <1>1, <1>2 DEF Handles, Prepared, rvars
<1>10. ASSUME NEW p \in Pipes, p # wfd PROVE PipeInv(p)'
  <2>1. pipes'[p] = pipes[p] /\ sent'[p] = sent[p] /\ received'[p] = received[p]
    BY <1>2, <1>5, <1>6, <1>10 DEF rvars
  <2>2. Live(p)' => Live(p)
    BY <1>2 DEF Live, rvars
  <2>3. Ahead(p)' = Ahead(p)
    BY <1>2, <2>1 DEF Ahead, rvars
  <2>4. PipeInv(p) /\ made' = made
    BY <1>1, <1>2 DEF rvars
  <2> QED BY <2>1, <2>2, <2>3, <2>4, PipeKept
<1>11. ASSUME NEW p \in Pipes, p = wfd PROVE PipeInv(p)'
  <2>a. PICK h : h = HeaderCells(header)
    OBVIOUS
  <2>1. /\ pipes'[p] = pipes[p] \o cells /\ pipes'[p] \in Seq(Nat)
        /\ sent'[p] = Append(sent[p], m) /\ Len(sent'[p]) = Len(sent[p]) + 1
        /\ sent'[p][Len(sent[p]) + 1] = m
        /\ \A i \in 1..Len(sent[p]) : sent'[p][i] = sent[p][i]
        /\ received'[p] = received[p] /\ made' = made /\ p <= made
    BY <1>2, <1>3, <1>5, <1>6, <1>7, <1>11 DEF rvars
  <2>2. /\ sent[p] \in Seq(Sendable) /\ Len(sent[p]) \in Nat /\ Len(received[p]) \in Nat
        /\ pipes[p] \in Seq(Nat) /\ p \in Nat /\ made \in Nat
    BY <1>1, PipeParts DEF TypeOK
  <2>3. PipeInv(p)
    BY <1>1
  <2>4. Ahead(p)' = Ahead(p) \o cells
    <3>1. CASE p = rfd /\ rpc = "body"
      <4>1. Ahead(p) = h \o pipes[p] /\ Ahead(p)' = h \o (pipes[p] \o cells)
        BY <1>2, <2>1, <2>a, <3>1 DEF Ahead, rvars
      <4>2. h \in Seq(Nat)
        BY <1>1, <2>a, HeaderParts
      <4>3. cells \in Seq(Nat) /\ pipes[p] \in Seq(Nat)
        BY <1>4, <2>2
      <4>4. (h \o pipes[p]) \o cells = h \o (pipes[p] \o cells)
        BY ONLY <4>2, <4>3, Associative
      <4> QED BY <4>1, <4>4
    <3>2. CASE ~(p = rfd /\ rpc = "body")
      BY <1>2, <2>1, <3>2 DEF Ahead, rvars
    <3> QED BY <3>1, <3>2
  <2>5. ASSUME Live(p)' PROVE Unread(p)'
    <3>1. Live(p)
      BY <1>2, <2>5 DEF Live, rvars
    <3>2. Carries(Ahead(p), sent[p], Len(received[p]), << >>)
      BY <2>3, <3>1 DEF PipeInv, Unread
    <3>3. Len(received[p]) \in 0..Len(sent[p]) /\ Ahead(p) \in Seq(Nat)
      BY <1>1, <2>2, <2>3, AheadType DEF PipeInv
    <3>4. Carries(Ahead(p) \o WireCells(m), Append(sent[p], m), Len(received[p]), << >>)
      BY ONLY <1>4, <2>2, <3>2, <3>3, CutJoins
    <3>5. Ahead(p)' = Ahead(p) \o WireCells(m)
      BY <1>4, <2>4
    <3>6. Carries(Ahead(p)', sent'[p], Len(received'[p]), << >>)
      BY <2>1, <3>4, <3>5
    <3> QED BY <3>6 DEF Unread
  <2>6. \A i \in 1..Len(sent'[p]) : Fits(sent'[p][i].obj, BODY_SIZE)
    <3> SUFFICES ASSUME NEW i \in 1..Len(sent'[p]) PROVE Fits(sent'[p][i].obj, BODY_SIZE)
      OBVIOUS
    <3>1. i \in 1..Len(sent[p]) \/ i = Len(sent[p]) + 1
      BY <2>1, <2>2
    <3> QED BY <1>4, <2>1, <2>3, <3>1 DEF PipeInv
  <2>7. \A i \in 1..Len(received'[p]) : received'[p][i] = sent'[p][i]
    BY <2>1, <2>2, <2>3 DEF PipeInv
  <2>8. Len(received'[p]) <= Len(sent'[p]) /\ ~(p > made')
    BY <2>1, <2>2, <2>3 DEF PipeInv
  <2> QED BY <2>1, <2>5, <2>6, <2>7, <2>8 DEF PipeInv
<1>12. ~aborted' /\ DOMAIN pipes' = Pipes' /\ \A p \in Pipes : PipeInv(p)'
  BY <1>1, <1>2, <1>6, <1>10, <1>11 DEF rvars, Pipes
<1> QED BY <1>8, <1>9, <1>12 DEF FifoInv, Pipes

\* A process lets go of a pipe, and the other may have it open.
LEMMA LetGoKeeps ==
  ASSUME FifoInv, NEW fd \in 0..MAX_PIPES, fd <= made, NEW other, LetGo(fd, other),
         UNCHANGED <<received, aborted, made>>,
         \A p \in Pipes : Live(p)' /\ pipes'[p] = pipes[p] => Live(p) /\ Ahead(p)' = Ahead(p),
         \A p \in Pipes : p = fd /\ fd # other => Ahead(p)' = pipes'[p]
  PROVE  /\ (~aborted /\ DOMAIN pipes = Pipes /\ \A p \in Pipes : PipeInv(p))'
         /\ \A p \in Pipes : pipes'[p] \in Seq(Nat) /\ Len(pipes'[p]) <= CAPACITY
         /\ sent' \in [Pipes -> Seq(Message)]
<1>1. /\ TypeOK /\ ~aborted /\ DOMAIN pipes = Pipes /\ \A p \in Pipes : PipeInv(p)
      /\ sent \in [Pipes -> Seq(Message)]
  BY DEF FifoInv, TypeOK
<1>2. ASSUME NEW p \in Pipes, pipes'[p] = pipes[p], sent'[p] = sent[p]
      PROVE  PipeInv(p)' /\ pipes'[p] \in Seq(Nat) /\ Len(pipes'[p]) <= CAPACITY
  <2>1. received'[p] = received[p] /\ (p > made' => p > made) /\ PipeInv(p)
    BY <1>1
  <2>2. Live(p)' => Live(p) /\ Ahead(p)' = Ahead(p)
    BY <1>2
  <2> QED BY <1>1, <1>2, <2>1, <2>2, PipeKept, PipeParts
<1>3. CASE fd = 0 \/ fd = other
  <2>1. pipes' = pipes /\ sent' = sent
    BY <1>3 DEF LetGo
  <2> QED BY <1>1, <1>2, <2>1 DEF Pipes
<1>4. CASE ~(fd = 0 \/ fd = other)
  <2>1. fd \in Pipes /\ received[fd] \in Seq(Message)
    BY <1>1, <1>4 DEF Pipes, TypeOK
  <2>2. /\ pipes' = [pipes EXCEPT ![fd] = << >>]
        /\ sent' = [sent EXCEPT ![fd] = received[fd]]
    BY <1>4 DEF LetGo
  <2>3. /\ sent' \in [Pipes -> Seq(Message)] /\ sent'[fd] = received[fd]
        /\ DOMAIN pipes' = Pipes /\ pipes'[fd] = << >>
        /\ \A p \in Pipes \ {fd} : pipes'[p] = pipes[p] /\ sent'[p] = sent[p]
    BY <1>1, <2>1, <2>2
  <2>4. ASSUME NEW p \in Pipes
        PROVE  PipeInv(p)' /\ pipes'[p] \in Seq(Nat) /\ Len(pipes'[p]) <= CAPACITY
    <3>1. CASE p # fd
      BY <1>2, <2>3, <3>1
    <3>2. CASE p = fd
      <4>1. Ahead(p)' = pipes'[p]
        BY <1>4, <3>2
      <4>2. p <= made /\ pipes'[p] = << >> /\ sent'[p] = received[p] /\ received'[p] = received[p]
        BY <2>3, <3>2
      <4>3. PipeInv(p)'
        BY <4>1, <4>2, PipeLetGo
      <4>4. << >> \in Seq(Nat) /\ Len(<< >>) <= CAPACITY
        OBVIOUS
      <4> QED BY <4>2, <4>3, <4>4
    <3> QED BY <3>1, <3>2
  <2> QED BY <1>1, <2>3, <2>4 DEF Pipes
<1> QED BY <1>3, <1>4

LEMMA WriterExitStep ==
  ASSUME FifoInv, WriterExit
  PROVE  FifoInv'
<1>1. TypeOK /\ Handles /\ Prepared
  BY DEF FifoInv
<1>2. /\ wpc # "closed" /\ wpc' = "closed" /\ wfd' = 0 /\ LetGo(wfd, rfd)
      /\ UNCHANGED <<writers, wobj, last_id, wret, rvars>>
  BY DEF WriterExit
<1>3. wfd \in 0..MAX_PIPES /\ wfd <= made
  BY <1>1 DEF TypeOK, Handles
<1>4. ASSUME NEW p \in Pipes, pipes'[p] = pipes[p]
      PROVE  (Live(p)' => Live(p)) /\ Ahead(p)' = Ahead(p)
  BY <1>2, <1>4 DEF Live, Ahead, rvars
<1>5. ASSUME NEW p \in Pipes, p = wfd, wfd # rfd PROVE Ahead(p)' = pipes'[p]
  BY <1>2, <1>5 DEF Ahead, rvars
<1>6. UNCHANGED <<received, aborted, made>>
  BY <1>2 DEF rvars
<1>7. /\ (~aborted /\ DOMAIN pipes = Pipes /\ \A p \in Pipes : PipeInv(p))'
      /\ \A p \in Pipes : pipes'[p] \in Seq(Nat) /\ Len(pipes'[p]) <= CAPACITY
      /\ sent' \in [Pipes -> Seq(Message)]
  BY <1>2, <1>3, <1>4, <1>5, <1>6, LetGoKeeps
<1>8. TypeOK'
  BY <1>1, <1>2, <1>7 DEF TypeOK, rvars
<1>9. Handles' /\ Prepared'
  BY <1>1, <1>2 DEF TypeOK, Handles, Prepared, rvars
<1> QED BY <1>7, <1>8, <1>9 DEF FifoInv

-----------------------------------------------------------------------------
(* open() and close() of the reading process. *)

\* The handler of a new process, or the same one.
LEMMA HandlerType ==
  ASSUME TypeOK, FreshHandler \/ SameHandler
  PROVE  /\ header' \in [id : Nat, type : Nat, body_size : Nat]
         /\ rbuf' \in [BufferIx -> Nat]
         /\ rret' \in {"none", "timeout", "ready", "message"} \cup CommunicationError
<1>1. CASE FreshHandler
  <2>1. header' \in [id : Nat, type : Nat, body_size : Nat]
    BY <1>1 DEF FreshHandler, ZeroHeader, DataHeader, INVALID
  <2> QED BY <1>1, <2>1 DEF FreshHandler
<1>2. CASE SameHandler
  BY <1>2 DEF SameHandler, TypeOK
<1> QED BY <1>1, <1>2

LEMMA OpenStepFacts ==
  ASSUME TypeOK, NEW from, NEW to, OpenStep(from, to)
  PROVE  /\ rpc = from /\ rpc' = to
         /\ header' \in [id : Nat, type : Nat, body_size : Nat]
         /\ rbuf' \in [BufferIx -> Nat]
         /\ rret' \in {"none", "timeout", "ready", "message"} \cup CommunicationError
         /\ UNCHANGED <<writers, wfd, wpc, wobj, last_id, wret, aborted, received>>
<1>1. FreshHandler \/ SameHandler
  BY DEF OpenStep
<1> QED BY <1>1, HandlerType DEF OpenStep, wvars

\* The steps of open() and of the end of close(), which touch no cell.
LEMMA ReaderOpenSteps ==
  ASSUME FifoInv, ReaderUnlinkOld \/ ReaderMkfifo \/ ReaderOpen \/ ReaderOpenFails \/ ReaderUnlink
  PROVE  FifoInv'
<1>1. /\ TypeOK /\ Handles /\ Prepared /\ ~aborted
      /\ \A p \in Pipes : PipeInv(p)
  BY DEF FifoInv
<1>2. /\ path \in Nat /\ made \in Nat /\ rfd \in Nat /\ path <= made /\ rfd <= made
      /\ path \in 0..MAX_PIPES /\ made \in 0..MAX_PIPES /\ rfd \in 0..MAX_PIPES
  BY <1>1 DEF TypeOK, Handles
<1>3. /\ header' \in [id : Nat, type : Nat, body_size : Nat]
      /\ rbuf' \in [BufferIx -> Nat]
      /\ rret' \in {"none", "timeout", "ready", "message"} \cup CommunicationError
      /\ UNCHANGED <<writers, wfd, wpc, wobj, last_id, wret, aborted, received, pipes, sent>>
  BY <1>1, OpenStepFacts
     DEF ReaderUnlinkOld, ReaderMkfifo, ReaderOpen, ReaderOpenFails, ReaderUnlink
<1>4. \/ rpc = "closed" /\ rpc' = "mkfifo" /\ made < MAX_PIPES
         /\ path' = 0 /\ made' = made /\ rfd' = rfd
      \/ rpc = "mkfifo" /\ rpc' = "open" /\ path' = made + 1 /\ made' = made + 1 /\ rfd' = rfd
      \/ rpc = "open" /\ rpc' = "await" /\ path' = path /\ made' = made /\ rfd' = path
      \/ rpc \in {"mkfifo", "open", "unlink"} /\ rpc' = "closed"
         /\ path' = 0 /\ made' = made /\ rfd' = rfd
  BY DEF ReaderUnlinkOld, ReaderMkfifo, ReaderOpen, ReaderOpenFails, ReaderUnlink, OpenStep
<1>5. rpc = "mkfifo" => made < MAX_PIPES
  BY <1>1 DEF Handles
<1>6. TypeOK'
  <2>1. /\ path' \in 0..MAX_PIPES /\ made' \in 0..MAX_PIPES /\ rfd' \in 0..MAX_PIPES
    BY <1>2, <1>4, <1>5
  <2>2. rpc' \in {"closed", "mkfifo", "open", "await", "header", "body", "unlink"}
    BY <1>4
  <2> QED BY <1>1, <1>3, <2>1, <2>2 DEF TypeOK
<1>7. Handles'
  BY <1>1, <1>2, <1>3, <1>4 DEF Handles, TypeOK
<1>8. Prepared'
  BY <1>1, <1>3 DEF Prepared
<1>9. made' \in {made, made + 1}
  BY <1>4
<1>10. rfd # 0 => FALSE
  BY <1>1, <1>4 DEF Handles
<1>11. ASSUME NEW p \in Pipes, Live(p)'
       PROVE  /\ Live(p) \/ (p > made /\ Ahead(p)' = << >>)
              /\ Live(p) => Ahead(p)' = Ahead(p)
  <2>1. p # 0 /\ p \in Nat /\ PipeInv(p)
    BY <1>1 DEF Pipes
  <2>2. /\ p = rfd' \/ (p = path' /\ rpc' = "open")
        /\ Ahead(p) = pipes[p] /\ Ahead(p)' = pipes[p]
    BY <1>3, <1>4, <1>11 DEF Live, Ahead
  <2>3. CASE rpc = "mkfifo"
    <3>1. p = made + 1
      BY <1>4, <1>10, <2>1, <2>2, <2>3
    <3>2. p > made
      BY <1>2, <3>1
    <3> QED BY <2>1, <2>2, <3>2 DEF PipeInv
  <2>4. CASE rpc = "open"
    <3>1. p = path
      BY <1>4, <1>10, <2>1, <2>2, <2>4
    <3> QED BY <2>2, <2>4, <3>1 DEF Live
  <2>5. CASE rpc \notin {"mkfifo", "open"}
    BY <1>4, <1>10, <2>1, <2>2, <2>5
  <2> QED BY <2>3, <2>4, <2>5
<1>12. (~aborted /\ DOMAIN pipes = Pipes /\ \A p \in Pipes : PipeInv(p))'
  BY <1>3, <1>9, <1>11, PipesKept
<1> QED BY <1>6, <1>7, <1>8, <1>12 DEF FifoInv

LEMMA ReaderLeaves ==
  ASSUME FifoInv, ReaderClose \/ ReaderKilled
  PROVE  FifoInv'
<1>1. TypeOK /\ Handles /\ Prepared
  BY DEF FifoInv
<1>2. /\ header' \in [id : Nat, type : Nat, body_size : Nat]
      /\ rbuf' \in [BufferIx -> Nat]
      /\ rret' \in {"none", "timeout", "ready", "message"} \cup CommunicationError
      /\ UNCHANGED <<writers, wfd, wpc, wobj, last_id, wret, aborted, received, path, made>>
      /\ rpc' \in {"unlink", "closed"} /\ rfd' = 0
      /\ LetGo(rfd, wfd)
  BY <1>1, OpenStepFacts DEF ReaderClose, ReaderKilled
<1>3. rfd \in 0..MAX_PIPES /\ rfd <= made
  BY <1>1 DEF TypeOK, Handles
<1>4. \A p \in Pipes : ~Live(p)' /\ Ahead(p)' = pipes'[p]
  BY <1>2 DEF Live, Ahead, Pipes
<1>5. /\ (~aborted /\ DOMAIN pipes = Pipes /\ \A p \in Pipes : PipeInv(p))'
      /\ \A p \in Pipes : pipes'[p] \in Seq(Nat) /\ Len(pipes'[p]) <= CAPACITY
      /\ sent' \in [Pipes -> Seq(Message)]
  BY <1>2, <1>3, <1>4, LetGoKeeps
<1>6. TypeOK'
  BY <1>1, <1>2, <1>5 DEF TypeOK
<1>7. Handles' /\ Prepared'
  BY <1>1, <1>2 DEF TypeOK, Handles, Prepared
<1> QED BY <1>5, <1>6, <1>7 DEF FifoInv

-----------------------------------------------------------------------------
(* await_data() and read(). *)

LEMMA AwaitStep ==
  ASSUME FifoInv, Await
  PROVE  FifoInv'
<1> USE DEF FifoInv
<1>1. /\ rpc = "await" /\ rpc' \in {"header", "await"} /\ rret' \in {"ready", "timeout"}
      /\ UNCHANGED <<path, made, sent, writers, wfd, wpc, wobj, last_id, wret, rfd,
                     pipes, header, rbuf, aborted, received>>
  BY DEF Await, ReaderStep, wvars
<1>2. TypeOK'
  BY <1>1 DEF TypeOK
<1>3. Handles' /\ Prepared'
  BY <1>1 DEF Handles, Prepared
<1>4. \A p \in Pipes : (Live(p)' => Live(p)) /\ Ahead(p)' = Ahead(p)
  BY <1>1 DEF Live, Ahead
<1>5. (~aborted /\ DOMAIN pipes = Pipes /\ \A p \in Pipes : PipeInv(p))'
  BY <1>1, <1>4, PipesKept
<1> QED BY <1>2, <1>3, <1>5

\* In front of the reading process is the next message that it did not read.
Front(s, m) ==
  /\ s = Ahead(rfd)
  /\ Len(received[rfd]) < Len(sent[rfd]) /\ m = sent[rfd][Len(received[rfd]) + 1]
  /\ m \in Message /\ m.obj \in DataObject /\ Fits(m.obj, BODY_SIZE)
  /\ StartsWith(s, m)
  /\ Carries(SubSeq(s, (HEADER_SIZE + SerializedSize(m.obj)) + 1, Len(s)), sent[rfd],
             Len(received[rfd]) + 1, << >>)

LEMMA ReaderFront ==
  ASSUME FifoInv, rfd \in Pipes, NEW s, s = Ahead(rfd), Len(s) > 0
  PROVE  \E m : Front(s, m)
<1>b. PICK q : q = sent[rfd]
  OBVIOUS
<1>c. PICK r : r = Len(received[rfd])
  OBVIOUS
<1>1. TypeOK /\ PipeInv(rfd) /\ Live(rfd)
  BY DEF FifoInv, Live
<1>2. /\ s \in Seq(Nat) /\ q \in Seq(Sendable) /\ q \in Seq(Message) /\ r \in 0..Len(q)
      /\ Carries(s, q, r, << >>) /\ Len(s) > 0
  BY <1>1, <1>b, <1>c, AheadType, PipeParts DEF PipeInv, Unread
<1>3. /\ r < Len(q) /\ StartsWith(s, q[r + 1])
      /\ Carries(SubSeq(s, (HEADER_SIZE + SerializedSize(q[r + 1].obj)) + 1, Len(s)),
                 q, r + 1, << >>)
  BY ONLY <1>2, CutFront
<1>4. r + 1 \in 1..Len(q)
  BY <1>2, <1>3
<1>5. q[r + 1] \in Message /\ q[r + 1].obj \in DataObject /\ Fits(q[r + 1].obj, BODY_SIZE)
  <2>1. q[r + 1] \in Message
    BY <1>2, <1>4
  <2>2. q[r + 1].obj \in Objects
    BY <2>1 DEF Message
  <2> QED BY <1>1, <1>4, <1>b, <2>1, <2>2 DEF PipeInv
<1>6. Front(s, q[r + 1])
  BY <1>3, <1>5, <1>b, <1>c DEF Front
<1> QED BY <1>6

LEMMA ReadNoDataStep ==
  ASSUME FifoInv, ReadNoData
  PROVE  FifoInv'
<1>1. TypeOK /\ Handles /\ Prepared
  BY DEF FifoInv
<1>2. /\ rpc = "header" \/ (rpc = "body" /\ header.body_size > 0)
      /\ pipes[rfd] = << >> /\ rpc' = "await" /\ rret' = "NO_DATA_AVAILABLE"
      /\ UNCHANGED <<path, made, sent, writers, wfd, wpc, wobj, last_id, wret, rfd,
                     pipes, header, rbuf, aborted, received>>
  BY DEF ReadNoData, ReaderStep, wvars
<1>3. rfd \in Pipes
  BY <1>1, <1>2 DEF TypeOK, Handles, Pipes
<1>4. ASSUME rpc = "body" PROVE FALSE
  <2>a. PICK h : h = HeaderCells(header)
    OBVIOUS
  <2>1. h \in Seq(Nat) /\ Len(h) = 3 /\ h[3] = header.body_size /\ header.body_size \in Nat
    BY <1>1, <2>a, HeaderParts
  <2>2. Ahead(rfd) = h
    <3>1. h \o << >> = h
      BY <2>1
    <3> QED BY <1>2, <1>4, <2>a, <3>1 DEF Ahead
  <2>3. h = Ahead(rfd) /\ Len(h) > 0
    BY <2>1, <2>2
  <2>4. PICK m : Front(h, m)
    BY <1>3, <2>3, ReaderFront
  <2>5. /\ SerializedSize(m.obj) \in Nat /\ Len(h) >= 3 + SerializedSize(m.obj)
        /\ h[3] = SerializedSize(m.obj)
    BY <2>4 DEF Front, StartsWith, HEADER_SIZE
  <2> QED BY <1>2, <1>4, <2>1, <2>5
<1>5. TypeOK'
  BY <1>1, <1>2 DEF TypeOK, CommunicationError
<1>6. Handles' /\ Prepared'
  BY <1>1, <1>2 DEF Handles, Prepared
<1>7. \A p \in Pipes : (Live(p)' => Live(p)) /\ Ahead(p)' = Ahead(p)
  BY <1>2, <1>4 DEF Live, Ahead
<1>8. (~aborted /\ DOMAIN pipes = Pipes /\ \A p \in Pipes : PipeInv(p))'
  BY <1>2, <1>7, PipesKept
<1> QED BY <1>5, <1>6, <1>8 DEF FifoInv

\* Taken(n): n cells went from the front of the pipe into buffer_.
Taken(n) ==
  /\ DOMAIN pipes' = Pipes
  /\ pipes'[rfd] = SubSeq(pipes[rfd], n + 1, Len(pipes[rfd]))
  /\ \A p \in Pipes : p # rfd => pipes'[p] = pipes[p]
  /\ \A p \in Pipes : pipes'[p] \in Seq(Nat) /\ Len(pipes'[p]) <= CAPACITY
  /\ rbuf' \in [BufferIx -> Nat]
  /\ \A k \in 1..n : rbuf'[k] = pipes[rfd][k]
  /\ aborted' = FALSE

\* A ::read that finds all it asks for.
LEMMA TakeAll ==
  ASSUME FifoInv, rfd \in Pipes, NEW n \in Nat, n <= Len(pipes[rfd]),
         n <= HEADER_SIZE + BODY_SIZE, Take(n)
  PROVE  Taken(n)
<1>a. PICK s : s = pipes[rfd]
  OBVIOUS
<1>b. PICK x : x = SubSeq(s, 1, n)
  OBVIOUS
<1>c. PICK y : y = SubSeq(s, n + 1, Len(s))
  OBVIOUS
<1>1. TypeOK /\ ~aborted /\ DOMAIN pipes = Pipes
  BY DEF FifoInv
<1>2. s \in Seq(Nat) /\ Len(s) \in Nat /\ Len(s) <= CAPACITY /\ n <= Len(s)
  BY <1>1, <1>a, PipeParts
<1>3. (IF n < Len(s) THEN n ELSE Len(s)) = n
  BY <1>2
<1>4. /\ pipes' = [pipes EXCEPT ![rfd] = y] /\ rbuf' = Overlay(rbuf, x)
      /\ aborted' = (aborted \/ n # n)
  BY <1>3, <1>a, <1>b, <1>c DEF Take
<1>5. x \in Seq(Nat) /\ Len(x) = n /\ \A k \in 1..n : x[k] = s[k]
  BY <1>2, <1>b, FirstFacts
<1>6. y \in Seq(Nat) /\ Len(y) = Len(s) - n
  BY <1>2, <1>c, RestFacts
<1>7. /\ DOMAIN pipes' = Pipes /\ pipes'[rfd] = y
      /\ \A p \in Pipes : p # rfd => pipes'[p] = pipes[p]
  BY <1>1, <1>4
<1>8. \A p \in Pipes : pipes'[p] \in Seq(Nat) /\ Len(pipes'[p]) <= CAPACITY
  <2>1. Len(y) <= CAPACITY
    BY <1>2, <1>6
  <2> QED BY <1>1, <1>6, <1>7, <2>1, PipeParts
<1>9. /\ rbuf' \in [BufferIx -> Nat] /\ \A k \in 1..n : rbuf'[k] = x[k]
  <2>1. rbuf \in [1..(HEADER_SIZE + BODY_SIZE) -> Nat] /\ HEADER_SIZE + BODY_SIZE \in Nat
    BY <1>1 DEF TypeOK, BufferIx, HEADER_SIZE
  <2> QED BY <1>4, <1>5, <2>1, OverlayFacts DEF BufferIx
<1>10. aborted' = FALSE
  BY <1>1, <1>4 DEF TypeOK
<1> QED BY <1>5, <1>7, <1>8, <1>9, <1>10, <1>a, <1>c DEF Taken

LEMMA ReadHeaderStep ==
  ASSUME FifoInv, ReadHeader
  PROVE  FifoInv'
<1>a. PICK s : s = Ahead(rfd)
  OBVIOUS
<1>b. PICK y : y = SubSeq(s, 4, Len(s))
  OBVIOUS
<1>1. TypeOK /\ Handles /\ Prepared /\ ~aborted /\ \A p \in Pipes : PipeInv(p)
  BY DEF FifoInv
<1>2. /\ rpc = "header" /\ rpc' = "body" /\ Take(HEADER_SIZE) /\ pipes[rfd] # << >>
      /\ header' = DataHeader(rbuf'[1], rbuf'[2], rbuf'[3])
      /\ UNCHANGED <<path, made, sent, writers, wfd, wpc, wobj, last_id, wret, rfd,
                     rret, received>>
  BY DEF ReadHeader, ReaderStep, Take, wvars
<1>3. rfd \in Pipes /\ rfd <= made
  BY <1>1, <1>2 DEF TypeOK, Handles, Pipes
<1>4. s = pipes[rfd] /\ s \in Seq(Nat) /\ Len(s) \in Nat /\ Len(s) > 0
  BY <1>1, <1>2, <1>3, <1>a, PipeParts DEF Ahead
<1>5. PICK m : Front(s, m)
  BY <1>3, <1>4, <1>a, ReaderFront
<1>6. Len(s) >= 3
  BY <1>4, <1>5 DEF Front, StartsWith, HEADER_SIZE
<1>7. Taken(3)
  <2>1. 3 <= Len(pipes[rfd]) /\ 3 <= HEADER_SIZE + BODY_SIZE /\ Take(3) /\ 3 \in Nat
    BY <1>2, <1>4, <1>6 DEF HEADER_SIZE
  <2> QED BY <1>3, <2>1, TakeAll
<1>8. /\ DOMAIN pipes' = Pipes /\ pipes'[rfd] = y
      /\ \A p \in Pipes : p # rfd => pipes'[p] = pipes[p]
      /\ \A p \in Pipes : pipes'[p] \in Seq(Nat) /\ Len(pipes'[p]) <= CAPACITY
      /\ rbuf' \in [BufferIx -> Nat] /\ aborted' = FALSE
      /\ \A k \in 1..3 : rbuf'[k] = s[k]
  BY <1>4, <1>7, <1>b DEF Taken
<1>9. /\ header'.id = s[1] /\ header'.type = s[2] /\ header'.body_size = s[3]
      /\ s[1] \in Nat /\ s[2] \in Nat /\ s[3] \in Nat
      /\ header' \in [id : Nat, type : Nat, body_size : Nat]
  <2>1. rbuf'[1] = s[1] /\ rbuf'[2] = s[2] /\ rbuf'[3] = s[3]
    BY <1>8
  <2>2. 1 \in 1..Len(s) /\ 2 \in 1..Len(s) /\ 3 \in 1..Len(s)
    BY <1>4, <1>6
  <2>3. s[1] \in Nat /\ s[2] \in Nat /\ s[3] \in Nat
    BY <1>4, <2>2
  <2> QED BY <1>2, <2>1, <2>3 DEF DataHeader
<1>10. HeaderCells(header') \o y = s
  <2>a. PICK x : x = SubSeq(s, 1, 3)
    OBVIOUS
  <2>b. PICK h : h = HeaderCells(header')
    OBVIOUS
  <2>1. x \in Seq(Nat) /\ Len(x) = 3 /\ \A k \in 1..3 : x[k] = s[k]
    BY <1>4, <1>6, <2>a, FirstFacts
  <2>2. s = x \o y
    <3>1. 3 \in Nat /\ 3 <= Len(s) /\ 3 + 1 = 4
      BY <1>6
    <3>2. s = SubSeq(s, 1, 3) \o SubSeq(s, 3 + 1, Len(s))
      BY ONLY <1>4, <3>1, SplitCells
    <3> QED BY <1>b, <2>a, <3>1, <3>2
  <2>3. h \in Seq(Nat) /\ Len(h) = 3 /\ h[1] = s[1] /\ h[2] = s[2] /\ h[3] = s[3]
    BY <1>9, <2>b DEF HeaderCells
  <2>4. \A k \in 1..3 : h[k] = x[k]
    BY <2>1, <2>3
  <2>5. h = x
    BY <2>1, <2>3, <2>4, SameCells
  <2> QED BY <2>2, <2>5, <2>b
<1>11. TypeOK'
  <2>1. /\ rpc' = "body" /\ header' \in [id : Nat, type : Nat, body_size : Nat]
        /\ \A p \in Pipes : pipes'[p] \in Seq(Nat) /\ Len(pipes'[p]) <= CAPACITY
        /\ rbuf' \in [BufferIx -> Nat] /\ aborted' \in BOOLEAN
        /\ UNCHANGED <<path, made, sent, writers, wfd, wpc, wobj, last_id, wret, rfd,
                       rret, received>>
    BY <1>2, <1>8, <1>9
  <2> QED BY <1>1, <2>1 DEF TypeOK
<1>12. Handles' /\ Prepared'
  BY <1>1, <1>2 DEF Handles, Prepared
<1>13. ASSUME NEW p \in Pipes PROVE PipeInv(p)'
  <2>1. PipeInv(p) /\ sent'[p] = sent[p] /\ received'[p] = received[p] /\ made' = made
    BY <1>1, <1>2
  <2>2. Live(p)' => Live(p)
    BY <1>2 DEF Live
  <2>3. CASE p # rfd
    <3>1. pipes'[p] = pipes[p] /\ Ahead(p)' = Ahead(p)
      BY <1>2, <1>8, <2>3 DEF Ahead
    <3> QED BY <2>1, <2>2, <3>1, PipeKept
  <2>4. CASE p = rfd
    <3>1. Ahead(p) = s /\ pipes'[p] = y
      BY <1>8, <1>a, <2>4
    <3>2. Ahead(p)' = HeaderCells(header') \o y
      BY <1>2, <2>4, <3>1 DEF Ahead
    <3>3. Ahead(p)' = Ahead(p)
      BY <1>10, <3>1, <3>2
    <3>4. Unread(p) => Unread(p)'
      BY <2>1, <3>3 DEF Unread
    <3>5. pipes'[p] \in Seq(Nat) /\ ~(p > made)
      BY <1>1, <1>3, <1>8, <2>4, PipeParts DEF TypeOK
    <3> QED BY <2>1, <2>2, <3>4, <3>5 DEF PipeInv
  <2> QED BY <2>3, <2>4
<1> QED BY <1>8, <1>11, <1>12, <1>13 DEF FifoInv, Pipes

LEMMA ReadBodyStep ==
  ASSUME FifoInv, ReadBody
  PROVE  FifoInv'
<1>a. PICK x : x = pipes[rfd]
  OBVIOUS
<1>b. PICK h : h = HeaderCells(header)
  OBVIOUS
<1>c. PICK s : s = h \o x
  OBVIOUS
<1>d. PICK size : size = header.body_size
  OBVIOUS
<1>1. /\ TypeOK /\ Handles /\ Prepared /\ ~aborted /\ \A p \in Pipes : PipeInv(p)
      /\ DOMAIN pipes = Pipes
  BY DEF FifoInv
<1>2. /\ rpc = "body" /\ header' = header
      /\ \/ size = 0 /\ UNCHANGED <<pipes, rbuf, aborted>>
         \/ size > 0 /\ Take(size)
      /\ UNCHANGED <<path, made, sent, writers, wfd, wpc, wobj, last_id, wret, rfd>>
  BY <1>d DEF ReadBody, ReaderStep, wvars
<1>3. rfd \in Pipes /\ rfd <= made
  BY <1>1, <1>2 DEF TypeOK, Handles, Pipes
<1>4. /\ h \in Seq(Nat) /\ Len(h) = 3
      /\ h[1] = header.id /\ h[2] = header.type /\ h[3] = size /\ size \in Nat
      /\ x \in Seq(Nat) /\ Len(x) \in Nat
  BY <1>1, <1>3, <1>a, <1>b, <1>d, HeaderParts, PipeParts
<1>5. /\ s \in Seq(Nat) /\ Len(s) = 3 + Len(x)
      /\ \A k \in 1..(3 + Len(x)) : s[k] = IF k <= 3 THEN h[k] ELSE x[k - 3]
  <2>1. /\ s \in Seq(Nat) /\ Len(s) = Len(h) + Len(x)
        /\ \A k \in 1..(Len(h) + Len(x)) : s[k] = IF k <= Len(h) THEN h[k] ELSE x[k - Len(h)]
    BY <1>4, <1>c, ConcatProperties
  <2> QED BY <1>4, <2>1
<1>6. s = Ahead(rfd) /\ Len(s) > 0
  BY <1>2, <1>4, <1>5, <1>a, <1>b, <1>c DEF Ahead
<1>7. PICK m : Front(s, m)
  BY <1>3, <1>6, ReaderFront
<1>8. /\ Len(received[rfd]) < Len(sent[rfd]) /\ m = sent[rfd][Len(received[rfd]) + 1]
      /\ m \in Message /\ m.obj \in DataObject /\ size <= BODY_SIZE
      /\ m.id = header.id /\ m.obj.type = header.type /\ SerializedSize(m.obj) = size
      /\ size <= Len(x) /\ \A k \in 1..size : x[k] = Serialize(m.obj)[k]
      /\ Carries(SubSeq(s, (3 + size) + 1, Len(s)), sent[rfd], Len(received[rfd]) + 1, << >>)
  <2>1. s[1] = h[1] /\ s[2] = h[2] /\ s[3] = h[3]
    <3>1. 1 \in 1..(3 + Len(x)) /\ 2 \in 1..(3 + Len(x)) /\ 3 \in 1..(3 + Len(x))
      BY <1>4
    <3> QED BY <1>5, <3>1
  <2>2. /\ m.id = header.id /\ m.obj.type = header.type /\ SerializedSize(m.obj) = size
        /\ Len(s) >= 3 + size /\ \A k \in 1..size : s[3 + k] = Serialize(m.obj)[k]
    BY <1>4, <1>7, <2>1 DEF Front, StartsWith, HEADER_SIZE
  <2>3. size <= Len(x)
    BY <1>4, <1>5, <2>2
  <2>4. \A k \in 1..size : s[3 + k] = x[k]
    <3> SUFFICES ASSUME NEW k \in 1..size PROVE s[3 + k] = x[k]
      OBVIOUS
    <3>1. 3 + k \in 1..(3 + Len(x)) /\ ~(3 + k <= 3) /\ (3 + k) - 3 = k
      BY <1>4, <2>3
    <3> QED BY <1>5, <3>1
  <2>5. size <= BODY_SIZE
    BY <1>7, <2>2 DEF Front, Fits
  <2> QED BY <1>7, <2>2, <2>3, <2>4, <2>5 DEF Front, HEADER_SIZE
<1>9. Taken(size)
  <2>1. CASE size = 0 /\ UNCHANGED <<pipes, rbuf, aborted>>
    <3>1. x = SubSeq(x, 0 + 1, Len(x))
      BY <1>4
    <3>2. \A p \in Pipes : pipes'[p] \in Seq(Nat) /\ Len(pipes'[p]) <= CAPACITY
      BY <1>1, <2>1, PipeParts
    <3>3. rbuf' \in [BufferIx -> Nat] /\ aborted' = FALSE
      BY <1>1, <2>1 DEF TypeOK
    <3> QED BY <1>1, <1>2, <1>a, <2>1, <3>1, <3>2, <3>3 DEF Taken, Pipes
  <2>2. CASE size > 0 /\ Take(size)
    <3>1. size <= Len(pipes[rfd]) /\ size <= HEADER_SIZE + BODY_SIZE
      BY <1>4, <1>8, <1>a DEF HEADER_SIZE
    <3> QED BY <1>3, <1>4, <2>2, <3>1, TakeAll
  <2> QED BY <1>2, <2>1, <2>2
<1>10. deserialize_data_object(header.type, rbuf', size) = m.obj /\ ~IsError(m.obj)
  <2>1. \A k \in 1..SerializedSize(m.obj) : rbuf'[k] = Serialize(m.obj)[k]
    BY <1>8, <1>9, <1>a DEF Taken
  <2>2. deserialize_data_object(m.obj.type, rbuf', SerializedSize(m.obj)) = m.obj
    BY <1>8, <2>1, RoundTrip
  <2> QED BY <1>8, <2>2, ObjectIsNoError
<1>11. /\ rpc' = "header" /\ rret' = "message"
       /\ received' = [received EXCEPT ![rfd] = Append(@, m)]
  <2>1. m = [id |-> header.id, obj |-> m.obj]
    BY <1>8 DEF Message
  <2>2. /\ rpc' = "header" /\ rret' = "message"
        /\ received' = [received EXCEPT ![rfd] = Append(@, [id |-> header.id, obj |-> m.obj])]
    BY <1>10, <1>d DEF ReadBody, ReaderStep
  <2> QED BY <2>1, <2>2
<1>12. /\ received' \in [Pipes -> Seq(Message)]
       /\ Len(received[rfd]) \in Nat /\ Len(received'[rfd]) = Len(received[rfd]) + 1
       /\ received'[rfd][Len(received[rfd]) + 1] = m
       /\ \A i \in 1..Len(received[rfd]) : received'[rfd][i] = received[rfd][i]
       /\ \A o \in Pipes \ {rfd} : received'[o] = received[o]
  <2>1. received \in [Pipes -> Seq(Message)]
    BY <1>1 DEF TypeOK
  <2> QED BY <1>3, <1>8, <1>11, <2>1, LongerHistory
<1>13. SubSeq(x, size + 1, Len(x)) = SubSeq(s, (3 + size) + 1, Len(s))
  <2>a. PICK u : u = SubSeq(x, size + 1, Len(x))
    OBVIOUS
  <2>b. PICK v : v = SubSeq(s, (3 + size) + 1, Len(s))
    OBVIOUS
  <2>c. PICK n : n = 3 + size
    OBVIOUS
  <2>1. size <= Len(x) /\ n \in Nat /\ n <= Len(s) /\ Len(s) - n = Len(x) - size
    BY <1>4, <1>5, <1>8, <2>c
  <2>2. /\ u \in Seq(Nat) /\ Len(u) = Len(x) - size
        /\ \A k \in 1..(Len(x) - size) : u[k] = x[size + k]
    <3>1. x \in Seq(Nat) /\ size \in Nat
      BY <1>4
    <3> QED BY ONLY <2>1, <3>1, <2>a, RestFacts
  <2>3. /\ v \in Seq(Nat) /\ Len(v) = Len(s) - n
        /\ \A k \in 1..(Len(s) - n) : v[k] = s[n + k]
    <3>1. v = SubSeq(s, n + 1, Len(s))
      BY <2>b, <2>c
    <3>2. s \in Seq(Nat)
      BY <1>5
    <3> QED BY ONLY <2>1, <3>1, <3>2, RestFacts
  <2>4. ASSUME NEW k \in 1..Len(u) PROVE u[k] = v[k]
    <3>1. k \in Nat /\ k >= 1 /\ k <= Len(x) - size
      BY <1>4, <2>2
    <3>2. /\ n + k \in 1..(3 + Len(x)) /\ ~(n + k <= 3) /\ (n + k) - 3 = size + k
      BY <1>4, <2>1, <2>c, <3>1
    <3>3. s[n + k] = x[size + k]
      BY <1>5, <3>2
    <3> QED BY <2>1, <2>2, <2>3, <3>3
  <2>5. u = v
    BY <2>1, <2>2, <2>3, <2>4, SameCells
  <2> QED BY <2>5, <2>a, <2>b
<1>14. TypeOK'
  <2>1. /\ rpc' = "header" /\ rret' = "message" /\ header' = header
        /\ \A p \in Pipes : pipes'[p] \in Seq(Nat) /\ Len(pipes'[p]) <= CAPACITY
        /\ rbuf' \in [BufferIx -> Nat] /\ aborted' \in BOOLEAN
        /\ received' \in [Pipes -> Seq(Message)]
        /\ UNCHANGED <<path, made, sent, writers, wfd, wpc, wobj, last_id, wret, rfd>>
    BY <1>2, <1>9, <1>11, <1>12 DEF Taken
  <2> QED BY <1>1, <2>1 DEF TypeOK
<1>15. Handles' /\ Prepared'
  BY <1>1, <1>2, <1>11 DEF Handles, Prepared
<1>16. ASSUME NEW p \in Pipes, p # rfd PROVE PipeInv(p)'
  <2>1. /\ PipeInv(p) /\ sent'[p] = sent[p] /\ received'[p] = received[p] /\ made' = made
        /\ pipes'[p] = pipes[p]
    BY <1>1, <1>2, <1>9, <1>12, <1>16 DEF Taken
  <2>2. Live(p)' => Live(p) /\ Ahead(p)' = Ahead(p)
    BY <1>2, <1>11, <1>16, <2>1 DEF Live, Ahead
  <2> QED BY <2>1, <2>2, PipeKept
<1>17. ASSUME NEW p \in Pipes, p = rfd PROVE PipeInv(p)'
  <2>a. PICK r : r = Len(received[p])
    OBVIOUS
  <2>1. /\ PipeInv(p) /\ sent'[p] = sent[p] /\ made' = made
        /\ pipes'[p] = SubSeq(x, size + 1, Len(x)) /\ pipes'[p] \in Seq(Nat)
        /\ r \in Nat /\ Len(received'[p]) = r + 1 /\ received'[p][r + 1] = m
        /\ \A i \in 1..r : received'[p][i] = received[p][i]
        /\ r < Len(sent[p]) /\ m = sent[p][r + 1] /\ Len(sent[p]) \in Nat
    BY <1>1, <1>2, <1>8, <1>9, <1>12, <1>17, <1>a, <2>a, PipeParts DEF Taken
  <2>2. Ahead(p)' = pipes'[p]
    BY <1>11 DEF Ahead
  <2>3. Carries(pipes'[p], sent[p], r + 1, << >>)
    BY <1>8, <1>13, <1>17, <2>1, <2>a
  <2>4. Unread(p)'
    <3>1. Carries(Ahead(p)', sent'[p], Len(received'[p]), << >>)
      BY <2>1, <2>2, <2>3
    <3> QED BY <3>1 DEF Unread
  <2>5. \A i \in 1..Len(received'[p]) : received'[p][i] = sent'[p][i]
    <3> SUFFICES ASSUME NEW i \in 1..Len(received'[p]) PROVE received'[p][i] = sent'[p][i]
      OBVIOUS
    <3>1. i \in 1..r \/ i = r + 1
      BY <2>1
    <3> QED BY <2>1, <2>a, <3>1 DEF PipeInv
  <2>6. ~(p > made) /\ Len(received'[p]) <= Len(sent'[p])
    <3>1. made \in Nat /\ p \in Nat /\ p <= made
      BY <1>1, <1>3, <1>17 DEF TypeOK, Pipes
    <3> QED BY <2>1, <3>1
  <2> QED BY <2>1, <2>4, <2>5, <2>6 DEF PipeInv
<1>18. ~aborted' /\ DOMAIN pipes' = Pipes' /\ \A p \in Pipes : PipeInv(p)'
  BY <1>9, <1>16, <1>17 DEF Taken, Pipes
<1> QED BY <1>14, <1>15, <1>18 DEF FifoInv, Pipes

-----------------------------------------------------------------------------
(* FifoInv is inductive, and what follows from it. *)

LEMMA NextFifoInv == FifoInv /\ [Next]_vars => FifoInv'
<1> SUFFICES ASSUME FifoInv, [Next]_vars PROVE FifoInv'
  OBVIOUS
<1>1. CASE UNCHANGED vars
  <2> USE <1>1 DEF vars, wvars, rvars, FifoInv
  <2>1. TypeOK'
    BY DEF TypeOK
  <2>2. Handles' /\ Prepared'
    BY DEF Handles, Prepared
  <2>3. \A p \in Pipes : (Live(p)' => Live(p)) /\ Ahead(p)' = Ahead(p)
    BY DEF Live, Ahead
  <2>4. (~aborted /\ DOMAIN pipes = Pipes /\ \A p \in Pipes : PipeInv(p))'
    BY <2>3, PipesKept
  <2> QED BY <2>1, <2>2, <2>4
<1>2. CASE WriterNext
  BY <1>2, WriterOpenStep, WriteIntoPipeStep, WriterExitStep, WriteRefusedStep,
     WriteSerializeStep DEF WriterNext
<1>3. CASE ReaderNext
  BY <1>3, ReaderOpenSteps, ReaderLeaves, AwaitStep, ReadHeaderStep, ReadNoDataStep,
     ReadBodyStep DEF ReaderNext, ReaderReads
<1> QED BY <1>1, <1>2, <1>3 DEF Next

\* Every state of the pipe and of its processes satisfies the invariant.
THEOREM FifoInvariant == Spec => []FifoInv
<1>1. Init => FifoInv
  BY InitFifo
<1>2. FifoInv /\ [Next]_vars => FifoInv'
  BY NextFifoInv
<1> QED BY <1>1, <1>2, PTL DEF Spec

\* The variables of fifo.cpp and of the pipes stay in their ranges; in particular
\* no pipe ever holds more than its capacity.
THEOREM FifoTypes == Spec => []TypeOK
<1>1. FifoInv => TypeOK
  BY DEF FifoInv
<1> QED BY <1>1, FifoInvariant, PTL

\* From each pipe read() returns what was written into it, whole and in order, and
\* its assert() that ::read got all it asked for never fails.
THEOREM FifoOrder == Spec => []InOrder
<1>1. FifoInv => InOrder
  BY DEF FifoInv, PipeInv, InOrder
<1> QED BY <1>1, FifoInvariant, PTL

=============================================================================
