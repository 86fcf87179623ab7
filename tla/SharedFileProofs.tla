-------------------------- MODULE SharedFileProofs --------------------------
(***************************************************************************)
(* Proofs about the ring of module SharedFile, for every number and size   *)
(* of slots, every set of objects, and any number of failed calls.         *)
(*                                                                         *)
(* They come in two steps.  Whatever fails, flush() included, the two      *)
(* processes stay in step, and what read() hands out is a whole message.   *)
(* As long as flush() works, the messages are also the right ones, and the *)
(* file is a bounded first-in-first-out channel.                           *)
(***************************************************************************)
EXTENDS SharedFile, DataObjectsProofs

-----------------------------------------------------------------------------
(* The inductive invariant, whatever fails. *)

\* A buffer_ in memory holds a whole message, or nothing that deserializes.
Whole(buf) ==
  \/ buf.header = ZeroHeader
  \/ \E m \in Message : Fits(m.obj, BODY_SIZE) /\ Holds(buf, m)

\* Slot s of a file f of length e holds a message, all of it.
Filled(f, e, s, m) ==
  /\ Fits(m.obj, BODY_SIZE) /\ Holds(f[s], m)
  /\ Position(s, SerializedSize(m.obj)) < e

\* A slot of the file holds a whole message, or was never written.
WholeSlot(s) ==
  file[s].header = ZeroHeader \/ \E m \in Message : Filled(file, end, s, m)

Current == [id |-> last_id, obj |-> wobj]

WriteBuffer ==
  wpc # "idle" =>
    last_id > 0 /\ wobj \in Objects /\ Fits(wobj, BODY_SIZE) /\ Holds(wbuf, Current)

Buffers ==
  /\ \A s \in Slots : WholeSlot(s)
  /\ \A i \in 1..Len(stream) :
       \E m \in Message : Fits(m.obj, BODY_SIZE) /\ Holds(stream[i].data, m)
  /\ Whole(rbuf)

FileInv == TypeOK /\ InStep /\ WriteBuffer /\ Buffers

-----------------------------------------------------------------------------
(* Facts about the operators of the model. *)

USE FileAssumption

\* % on the offsets of a ring: it wraps once.
Wrap(x) == IF x < TOTAL_AMOUNT THEN x ELSE x - TOTAL_AMOUNT

LEMMA WrapOnce ==
  ASSUME NEW x \in 0..(2 * TOTAL_AMOUNT - 1)
  PROVE  x % TOTAL_AMOUNT \in Slots /\ x % TOTAL_AMOUNT = Wrap(x)
<1> USE DEF Wrap
<1>1. CASE x < TOTAL_AMOUNT
  BY <1>1 DEF Slots
<1>2. CASE x >= TOTAL_AMOUNT
  <2>1. x - TOTAL_AMOUNT \in Slots /\ x = 1 * TOTAL_AMOUNT + (x - TOTAL_AMOUNT)
    BY <1>2 DEF Slots
  <2> QED BY <1>2, <2>1 DEF Slots
<1> QED BY <1>1, <1>2

LEMMA NextOffsetWraps ==
  ASSUME NEW offset \in Slots
  PROVE  /\ NextOffset(offset) \in Slots
         /\ NextOffset(offset) = IF offset + 1 = TOTAL_AMOUNT THEN 0 ELSE offset + 1
BY DEF NextOffset, Slots

\* The cells of a slot follow each other, and the last slot ends where the file may.
LEMMA PositionFacts ==
  ASSUME NEW s \in Slots
  PROVE  /\ Position(s, 0) \in Nat
         /\ \A k \in 0..BODY_SIZE : /\ Position(s, k) = Position(s, 0) + k
                                    /\ Position(s, k) < Position(TOTAL_AMOUNT, 0)
         /\ Position(TOTAL_AMOUNT, 0) \in Nat
<1> DEFINE W == BODY_SIZE + 1
<1>1. W \in Nat /\ s \in Nat /\ TOTAL_AMOUNT \in Nat /\ s + 1 <= TOTAL_AMOUNT
  BY DEF Slots
<1>2. /\ s * W \in Nat /\ TOTAL_AMOUNT * W \in Nat
      /\ (s + 1) * W <= TOTAL_AMOUNT * W
      /\ (s + 1) * W = s * W + W
  <2> HIDE DEF W
  <2>1. \A a, b, c \in Nat : a <= b => a * c <= b * c
    OBVIOUS
  <2> QED BY <1>1, <2>1
<1>3. s * W + W <= TOTAL_AMOUNT * W
  BY <1>2, Zenon
<1> DEFINE p == s * W
           t == TOTAL_AMOUNT * W
<1>4. /\ p \in Nat /\ t \in Nat /\ p + W <= t
  BY <1>2, <1>3
<1>5. Position(TOTAL_AMOUNT, 0) = t /\ \A k \in 0..BODY_SIZE : Position(s, k) = p + k
  BY <1>1, <1>4 DEF Position
<1> HIDE DEF p, t
<1> QED BY <1>4, <1>5

\* An object that may be sent is one of the three kinds.
LEMMA ObjectsAreObjects ==
  ASSUME NEW obj \in Objects
  PROVE  obj \in DataObject /\ SerializedSize(obj) \in Nat
BY SerializeType

\* A whole message in a buffer decodes to it.
LEMMA WholeDecodes ==
  ASSUME NEW buf, NEW m \in Message, Holds(buf, m)
  PROVE  /\ ~IsError(ObjectIn(buf))
         /\ [id |-> buf.header.id, obj |-> ObjectIn(buf)] = m
<1>1. m.obj \in DataObject
  BY ObjectsAreObjects DEF Message
<1>2. ObjectIn(buf) = m.obj /\ ~IsError(m.obj) /\ buf.header.id = m.id
  BY <1>1, HeldObject DEF ObjectIn
<1> QED BY <1>2 DEF Message

\* write(2) puts a whole message where it was told, before the end of the file, and
\* leaves the other slots as they were.
LEMMA PutHolds ==
  ASSUME TypeOK, NEW s \in Slots, NEW data \in Slot, NEW m \in Message,
         Fits(m.obj, BODY_SIZE), Holds(data, m), Put(s, data)
  PROVE  /\ file' \in [Slots -> Slot] /\ end' \in 0..Position(TOTAL_AMOUNT, 0)
         /\ \A t \in Slots \ {s} : file'[t] = file[t]
         /\ end' >= end
         /\ Filled(file', end', s, m)
<1> DEFINE size == SerializedSize(m.obj)
           cells == SubSeq(data.body, 1, size)
           body == Overlay(file[s].body, cells)
<1>1. m.obj \in DataObject /\ size \in 0..BODY_SIZE
  BY ObjectsAreObjects DEF Message, Fits
<1>2. data.header.body_size = size
  BY <1>1, HeldObject
<1>3. data.body \in [1..BODY_SIZE -> Nat] /\ file[s].body \in [1..BODY_SIZE -> Nat]
  BY DEF TypeOK, Slot, BodyIx
<1>4. cells \in Seq(Nat) /\ Len(cells) = size /\ \A k \in 1..size : cells[k] = data.body[k]
  <2>1. data.body \in Seq(Nat) /\ Len(data.body) = BODY_SIZE
    BY <1>3, FunctionIsSequence
  <2> HIDE DEF size
  <2> QED BY <1>1, <2>1
<1>5. body \in [1..BODY_SIZE -> Nat] /\ \A k \in 1..size : body[k] = data.body[k]
  <2>1. Len(cells) <= BODY_SIZE /\ BODY_SIZE \in Nat
    BY <1>1, <1>4
  <2> HIDE DEF cells
  <2> HIDE FileAssumption
  <2> QED BY <1>3, <1>4, <2>1, OverlayFacts
<1>6. /\ file' = [file EXCEPT ![s] = [header |-> data.header, body |-> body]]
      /\ end' = IF end > Position(s, size) THEN end ELSE Position(s, size) + 1
  BY <1>2 DEF Put
<1> HIDE DEF body, cells
<1>7. /\ file' \in [Slots -> Slot]
      /\ file'[s] = [header |-> data.header, body |-> body]
      /\ \A t \in Slots \ {s} : file'[t] = file[t]
  BY <1>5, <1>6 DEF TypeOK, Slot, BodyIx
<1>8. Holds(file'[s], m)
  BY <1>5, <1>7 DEF Holds
<1>9. end' \in 0..Position(TOTAL_AMOUNT, 0) /\ end' >= end /\ Position(s, size) < end'
  <2> DEFINE q == Position(s, size)
             t == Position(TOTAL_AMOUNT, 0)
  <2>1. q \in Nat /\ t \in Nat /\ q < t
    BY <1>1, PositionFacts
  <2>2. end \in 0..t /\ end' = IF end > q THEN end ELSE q + 1
    BY <1>6 DEF TypeOK
  <2> HIDE DEF q, t
  <2>3. end' \in 0..t /\ end' >= end /\ q < end'
    BY <2>1, <2>2
  <2> QED BY <2>3 DEF q, t
<1> QED BY <1>7, <1>8, <1>9 DEF Filled

\* A filled slot stays filled while the file only grows.
LEMMA StaysFilled ==
  ASSUME NEW t \in Slots, NEW m \in Message, NEW f, NEW g,
         NEW e \in Nat, NEW e1 \in Nat, e1 >= e, Filled(f, e, t, m), g[t] = f[t]
  PROVE  Filled(g, e1, t, m)
<1> DEFINE q == Position(t, SerializedSize(m.obj))
<1>1. SerializedSize(m.obj) \in 0..BODY_SIZE
  BY ObjectsAreObjects DEF Message, Fits, Filled
<1>2. q \in Nat /\ q < e
  BY <1>1, PositionFacts DEF Filled
<1> HIDE DEF q
<1>3. q < e1
  BY <1>2
<1> QED BY <1>3 DEF Filled, q

\* The length of the file is a number.
LEMMA EndIsNat ==
  ASSUME NEW e \in 0..Position(TOTAL_AMOUNT, 0)
  PROVE  e \in Nat
OBVIOUS

\* read(2) of a slot gets what the slot holds, whole, as far as the file goes.
LEMMA GetHolds ==
  ASSUME TypeOK, NEW s \in Slots, NEW m \in Message,
         Filled(file, end, s, m)
  PROVE  Holds(Get(s), m)
<1> USE DEF Filled
<1> DEFINE size == SerializedSize(m.obj)
<1>1. size \in 0..BODY_SIZE
  BY ObjectsAreObjects DEF Message, Fits
<1>2. \A k \in 0..size : Position(s, k) < end
  <2> DEFINE p == Position(s, 0)
  <2>1. p \in Nat /\ Position(s, size) = p + size /\ \A k \in 0..size : Position(s, k) = p + k
    BY <1>1, PositionFacts
  <2>2. end \in Nat /\ p + size < end
    BY <2>1, PositionFacts DEF TypeOK
  <2> HIDE DEF p, size
  <2> QED BY <1>1, <2>1, <2>2
<1>3. 0 \in 0..size /\ \A k \in 1..size : k \in BodyIx /\ k \in 0..size
  BY <1>1 DEF BodyIx
<1>4. /\ Get(s).header = file[s].header
      /\ \A k \in 1..size : Get(s).body[k] = file[s].body[k]
  BY <1>2, <1>3 DEF Get
<1> QED BY <1>4 DEF Holds

\* read(2) leaves a whole message in buffer_, be it an older one, or nothing that
\* deserializes.
LEMMA GetIsWhole ==
  ASSUME TypeOK, Buffers, NEW s \in Slots
  PROVE  Get(s) \in Slot /\ Whole(Get(s))
<1>1. Get(s) \in Slot
  <2>1. file[s] \in Slot /\ rbuf \in Slot
    BY DEF TypeOK
  <2> QED BY <2>1 DEF Get, Slot
<1>2. CASE Position(s, 0) < end
  <2>1. Get(s).header = file[s].header
    BY <1>2 DEF Get
  <2>2. CASE file[s].header = ZeroHeader
    <3>1. Get(s).header = ZeroHeader
      BY <2>1, <2>2
    <3> QED BY <1>1, <3>1, Zenon DEF Whole
  <2>3. CASE file[s].header # ZeroHeader
    <3>1. PICK m \in Message : Filled(file, end, s, m)
      BY <2>3 DEF Buffers, WholeSlot
    <3>2. Holds(Get(s), m)
      BY <3>1, GetHolds
    <3> QED BY <1>1, <3>1, <3>2, Zenon DEF Whole, Filled
  <2> QED BY <2>2, <2>3
<1>3. CASE ~(Position(s, 0) < end)
  <2>1. \A k \in BodyIx : ~(Position(s, k) < end)
    <3>1. Position(s, 0) \in Nat /\ end \in Nat
          /\ \A k \in BodyIx : k \in Nat /\ Position(s, k) = Position(s, 0) + k
      BY PositionFacts DEF TypeOK, BodyIx
    <3> DEFINE p == Position(s, 0)
    <3> HIDE DEF p
    <3> QED BY <1>3, <3>1 DEF p
  <2>2. Get(s) = rbuf
    <3>1. rbuf = [header |-> rbuf.header, body |-> [k \in BodyIx |-> rbuf.body[k]]]
      BY DEF TypeOK, Slot
    <3>2. [k \in BodyIx |-> IF Position(s, k) < end THEN file[s].body[k] ELSE rbuf.body[k]]
            = [k \in BodyIx |-> rbuf.body[k]]
      BY <2>1, Zenon
    <3>3. Get(s) = [header |-> rbuf.header, body |-> [k \in BodyIx |-> rbuf.body[k]]]
      BY <1>3, <3>2, Zenon DEF Get
    <3> QED BY <3>1, <3>3
  <2> QED BY <1>1, <2>2 DEF Buffers
<1> QED BY <1>2, <1>3

-----------------------------------------------------------------------------
(* The invariant holds initially and every step keeps it, whatever fails. *)

LEMMA InitFileInv == Init => FileInv
<1> SUFFICES ASSUME Init PROVE FileInv
  OBVIOUS
<1> USE DEF Init
<1>1. ZeroSlot \in Slot
  BY DEF ZeroSlot, ZeroHeader, DataHeader, INVALID, Slot
<1>2. 0 \in Slots /\ 0 \in 0..MAX_ID /\ 0 \in 0..MAX_FAULTS
  BY DEF Slots
<1>3. 0 \in 0..Position(TOTAL_AMOUNT, 0)
  BY <1>2, PositionFacts
<1>4. TypeOK
  <2>1. /\ reader \in Nat /\ writer \in Nat /\ file \in [Slots -> Slot]
        /\ stream \in Seq([slot : Slots, data : Slot]) /\ Len(stream) <= 1
        /\ sent \in Seq(Message) /\ received \in Seq(Message)
    BY <1>1
  <2> QED BY <1>1, <1>2, <1>3, <2>1 DEF TypeOK
<1>5. InStep
  <2>1. 0 % TOTAL_AMOUNT = 0
    BY WrapOnce
  <2> QED BY <2>1 DEF InStep, TokensConserved, StaysAligned, WriterHolds, ReaderHolds
<1>6. Buffers
  <2>1. \A s \in Slots : file[s].header = ZeroHeader
    BY DEF ZeroSlot
  <2>2. rbuf.header = ZeroHeader /\ Len(stream) = 0
    BY DEF ZeroSlot
  <2> QED BY <2>1, <2>2 DEF Buffers, WholeSlot, Whole
<1> QED BY <1>4, <1>5, <1>6 DEF FileInv, WriteBuffer

\* The tokens of each semaphore, with those in its holders' hands.
LEMMA SameSum == \A a, b, c, d \in Nat : a + b + c + d = (a + d) + (b + c)
OBVIOUS

\* Every token that a step takes from a semaphore is in somebody's hands, and comes
\* back; both offset_ fields move on with a token or not at all.
LEMMA InStepKept ==
  ASSUME TypeOK, InStep, [Next]_vars
  PROVE  InStep' /\ reader' \in Nat /\ writer' \in Nat
         /\ woffset' \in Slots /\ roffset' \in Slots
<1>1. /\ reader \in Nat /\ writer \in Nat /\ woffset \in Slots /\ roffset \in Slots
      /\ TokensConserved /\ StaysAligned
  BY DEF TypeOK, InStep
<1> DEFINE d == reader + ReaderHolds
<1>2. d \in 0..TOTAL_AMOUNT /\ ReaderHolds \in {0, 1} /\ WriterHolds \in {0, 1}
  BY <1>1 DEF TokensConserved, ReaderHolds, WriterHolds
<1>3. woffset = Wrap(roffset + d)
  <2>1. roffset + d \in 0..(2 * TOTAL_AMOUNT - 1) /\ woffset = (roffset + d) % TOTAL_AMOUNT
    BY <1>1, <1>2 DEF StaysAligned, Slots
  <2> HIDE DEF d
  <2> QED BY <2>1, WrapOnce, Zenon
<1>4. CASE WritePublish
  <2>1. /\ UNCHANGED <<writer, roffset>> /\ reader' = reader + 1
        /\ ReaderHolds' = ReaderHolds /\ WriterHolds = 1 /\ WriterHolds' = 0
        /\ woffset' = NextOffset(woffset)
    BY <1>4 DEF WritePublish, WriterStep, ReaderHolds, WriterHolds, rvars
  <2>2. TokensConserved' /\ d + 1 <= TOTAL_AMOUNT /\ d' = d + 1
    BY <1>1, <1>2, <2>1 DEF TokensConserved
  <2>3. woffset' \in Slots /\ woffset' = IF woffset + 1 = TOTAL_AMOUNT THEN 0 ELSE woffset + 1
    BY <1>1, <2>1, NextOffsetWraps
  <2>4. woffset' = (roffset + (d + 1)) % TOTAL_AMOUNT
    <3> HIDE DEF d
    <3>1. roffset + (d + 1) \in 0..(2 * TOTAL_AMOUNT - 1)
      BY <1>1, <1>2, <2>2 DEF Slots
    <3>2. woffset' = Wrap(roffset + (d + 1))
      BY <1>1, <1>2, <1>3, <2>2, <2>3 DEF Slots, Wrap
    <3> QED BY <3>1, <3>2, WrapOnce, Zenon
  <2>5. roffset' + reader' + ReaderHolds' = roffset + (d + 1)
    BY <1>1, <1>2, <2>1 DEF Slots
  <2>6. StaysAligned'
    BY <2>4, <2>5 DEF StaysAligned
  <2> QED BY <1>1, <2>1, <2>2, <2>3, <2>6 DEF InStep
<1>5. CASE ReadRelease
  <2>1. /\ UNCHANGED <<reader, woffset>> /\ writer' = writer + 1
        /\ ReaderHolds = 1 /\ ReaderHolds' = 0 /\ WriterHolds' = WriterHolds
        /\ roffset' = NextOffset(roffset)
    BY <1>5 DEF ReadRelease, ReaderStep, ReaderHolds, WriterHolds, wvars
  <2>2. TokensConserved' /\ d >= 1
    BY <1>1, <1>2, <2>1 DEF TokensConserved
  <2>3. roffset' \in Slots /\ roffset' = IF roffset + 1 = TOTAL_AMOUNT THEN 0 ELSE roffset + 1
    BY <1>1, <2>1, NextOffsetWraps
  <2>4. woffset = (roffset' + (d - 1)) % TOTAL_AMOUNT
    <3> HIDE DEF d
    <3>1. roffset' + (d - 1) \in 0..(2 * TOTAL_AMOUNT - 1)
      BY <1>1, <1>2, <2>2, <2>3 DEF Slots
    <3>2. woffset = Wrap(roffset' + (d - 1))
      BY <1>1, <1>2, <1>3, <2>2, <2>3 DEF Slots, Wrap
    <3> QED BY <3>1, <3>2, WrapOnce, Zenon
  <2>5. roffset' + reader' + ReaderHolds' = roffset' + (d - 1)
    BY <1>1, <1>2, <2>1, <2>3 DEF Slots
  <2>6. StaysAligned'
    BY <2>1, <2>4, <2>5 DEF StaysAligned
  <2> QED BY <1>1, <2>1, <2>2, <2>3, <2>6 DEF InStep
<1>6. CASE \/ AwaitTake \/ AwaitTimeout \/ AwaitRepost
           \/ ReadNoData \/ ReadAcquire \/ ReadCopy \/ ReadFails \/ ReadDecode
  <2>1. /\ UNCHANGED <<writer, roffset, woffset>> /\ WriterHolds' = WriterHolds
        /\ reader' \in Nat /\ reader' + ReaderHolds' = d
    BY <1>1, <1>6 DEF AwaitTake, AwaitTimeout, AwaitRepost, ReadNoData, ReadAcquire, ReadCopy,
       ReadFails, ReadDecode, ReaderStep, wvars, ReaderHolds, WriterHolds
  <2>2. ReaderHolds' \in {0, 1}
    BY DEF ReaderHolds
  <2>3. TokensConserved'
    <3>1. writer' \in Nat /\ reader' \in Nat /\ ReaderHolds' \in Nat /\ WriterHolds' \in Nat
      BY <1>1, <2>1, <1>2, <2>2
    <3>2. reader' + ReaderHolds' = reader + ReaderHolds /\ writer' + WriterHolds' = writer + WriterHolds
      BY <1>1, <1>2, <2>1
    <3>3. ReaderHolds \in Nat /\ WriterHolds \in Nat
      BY <1>2
    <3>4. reader' + writer' + WriterHolds' + ReaderHolds'
            = (reader' + ReaderHolds') + (writer' + WriterHolds')
      BY <3>1, SameSum
    <3>5. reader + writer + WriterHolds + ReaderHolds
            = (reader + ReaderHolds) + (writer + WriterHolds)
      BY <1>1, <3>3, SameSum
    <3> QED BY <1>1, <3>2, <3>4, <3>5, Zenon DEF TokensConserved
  <2>4. StaysAligned'
    <3>1. \A o, a, b \in Nat : o + a + b = o + (a + b)
      OBVIOUS
    <3>2. roffset \in Nat /\ ReaderHolds \in Nat /\ ReaderHolds' \in Nat
      BY <1>1, <1>2, <2>2 DEF Slots
    <3>3. /\ roffset + reader' + ReaderHolds' = roffset + (reader' + ReaderHolds')
          /\ roffset + reader + ReaderHolds = roffset + (reader + ReaderHolds)
      BY <1>1, <2>1, <3>1, <3>2
    <3> QED BY <1>1, <2>1, <3>3, Zenon DEF StaysAligned
  <2> QED BY <1>1, <2>1, <2>3, <2>4 DEF InStep
<1>7. CASE \/ \E obj \in Objects : WriteRefused(obj) \/ WriteSerialize(obj)
           \/ WriteSeekp \/ WriteSeekpFails \/ WriteAcquire \/ WriteInterrupted
           \/ WriteStore \/ WriteStoreFails \/ WriteFlush \/ UNCHANGED vars
  <2>1. /\ UNCHANGED <<reader, roffset, woffset>> /\ ReaderHolds' = ReaderHolds
        /\ writer' \in Nat /\ writer' + WriterHolds' = writer + WriterHolds
    BY <1>1, <1>7 DEF WriteRefused, WriteSerialize, WriteSeekp, WriteSeekpFails, WriteAcquire,
       WriteInterrupted, WriteStore, WriteStoreFails, WriteFlush, WriterStep, GiveUp, vars,
       wvars, rvars, ReaderHolds, WriterHolds
  <2>2. WriterHolds' \in {0, 1}
    BY DEF WriterHolds
  <2>3. TokensConserved'
    <3>1. writer' \in Nat /\ reader' \in Nat /\ ReaderHolds' \in Nat /\ WriterHolds' \in Nat
      BY <1>1, <2>1, <1>2, <2>2
    <3>2. reader' + ReaderHolds' = reader + ReaderHolds /\ writer' + WriterHolds' = writer + WriterHolds
      BY <1>1, <1>2, <2>1
    <3>3. ReaderHolds \in Nat /\ WriterHolds \in Nat
      BY <1>2
    <3>4. reader' + writer' + WriterHolds' + ReaderHolds'
            = (reader' + ReaderHolds') + (writer' + WriterHolds')
      BY <3>1, SameSum
    <3>5. reader + writer + WriterHolds + ReaderHolds
            = (reader + ReaderHolds) + (writer + WriterHolds)
      BY <1>1, <3>3, SameSum
    <3> QED BY <1>1, <3>2, <3>4, <3>5, Zenon DEF TokensConserved
  <2>4. StaysAligned'
    BY <1>1, <2>1 DEF StaysAligned
  <2> QED BY <1>1, <2>1, <2>3, <2>4 DEF InStep
<1> QED BY <1>4, <1>5, <1>6, <1>7 DEF Next, WriterNext, ReaderNext

\* The program counters, the results and the count of failed calls keep their types.
ControlOK ==
  /\ wpc \in {"idle", "seekp", "wait", "write", "flush", "publish"} /\ wret \in BOOLEAN
  /\ rpc \in {"await", "repost", "read", "seekg", "release", "decode"}
  /\ rret \in {"none", "timeout", "ready", "message"} \cup CommunicationError
  /\ faults \in 0..MAX_FAULTS

\* What the buffers and histories have to do with each other, without the control.
DataOK ==
  /\ file \in [Slots -> Slot]
  /\ end \in 0..Position(TOTAL_AMOUNT, 0)
  /\ stream \in Seq([slot : Slots, data : Slot]) /\ Len(stream) <= 1
  /\ wobj \in Objects \cup {Ping} /\ wbuf \in Slot /\ last_id \in 0..MAX_ID
  /\ rbuf \in Slot
  /\ sent \in Seq(Message) /\ received \in Seq(Message)

\* A buffer_ that is whole decodes to a message, or to INVALID_DATA.
LEMMA DecodeWhole ==
  ASSUME NEW buf, Whole(buf)
  PROVE  \/ ObjectIn(buf) = Error("INVALID_DATA") /\ IsError(ObjectIn(buf))
         \/ /\ ~IsError(ObjectIn(buf))
            /\ [id |-> buf.header.id, obj |-> ObjectIn(buf)] \in Message
<1>1. CASE buf.header = ZeroHeader
  <2>1. buf.header.type = INVALID
    BY <1>1 DEF ZeroHeader, DataHeader
  <2>2. ObjectIn(buf) = Error("INVALID_DATA")
    BY <2>1 DEF ObjectIn, deserialize_data_object
  <2> QED BY <2>2 DEF IsError, Error
<1>2. CASE buf.header # ZeroHeader
  <2>1. PICK m \in Message : Holds(buf, m)
    BY <1>2 DEF Whole
  <2>2. ~IsError(ObjectIn(buf)) /\ [id |-> buf.header.id, obj |-> ObjectIn(buf)] = m
    BY <2>1, WholeDecodes
  <2> QED BY <2>1, <2>2
<1> QED BY <1>1, <1>2

LEMMA ControlKept ==
  ASSUME TypeOK, Whole(rbuf), [Next]_vars
  PROVE  ControlOK'
<1>1. ControlOK
  BY DEF TypeOK, ControlOK
<1>2. faults' \in 0..MAX_FAULTS
  <2>1. faults' = faults \/ (faults < MAX_FAULTS /\ faults' = faults + 1)
    BY DEF Next, WriterNext, ReaderNext, vars, WriteRefused, WriteSerialize, WriteSeekp,
       WriteSeekpFails, WriteAcquire, WriteInterrupted, WriteStore, WriteStoreFails, WriteFlush,
       WritePublish, AwaitTake, AwaitTimeout, AwaitRepost, ReadNoData, ReadAcquire, ReadCopy,
       ReadFails, ReadRelease, ReadDecode, Works, Fails
  <2> QED BY <1>1, <2>1 DEF ControlOK
<1>3. CASE WriterNext
  <2>1. /\ rpc' = rpc /\ rret' = rret
        /\ wpc' \in {"idle", "seekp", "wait", "write", "flush", "publish"}
        /\ wret' = wret \/ wret' = FALSE \/ wret' = TRUE
    BY <1>3 DEF WriterNext, WriteRefused, WriteSerialize, WriteSeekp,
       WriteSeekpFails, WriteAcquire, WriteInterrupted, WriteStore, WriteStoreFails, WriteFlush,
       WritePublish, WriterStep, GiveUp, rvars
  <2> QED BY <1>1, <1>2, <2>1 DEF ControlOK
<1>4. CASE ReaderNext /\ ~ReadDecode
  <2>1. /\ wpc' = wpc /\ wret' = wret
        /\ rpc' \in {"await", "repost", "read", "seekg", "release", "decode"}
        /\ rret' = rret \/ rret' \in {"timeout", "ready", "NO_DATA_AVAILABLE", "READ_ERROR"}
    BY <1>4 DEF ReaderNext, AwaitTake, AwaitTimeout, AwaitRepost, ReadNoData, ReadAcquire,
       ReadCopy, ReadFails, ReadRelease, ReaderStep, wvars
  <2> QED BY <1>1, <1>2, <2>1 DEF ControlOK, CommunicationError
<1>5. CASE ReadDecode
  <2>1. /\ wpc' = wpc /\ wret' = wret /\ rpc' \in {"await", "read"}
        /\ rret' = "message" \/ (IsError(ObjectIn(rbuf)) /\ rret' = ObjectIn(rbuf).error)
    BY <1>5 DEF ReadDecode, ReaderStep, wvars
  <2>2. IsError(ObjectIn(rbuf)) => ObjectIn(rbuf) = Error("INVALID_DATA")
    BY DecodeWhole
  <2>3. rret' \in {"message", "INVALID_DATA"}
    BY <2>1, <2>2 DEF Error
  <2> QED BY <1>1, <1>2, <2>1, <2>3 DEF ControlOK, CommunicationError
<1>6. CASE UNCHANGED vars
  BY <1>1, <1>6 DEF ControlOK, vars, wvars, rvars
<1> QED BY <1>3, <1>4, <1>5, <1>6 DEF Next

\* What is left to show of a step.
LEMMA FileInvFromParts ==
  ASSUME FileInv, [Next]_vars, DataOK', WriteBuffer', Buffers'
  PROVE  FileInv'
<1>1. ControlOK'
  BY ControlKept DEF FileInv, Buffers
<1>2. InStep' /\ reader' \in Nat /\ writer' \in Nat /\ woffset' \in Slots /\ roffset' \in Slots
  BY InStepKept DEF FileInv
<1>3. TypeOK'
  BY <1>1, <1>2 DEF TypeOK, ControlOK, DataOK
<1> QED BY <1>2, <1>3 DEF FileInv

\* The steps that move tokens, and the calls that fail, touch no buffer.
LEMMA QuietStep ==
  ASSUME FileInv,
         \/ \E obj \in Objects : WriteRefused(obj)
         \/ WriteSeekpFails \/ WriteAcquire \/ WriteInterrupted \/ WriteStoreFails
         \/ AwaitTake \/ AwaitTimeout \/ AwaitRepost \/ ReadNoData \/ ReadAcquire
         \/ ReadFails \/ ReadRelease \/ UNCHANGED vars
  PROVE  DataOK' /\ WriteBuffer' /\ Buffers'
<1>1. /\ UNCHANGED <<file, end, stream, wobj, wbuf, last_id, rbuf, sent, received>>
      /\ wpc' = "idle" \/ wpc' = wpc \/ (wpc = "wait" /\ wpc' = "write")
  BY DEF WriteRefused, WriteSeekpFails, WriteAcquire, WriteInterrupted, WriteStoreFails,
     AwaitTake, AwaitTimeout, AwaitRepost, ReadNoData, ReadAcquire, ReadFails, ReadRelease,
     WriterStep, ReaderStep, GiveUp, vars, wvars, rvars
<1>2. DataOK'
  BY <1>1 DEF FileInv, TypeOK, DataOK
<1>3. WriteBuffer'
  BY <1>1 DEF FileInv, WriteBuffer, Current
<1>4. Buffers'
  BY <1>1 DEF FileInv, Buffers, WholeSlot, Whole
<1> QED BY <1>2, <1>3, <1>4

\* write() prepares its private buffer_.
LEMMA SerializeStep ==
  ASSUME FileInv, NEW obj \in Objects, WriteSerialize(obj)
  PROVE  DataOK' /\ WriteBuffer' /\ Buffers'
<1>1. /\ UNCHANGED <<file, end, stream, rbuf, sent, received>>
      /\ wobj' = obj /\ last_id' = last_id + 1 /\ last_id' \in 1..MAX_ID
      /\ wbuf' = [header |-> DataHeader(last_id', obj.type, SerializedSize(obj)),
                  body   |-> Overlay(wbuf.body, Serialize(obj))]
      /\ Fits(obj, BODY_SIZE)
  BY DEF WriteSerialize, WriterStep, FileInv, TypeOK, rvars
<1>2. /\ SerializedSize(obj) \in Nat /\ SerializedSize(obj) <= BODY_SIZE
      /\ Serialize(obj) \in Seq(Nat) /\ Len(Serialize(obj)) = SerializedSize(obj)
      /\ obj.type \in Nat
  BY <1>1, ObjectsAreObjects, SerializeType, ObjectKinds
     DEF Fits, PING, JAVA_SYMBOL_LOOKUP, BINARY_DATA
<1>3. /\ Overlay(wbuf.body, Serialize(obj)) \in [1..BODY_SIZE -> Nat]
      /\ \A k \in 1..SerializedSize(obj) :
           Overlay(wbuf.body, Serialize(obj))[k] = Serialize(obj)[k]
  <2>1. wbuf.body \in [1..BODY_SIZE -> Nat] /\ BODY_SIZE \in Nat
    BY DEF FileInv, TypeOK, Slot, BodyIx
  <2>2. Len(Serialize(obj)) <= BODY_SIZE
    BY <1>2
  <2>3. /\ Overlay(wbuf.body, Serialize(obj)) \in [1..BODY_SIZE -> Nat]
        /\ \A k \in 1..Len(Serialize(obj)) :
             Overlay(wbuf.body, Serialize(obj))[k] = Serialize(obj)[k]
    <3> HIDE FileAssumption
    <3> QED BY <1>2, <2>1, <2>2, OverlayFacts
  <2> QED BY <1>2, <2>3
<1>4. wbuf' \in Slot
  <2>1. DataHeader(last_id', obj.type, SerializedSize(obj)) \in [id : Nat, type : Nat, body_size : Nat]
    BY <1>1, <1>2 DEF DataHeader
  <2> QED BY <1>1, <1>3, <2>1 DEF Slot, BodyIx
<1>5. DataOK'
  BY <1>1, <1>4 DEF FileInv, TypeOK, DataOK
<1>6. Holds(wbuf', [id |-> last_id', obj |-> obj])
  BY <1>1, <1>3 DEF Holds
<1>7. WriteBuffer'
  BY <1>1, <1>6 DEF WriteBuffer, Current
<1>8. Buffers'
  BY <1>1 DEF FileInv, Buffers, WholeSlot, Whole
<1> QED BY <1>5, <1>7, <1>8

\* The message in write() is one that may be sent.
LEMMA CurrentIsMessage ==
  ASSUME FileInv, wpc # "idle"
  PROVE  /\ Current \in Message /\ Fits(Current.obj, BODY_SIZE) /\ Holds(wbuf, Current)
         /\ wbuf.header.id = last_id /\ woffset \in Slots /\ wbuf \in Slot
<1>1. last_id \in 1..MAX_ID /\ wobj \in Objects /\ Fits(wobj, BODY_SIZE) /\ Holds(wbuf, Current)
  BY DEF FileInv, TypeOK, WriteBuffer
<1>2. Current \in Message /\ Current.obj = wobj /\ Current.id = last_id
  BY <1>1 DEF Current, Message
<1>3. wbuf.header.id = last_id
  BY <1>1, <1>2 DEF Holds, DataHeader
<1> QED BY <1>1, <1>2, <1>3 DEF FileInv, TypeOK

\* write(2), by flush() or by the next seekp(), leaves whole messages in the file.
LEMMA PutKeepsWhole ==
  ASSUME FileInv, NEW s \in Slots, NEW data \in Slot, NEW m \in Message,
         Fits(m.obj, BODY_SIZE), Holds(data, m), Put(s, data)
  PROVE  /\ file' \in [Slots -> Slot] /\ end' \in 0..Position(TOTAL_AMOUNT, 0)
         /\ \A t \in Slots : WholeSlot(t)'
<1>1. /\ file' \in [Slots -> Slot] /\ end' \in 0..Position(TOTAL_AMOUNT, 0)
      /\ \A t \in Slots \ {s} : file'[t] = file[t]
      /\ Filled(file', end', s, m)
      /\ end' >= end
  BY PutHolds DEF FileInv
<1>2. WholeSlot(s)'
  BY <1>1 DEF WholeSlot
<1>3. ASSUME NEW t \in Slots, t # s
      PROVE  WholeSlot(t)'
  <2>1. WholeSlot(t) /\ file'[t] = file[t]
    BY <1>1, <1>3 DEF FileInv, Buffers
  <2>2. CASE file[t].header = ZeroHeader
    BY <2>1, <2>2 DEF WholeSlot
  <2>3. CASE file[t].header # ZeroHeader
    <3>1. PICK n \in Message : Filled(file, end, t, n)
      BY <2>1, <2>3 DEF WholeSlot
    <3>2. end \in Nat /\ end' \in Nat
      BY <1>1, EndIsNat DEF FileInv, TypeOK
    <3>3. Filled(file', end', t, n)
      BY <1>1, <2>1, <3>1, <3>2, StaysFilled
    <3> QED BY <3>3 DEF WholeSlot
  <2> QED BY <2>2, <2>3
<1> QED BY <1>1, <1>2, <1>3

\* seekp() writes what an earlier flush() left in the stream.
LEMMA SeekpStep ==
  ASSUME FileInv, WriteSeekp
  PROVE  DataOK' /\ WriteBuffer' /\ Buffers'
<1>1. /\ UNCHANGED <<wobj, wbuf, last_id, rbuf, sent, received>>
      /\ wpc = "seekp" /\ wpc' = "wait" /\ stream' = << >>
  BY DEF WriteSeekp, WriterStep, rvars
<1>2. /\ file' \in [Slots -> Slot] /\ end' \in 0..Position(TOTAL_AMOUNT, 0)
      /\ \A s \in Slots : WholeSlot(s)'
  <2>1. CASE UNCHANGED <<file, end>>
    BY <2>1 DEF FileInv, TypeOK, Buffers, WholeSlot
  <2>2. CASE stream # << >> /\ Put(stream[1].slot, stream[1].data)
    <3> DEFINE Held == [slot : Slots, data : Slot]
    <3>1. 1 \in 1..Len(stream) /\ stream[1].slot \in Slots /\ stream[1].data \in Slot
      <4>1. stream \in Seq(Held)
        BY DEF FileInv, TypeOK
      <4> HIDE DEF Held
      <4>2. Len(stream) \in Nat /\ Len(stream) # 0
        BY <2>2, <4>1
      <4>3. 1 \in 1..Len(stream) /\ stream[1] \in Held
        BY <4>1, <4>2
      <4> QED BY <4>3 DEF Held
    <3>2. PICK m \in Message : Fits(m.obj, BODY_SIZE) /\ Holds(stream[1].data, m)
      BY <3>1 DEF FileInv, Buffers
    <3> QED BY <2>2, <3>1, <3>2, PutKeepsWhole
  <2> QED BY <2>1, <2>2 DEF WriteSeekp
<1>3. DataOK'
  <2>1. << >> \in Seq([slot : Slots, data : Slot]) /\ Len(<< >>) <= 1
    OBVIOUS
  <2> QED BY <1>1, <1>2, <2>1 DEF FileInv, TypeOK, DataOK
<1>4. WriteBuffer'
  BY <1>1 DEF FileInv, WriteBuffer, Current
<1>5. Buffers'
  BY <1>1, <1>2 DEF FileInv, Buffers, Whole
<1> QED BY <1>3, <1>4, <1>5

\* The stream takes the message of write().
LEMMA StoreStep ==
  ASSUME FileInv, WriteStore
  PROVE  DataOK' /\ WriteBuffer' /\ Buffers'
<1>1. /\ UNCHANGED <<file, end, wobj, wbuf, last_id, rbuf, sent, received>>
      /\ wpc = "write" /\ stream' = <<[slot |-> woffset, data |-> wbuf]>>
  BY DEF WriteStore, WriterStep, rvars
<1>2. Current \in Message /\ Fits(Current.obj, BODY_SIZE) /\ Holds(wbuf, Current)
      /\ woffset \in Slots /\ wbuf \in Slot
  BY <1>1, CurrentIsMessage
<1>3. stream' \in Seq([slot : Slots, data : Slot]) /\ Len(stream') = 1
      /\ stream'[1].data = wbuf
  BY <1>1, <1>2
<1>4. DataOK'
  BY <1>1, <1>3 DEF FileInv, TypeOK, DataOK
<1>5. WriteBuffer'
  BY <1>1 DEF FileInv, WriteBuffer, Current
<1>6. Buffers'
  BY <1>1, <1>2, <1>3 DEF FileInv, Buffers, WholeSlot, Whole
<1> QED BY <1>4, <1>5, <1>6

\* flush() writes the message into its slot, or leaves it in the stream.
LEMMA FlushStep ==
  ASSUME FileInv, WriteFlush
  PROVE  DataOK' /\ WriteBuffer' /\ Buffers'
<1>1. /\ UNCHANGED <<wobj, wbuf, last_id, rbuf, sent, received>>
      /\ wpc = "flush"
      /\ \/ Put(woffset, wbuf) /\ stream' = << >>
         \/ UNCHANGED <<file, end, stream>>
  BY DEF WriteFlush, WriterStep, rvars
<1>2. Current \in Message /\ Fits(Current.obj, BODY_SIZE) /\ Holds(wbuf, Current)
      /\ woffset \in Slots /\ wbuf \in Slot
  BY <1>1, CurrentIsMessage
<1>3. /\ file' \in [Slots -> Slot] /\ end' \in 0..Position(TOTAL_AMOUNT, 0)
      /\ \A s \in Slots : WholeSlot(s)'
  <2>1. CASE UNCHANGED <<file, end, stream>>
    BY <2>1 DEF FileInv, TypeOK, Buffers, WholeSlot
  <2>2. CASE Put(woffset, wbuf)
    BY <1>2, <2>2, PutKeepsWhole
  <2> QED BY <1>1, <2>1, <2>2
<1>4. DataOK'
  <2>1. << >> \in Seq([slot : Slots, data : Slot]) /\ Len(<< >>) <= 1
    OBVIOUS
  <2> QED BY <1>1, <1>3, <2>1 DEF FileInv, TypeOK, DataOK
<1>5. WriteBuffer'
  BY <1>1 DEF FileInv, WriteBuffer, Current
<1>6. Buffers'
  BY <1>1, <1>3 DEF FileInv, Buffers, Whole
<1> QED BY <1>4, <1>5, <1>6

\* write() returns true: the message counts as sent.
LEMMA PublishStep ==
  ASSUME FileInv, WritePublish
  PROVE  /\ DataOK' /\ WriteBuffer' /\ Buffers'
         /\ Current \in Message /\ sent' = Append(sent, Current)
<1>1. /\ UNCHANGED <<file, end, stream, wobj, wbuf, last_id, rbuf, received>>
      /\ wpc = "publish" /\ wpc' = "idle"
      /\ sent' = Append(sent, [id |-> wbuf.header.id, obj |-> wobj])
  BY DEF WritePublish, WriterStep, rvars
<1>2. Current \in Message /\ sent' = Append(sent, Current)
  BY <1>1, CurrentIsMessage DEF Current
<1>3. DataOK'
  BY <1>1, <1>2 DEF FileInv, TypeOK, DataOK
<1>4. WriteBuffer' /\ Buffers'
  BY <1>1 DEF FileInv, WriteBuffer, Buffers, WholeSlot, Whole
<1> QED BY <1>2, <1>3, <1>4

\* read() copies a slot of the file into its private buffer_.
LEMMA CopyStep ==
  ASSUME FileInv, ReadCopy
  PROVE  DataOK' /\ WriteBuffer' /\ Buffers'
<1>1. UNCHANGED <<wvars, received>> /\ rbuf' = Get(roffset)
  BY DEF ReadCopy, ReaderStep
<1>2. rbuf' \in Slot /\ Whole(rbuf')
  <2>1. roffset \in Slots /\ TypeOK /\ Buffers
    BY DEF FileInv, TypeOK
  <2> QED BY <1>1, <2>1, GetIsWhole
<1>3. DataOK'
  BY <1>1, <1>2 DEF FileInv, TypeOK, DataOK, wvars
<1>4. WriteBuffer'
  BY <1>1 DEF FileInv, WriteBuffer, Current, wvars
<1>5. Buffers'
  <2>1. Whole(rbuf)'
    BY <1>2 DEF Whole
  <2> QED BY <1>1, <2>1 DEF FileInv, Buffers, WholeSlot, wvars
<1> QED BY <1>3, <1>4, <1>5

\* read() decodes its buffer_, and returns a message or an error.
LEMMA DecodeStep ==
  ASSUME FileInv, ReadDecode
  PROVE  DataOK' /\ WriteBuffer' /\ Buffers'
<1>1. UNCHANGED <<wvars, rbuf>>
  BY DEF ReadDecode, ReaderStep
<1>2. received' \in Seq(Message)
  <2>1. Whole(rbuf) /\ received \in Seq(Message)
    BY DEF FileInv, Buffers, TypeOK
  <2>2. CASE received' = received
    BY <2>1, <2>2
  <2>3. CASE /\ ~IsError(ObjectIn(rbuf))
             /\ received' = Append(received, [id |-> rbuf.header.id, obj |-> ObjectIn(rbuf)])
    <3>1. [id |-> rbuf.header.id, obj |-> ObjectIn(rbuf)] \in Message
      BY <2>1, <2>3, DecodeWhole
    <3> QED BY <2>1, <2>3, <3>1
  <2> QED BY <2>2, <2>3 DEF ReadDecode
<1>3. DataOK'
  BY <1>1, <1>2 DEF FileInv, TypeOK, DataOK, wvars
<1>4. WriteBuffer' /\ Buffers'
  BY <1>1 DEF FileInv, WriteBuffer, Current, Buffers, WholeSlot, Whole, wvars
<1> QED BY <1>3, <1>4

LEMMA NextFileInv == FileInv /\ [Next]_vars => FileInv'
<1> SUFFICES ASSUME FileInv, [Next]_vars PROVE DataOK' /\ WriteBuffer' /\ Buffers'
  BY FileInvFromParts
<1>1. ASSUME NEW obj \in Objects, WriteSerialize(obj) PROVE DataOK' /\ WriteBuffer' /\ Buffers'
  BY <1>1, SerializeStep
<1>2. CASE WriteSeekp
  BY <1>2, SeekpStep
<1>3. CASE WriteStore
  BY <1>3, StoreStep
<1>4. CASE WriteFlush
  BY <1>4, FlushStep
<1>5. CASE WritePublish
  BY <1>5, PublishStep
<1>6. CASE ReadCopy
  BY <1>6, CopyStep
<1>7. CASE ReadDecode
  BY <1>7, DecodeStep
<1>8. CASE \/ \E obj \in Objects : WriteRefused(obj)
           \/ WriteSeekpFails \/ WriteAcquire \/ WriteInterrupted \/ WriteStoreFails
           \/ AwaitTake \/ AwaitTimeout \/ AwaitRepost \/ ReadNoData \/ ReadAcquire
           \/ ReadFails \/ ReadRelease \/ UNCHANGED vars
  BY <1>8, QuietStep
<1> QED BY <1>1, <1>2, <1>3, <1>4, <1>5, <1>6, <1>7, <1>8 DEF Next, WriterNext, ReaderNext

\* Whatever calls fail and however often, the processes stay in step and no slot and
\* no buffer_ holds parts of two messages.
THEOREM FileInvariance == Spec => []FileInv
BY InitFileInv, NextFileInv, PTL DEF Spec

\* Every variable keeps its type, whatever fails: no offset_ leaves the ring, no
\* message is written past the last slot, and read() returns only messages.
THEOREM FileTypeCorrect == Spec => []TypeOK
BY FileInvariance, PTL DEF FileInv

\* No failed call loses or invents a token or moves one offset_ without the other.
THEOREM InStepAlways == Spec => []InStep
BY FileInvariance, PTL DEF FileInv

-----------------------------------------------------------------------------
(* As long as flush() works, the messages are the right ones. *)

FlushWorks == "flush" \notin Faults

\* A message is taken when read() gives its slot back, before it is decoded.
Taken   == Len(received) + (IF rpc = "decode" THEN 1 ELSE 0)
Pending == Len(sent) - Taken

\* The slot i places after the reader's offset_.
Place(i) == Wrap(roffset + i)

DeliveryInv ==
  /\ stream # << >> => wpc = "flush"
  /\ reader + ReaderHolds = Pending
  /\ \A i \in 0..(Pending - 1) : Filled(file, end, Place(i), sent[Taken + 1 + i])
  /\ wpc = "publish" => Filled(file, end, woffset, Current)
  /\ rpc = "release" => Holds(rbuf, sent[Taken + 1])
  /\ rpc = "decode" => Holds(rbuf, sent[Taken])
  /\ \A i \in 1..Len(received) : received[i] = sent[i]

\* Where the published messages are: in distinct slots, none of them the slot that
\* write() fills next.
LEMMA PlaceFacts ==
  ASSUME FileInv, reader + ReaderHolds = Pending
  PROVE  /\ Len(received) \in Nat /\ Len(sent) \in Nat /\ Taken \in Nat
         /\ Pending \in 0..TOTAL_AMOUNT /\ Len(sent) = Taken + Pending
         /\ Place(0) = roffset /\ woffset = Place(Pending)
         /\ \A i \in 0..(TOTAL_AMOUNT - 1) : Place(i) \in Slots
         /\ \A i, j \in 0..(TOTAL_AMOUNT - 1) : Place(i) = Place(j) => i = j
         /\ WriterHolds = 1 => Pending < TOTAL_AMOUNT
         /\ ReaderHolds = 1 => Pending > 0
<1>1. /\ reader \in Nat /\ writer \in Nat /\ roffset \in Slots /\ roffset \in 0..(TOTAL_AMOUNT - 1)
      /\ Len(received) \in Nat /\ Len(sent) \in Nat /\ TokensConserved /\ StaysAligned
  BY DEF FileInv, TypeOK, InStep, Slots
<1>2. ReaderHolds \in {0, 1} /\ WriterHolds \in {0, 1} /\ Taken \in Nat
  BY <1>1 DEF ReaderHolds, WriterHolds, Taken
<1>3. /\ Pending \in 0..TOTAL_AMOUNT
      /\ WriterHolds = 1 => Pending < TOTAL_AMOUNT
      /\ ReaderHolds = 1 => Pending > 0
  BY <1>1, <1>2 DEF TokensConserved
<1>4. Len(sent) = Taken + Pending
  BY <1>1, <1>2 DEF Pending
<1>5. woffset = Place(Pending)
  <2>1. roffset + reader + ReaderHolds = roffset + Pending
    BY <1>1, <1>2
  <2>2. roffset + Pending \in 0..(2 * TOTAL_AMOUNT - 1)
    BY <1>1, <1>3
  <2> QED BY <1>1, <2>1, <2>2, WrapOnce, Zenon DEF StaysAligned, Place
<1>6. /\ Place(0) = roffset
      /\ \A i \in 0..(TOTAL_AMOUNT - 1) : Place(i) \in Slots
      /\ \A i, j \in 0..(TOTAL_AMOUNT - 1) : Place(i) = Place(j) => i = j
  BY <1>1 DEF Place, Wrap, Slots
<1> QED BY <1>1, <1>2, <1>3, <1>4, <1>5, <1>6

LEMMA InitDelivery == Init => DeliveryInv
<1> SUFFICES ASSUME Init PROVE DeliveryInv
  OBVIOUS
<1>1. Len(sent) = 0 /\ Len(received) = 0 /\ Taken = 0 /\ Pending = 0 /\ stream = << >>
      /\ reader = 0 /\ ReaderHolds = 0 /\ wpc = "idle" /\ rpc = "await"
  BY DEF Init, Taken, Pending, ReaderHolds
<1> QED BY <1>1 DEF DeliveryInv

\* The steps that touch neither the file nor the histories.
LEMMA TokenDelivery ==
  ASSUME FileInv, DeliveryInv,
         \/ \E obj \in Objects : WriteRefused(obj) \/ WriteSerialize(obj)
         \/ WriteSeekp \/ WriteSeekpFails \/ WriteAcquire \/ WriteInterrupted \/ WriteStore
         \/ WriteStoreFails
         \/ AwaitTake \/ AwaitTimeout \/ AwaitRepost \/ ReadNoData \/ ReadAcquire
         \/ ReadFails \/ UNCHANGED vars
  PROVE  DeliveryInv'
<1>1. CASE \/ \E obj \in Objects : WriteRefused(obj) \/ WriteSerialize(obj)
           \/ WriteSeekp \/ WriteSeekpFails \/ WriteAcquire \/ WriteInterrupted
           \/ WriteStore \/ WriteStoreFails
  <2>1. /\ UNCHANGED <<reader, file, end, rpc, rbuf, roffset, sent, received>>
        /\ wpc' # "publish" /\ (stream' # << >> => wpc' = "flush")
    <3>1. CASE WriteSeekp
      BY <3>1 DEF DeliveryInv, WriteSeekp, WriterStep, rvars
    <3>2. CASE WriteStore
      BY <3>2 DEF WriteStore, WriterStep, rvars
    <3> QED
      BY <1>1, <3>1, <3>2 DEF DeliveryInv, WriteRefused, WriteSerialize, WriteSeekpFails,
         WriteAcquire, WriteInterrupted, WriteStoreFails, WriterStep, GiveUp, rvars
  <2>2. Taken' = Taken /\ Pending' = Pending /\ ReaderHolds' = ReaderHolds
        /\ \A i : Place(i)' = Place(i)
    BY <2>1 DEF Taken, Pending, ReaderHolds, Place
  <2> QED BY <2>1, <2>2 DEF DeliveryInv
<1>2. CASE \/ AwaitTake \/ AwaitTimeout \/ AwaitRepost \/ ReadNoData \/ ReadAcquire
           \/ ReadFails \/ UNCHANGED vars
  <2>1. /\ UNCHANGED <<wvars, rbuf, roffset, received>>
        /\ reader' + ReaderHolds' = reader + ReaderHolds
        /\ rpc' = rpc \/ (rpc # "decode" /\ rpc' \notin {"decode", "release"})
    <3>1. reader \in Nat
      BY DEF FileInv, TypeOK
    <3> QED
      BY <1>2, <3>1 DEF AwaitTake, AwaitTimeout, AwaitRepost, ReadNoData, ReadAcquire, ReadFails,
         ReaderStep, ReaderHolds, vars, rvars
  <2>2. Taken' = Taken /\ Pending' = Pending /\ \A i : Place(i)' = Place(i)
    BY <2>1 DEF Taken, Pending, Place, wvars
  <2> QED BY <2>1, <2>2 DEF DeliveryInv, Current, wvars
<1> QED BY <1>1, <1>2

\* flush() puts the message into a slot that holds no published one.
LEMMA FlushDelivery ==
  ASSUME FlushWorks, FileInv, DeliveryInv, WriteFlush
  PROVE  DeliveryInv'
<1>1. /\ UNCHANGED <<reader, wobj, last_id, woffset, rpc, rbuf, roffset, sent, received>>
      /\ wpc = "flush" /\ Put(woffset, wbuf) /\ stream' = << >>
  BY DEF WriteFlush, WriterStep, Fails, FlushWorks, rvars
<1>2. Current \in Message /\ Fits(Current.obj, BODY_SIZE) /\ Holds(wbuf, Current)
      /\ woffset \in Slots /\ wbuf \in Slot
  BY <1>1, CurrentIsMessage
<1>3. /\ \A t \in Slots \ {woffset} : file'[t] = file[t]
      /\ end' >= end /\ Filled(file', end', woffset, Current)
      /\ end \in Nat /\ end' \in Nat
  <2> DEFINE m == Current
  <2>1. TypeOK /\ m \in Message /\ Fits(m.obj, BODY_SIZE) /\ Holds(wbuf, m)
    BY <1>2 DEF FileInv
  <2> HIDE DEF m
  <2>2. /\ \A t \in Slots \ {woffset} : file'[t] = file[t]
        /\ end' >= end /\ Filled(file', end', woffset, m)
        /\ end' \in 0..Position(TOTAL_AMOUNT, 0)
    BY <1>1, <1>2, <2>1, PutHolds
  <2> QED BY <2>1, <2>2, EndIsNat DEF TypeOK, m
<1>4. Taken' = Taken /\ Pending' = Pending /\ ReaderHolds' = ReaderHolds
      /\ (\A i : Place(i)' = Place(i)) /\ Current' = Current
  BY <1>1 DEF Taken, Pending, ReaderHolds, Place, Current
<1>5. /\ Pending \in 0..TOTAL_AMOUNT /\ Pending < TOTAL_AMOUNT
      /\ Taken \in Nat /\ Len(sent) = Taken + Pending
      /\ \A i \in 0..(Pending - 1) : Place(i) \in Slots /\ Place(i) # woffset
  <2>1. WriterHolds = 1 /\ reader + ReaderHolds = Pending
    BY <1>1 DEF WriterHolds, DeliveryInv
  <2> QED BY <2>1, PlaceFacts
<1>6. ASSUME NEW i \in 0..(Pending - 1)
      PROVE  Filled(file', end', Place(i), sent[Taken + 1 + i])
  <2> DEFINE m == sent[Taken + 1 + i]
             t == Place(i)
  <2>1. m \in Message
    <3>1. Taken + 1 + i \in 1..Len(sent)
      BY <1>5
    <3> QED BY <3>1 DEF FileInv, TypeOK
  <2>2. Filled(file, end, t, m) /\ t \in Slots /\ file'[t] = file[t]
    BY <1>3, <1>5 DEF DeliveryInv
  <2> HIDE DEF m, t
  <2>3. Filled(file', end', t, m)
    BY <1>3, <2>1, <2>2, StaysFilled
  <2> QED BY <2>3 DEF m, t
<1> QED BY <1>1, <1>3, <1>4, <1>6 DEF DeliveryInv

\* sem_post(reader_) adds the message at the end of the published ones.
LEMMA PublishDelivery ==
  ASSUME FileInv, DeliveryInv, WritePublish
  PROVE  DeliveryInv'
<1>1. /\ UNCHANGED <<file, end, stream, rpc, rbuf, roffset, received>>
      /\ wpc = "publish" /\ wpc' = "idle" /\ reader' = reader + 1
  BY DEF WritePublish, WriterStep, rvars
<1>2. Current \in Message /\ sent' = Append(sent, Current) /\ sent \in Seq(Message)
  BY PublishStep DEF FileInv, TypeOK
<1> DEFINE m == Current
<1> HIDE DEF m
<1>3. /\ Len(sent') = Len(sent) + 1 /\ Len(sent) \in Nat
      /\ sent'[Len(sent) + 1] = m
      /\ \A i \in 1..Len(sent) : sent'[i] = sent[i]
  BY <1>2 DEF m
<1>4. /\ Pending \in 0..TOTAL_AMOUNT /\ Pending < TOTAL_AMOUNT
      /\ Taken \in Nat /\ Len(sent) = Taken + Pending
      /\ woffset = Place(Pending) /\ Len(received) \in Nat
      /\ reader \in Nat /\ ReaderHolds \in {0, 1}
  <2>1. WriterHolds = 1 /\ reader + ReaderHolds = Pending
    BY <1>1 DEF WriterHolds, DeliveryInv
  <2> QED BY <2>1, PlaceFacts DEF FileInv, TypeOK, ReaderHolds
<1>5. Taken' = Taken /\ Pending' = Pending + 1 /\ ReaderHolds' = ReaderHolds
      /\ \A i : Place(i)' = Place(i)
  BY <1>1, <1>3, <1>4 DEF Taken, Pending, ReaderHolds, Place
<1>6. reader' + ReaderHolds' = Pending'
  BY <1>1, <1>4, <1>5 DEF DeliveryInv
<1>7. ASSUME NEW i \in 0..Pending
      PROVE  Filled(file, end, Place(i), sent'[Taken + 1 + i])
  <2>1. CASE i = Pending
    BY <1>1, <1>3, <1>4, <2>1 DEF DeliveryInv, m
  <2>2. CASE i < Pending
    <3>1. i \in 0..(Pending - 1) /\ Taken + 1 + i \in 1..Len(sent)
      BY <1>4, <2>2
    <3> QED BY <1>3, <3>1 DEF DeliveryInv
  <2> QED BY <1>4, <2>1, <2>2
<1>8. Pending' - 1 = Pending
  BY <1>4, <1>5
<1>9. \A i \in 0..(Pending' - 1) : Filled(file', end', Place(i)', sent'[Taken' + 1 + i])
  BY <1>1, <1>5, <1>7, <1>8
<1>10. /\ rpc = "release" => sent'[Taken + 1] = sent[Taken + 1]
       /\ rpc = "decode" => sent'[Taken] = sent[Taken]
       /\ \A i \in 1..Len(received) : sent'[i] = sent[i]
  <2>1. Len(received) <= Taken /\ (rpc = "decode" => Taken >= 1)
        /\ (rpc = "release" => Pending >= 1)
    <3>1. rpc = "release" => Pending >= 1
      BY <1>4 DEF DeliveryInv, ReaderHolds
    <3> QED BY <1>4, <3>1 DEF Taken
  <2> QED BY <1>3, <1>4, <2>1
<1> QED BY <1>1, <1>5, <1>6, <1>9, <1>10 DEF DeliveryInv

\* read() copies the oldest published message, all of it: the file is long enough.
LEMMA CopyDelivery ==
  ASSUME FileInv, DeliveryInv, ReadCopy
  PROVE  DeliveryInv'
<1>1. /\ UNCHANGED <<wvars, reader, roffset, received>>
      /\ rpc = "seekg" /\ rpc' = "release" /\ rbuf' = Get(roffset)
  BY DEF ReadCopy, ReaderStep
<1>2. Taken' = Taken /\ Pending' = Pending /\ ReaderHolds' = ReaderHolds
      /\ \A i : Place(i)' = Place(i)
  BY <1>1 DEF Taken, Pending, ReaderHolds, Place, wvars
<1>3. /\ Taken \in Nat /\ Len(sent) = Taken + Pending /\ Pending \in 1..TOTAL_AMOUNT
      /\ Place(0) = roffset
  <2>1. ReaderHolds = 1 /\ reader + ReaderHolds = Pending
    BY <1>1 DEF ReaderHolds, DeliveryInv
  <2> QED BY <2>1, PlaceFacts
<1>4. Holds(rbuf', sent[Taken + 1])
  <2> DEFINE m == sent[Taken + 1]
  <2>1. m \in Message
    <3>1. Taken + 1 \in 1..Len(sent)
      BY <1>3
    <3> QED BY <3>1 DEF FileInv, TypeOK
  <2>2. Filled(file, end, roffset, m)
    <3>1. 0 \in 0..(Pending - 1) /\ Taken + 1 + 0 = Taken + 1
      BY <1>3
    <3> QED BY <1>3, <3>1 DEF DeliveryInv
  <2> HIDE DEF m
  <2>3. roffset \in Slots /\ TypeOK
    BY DEF FileInv, TypeOK
  <2>4. Holds(Get(roffset), m)
    BY <2>1, <2>2, <2>3, GetHolds
  <2> QED BY <1>1, <2>4 DEF m
<1> QED BY <1>1, <1>2, <1>4 DEF DeliveryInv, Current, wvars

\* read() gives the slot back, and every published message is one place nearer.
LEMMA ReleaseDelivery ==
  ASSUME FileInv, DeliveryInv, ReadRelease
  PROVE  /\ DeliveryInv'
         /\ Taken' = Taken + 1
<1>1. /\ UNCHANGED <<wvars, reader, rbuf, received>>
      /\ rpc = "release" /\ rpc' = "decode" /\ roffset' = NextOffset(roffset)
  BY DEF ReadRelease, ReaderStep
<1>2. /\ Taken \in Nat /\ Len(sent) = Taken + Pending /\ Pending \in 1..TOTAL_AMOUNT
      /\ Len(received) \in Nat /\ Len(sent) \in Nat /\ Taken = Len(received)
      /\ reader \in Nat /\ reader + 1 = Pending
  <2>1. ReaderHolds = 1 /\ reader + ReaderHolds = Pending
    BY <1>1 DEF ReaderHolds, DeliveryInv
  <2>2. Taken = Len(received)
    BY <1>1, PlaceFacts, <2>1 DEF Taken
  <2> QED BY <2>1, <2>2, PlaceFacts DEF FileInv, TypeOK
<1>3. Taken' = Taken + 1 /\ Pending' = Pending - 1 /\ ReaderHolds' = 0
  BY <1>1, <1>2 DEF Taken, Pending, ReaderHolds, wvars
<1>4. \A i \in 0..(Pending - 2) : Place(i)' = Place(i + 1)
  <2>1. roffset \in Slots /\ roffset' = IF roffset + 1 = TOTAL_AMOUNT THEN 0 ELSE roffset + 1
    BY <1>1, NextOffsetWraps DEF FileInv, TypeOK
  <2> QED BY <1>2, <2>1 DEF Place, Wrap, Slots
<1>5. ASSUME NEW i \in 0..(Pending' - 1)
      PROVE  Filled(file', end', Place(i)', sent'[Taken' + 1 + i])
  <2>1. i \in 0..(Pending - 2) /\ i + 1 \in 0..(Pending - 1)
        /\ Taken' + 1 + i = Taken + 1 + (i + 1)
    BY <1>2, <1>3
  <2>2. Filled(file, end, Place(i + 1), sent[Taken + 1 + (i + 1)])
    BY <2>1 DEF DeliveryInv
  <2> QED BY <1>1, <1>4, <2>1, <2>2 DEF wvars
<1>6. reader' + ReaderHolds' = Pending'
  BY <1>1, <1>2, <1>3
<1>7. Holds(rbuf', sent'[Taken'])
  BY <1>1, <1>3 DEF DeliveryInv, wvars
<1>8. /\ stream' # << >> => wpc' = "flush"
      /\ wpc' = "publish" => Filled(file', end', woffset', Current')
      /\ \A i \in 1..Len(received') : received'[i] = sent'[i]
  BY <1>1 DEF DeliveryInv, Current, wvars
<1> QED BY <1>1, <1>3, <1>5, <1>6, <1>7, <1>8 DEF DeliveryInv

\* What read() decodes is the message it has taken.
LEMMA DecodeDelivery ==
  ASSUME FileInv, DeliveryInv, ReadDecode
  PROVE  /\ DeliveryInv'
         /\ rpc = "decode" /\ rpc' = "read" /\ UNCHANGED sent
         /\ received' = Append(received, sent[Len(received) + 1])
<1>1. UNCHANGED <<wvars, reader, rbuf, roffset>> /\ rpc = "decode"
  BY DEF ReadDecode, ReaderStep
<1>2. /\ Taken = Len(received) + 1 /\ Len(received) \in Nat
      /\ Len(received) + 1 \in 1..Len(sent)
  <2>1. reader + ReaderHolds = Pending
    BY DEF DeliveryInv
  <2>2. Taken = Len(received) + 1
    BY <1>1 DEF Taken
  <2> QED BY <2>1, <2>2, PlaceFacts
<1> DEFINE m == sent[Len(received) + 1]
<1>3. m \in Message /\ Holds(rbuf, m)
  BY <1>1, <1>2 DEF FileInv, TypeOK, DeliveryInv
<1> HIDE DEF m
<1>4. /\ ~IsError(ObjectIn(rbuf))
      /\ [id |-> rbuf.header.id, obj |-> ObjectIn(rbuf)] = m
  BY <1>3, WholeDecodes
<1>5. rpc' = "read" /\ received' = Append(received, m)
  BY <1>4 DEF ReadDecode, ReaderStep
<1>6. /\ Len(received') = Len(received) + 1
      /\ received'[Len(received) + 1] = m
      /\ \A i \in 1..Len(received) : received'[i] = received[i]
  <2>1. received \in Seq(Message)
    BY DEF FileInv, TypeOK
  <2> QED BY <1>3, <1>5, <2>1
<1>7. Taken' = Taken /\ Pending' = Pending /\ ReaderHolds' = ReaderHolds
      /\ \A i : Place(i)' = Place(i)
  BY <1>1, <1>2, <1>5, <1>6 DEF Taken, Pending, ReaderHolds, Place, wvars
<1>8. \A i \in 1..Len(received') : received'[i] = sent'[i]
  <2>1. ASSUME NEW i \in 1..(Len(received) + 1) PROVE received'[i] = sent[i]
    <3>1. CASE i = Len(received) + 1
      BY <1>6, <3>1 DEF m
    <3>2. CASE i # Len(received) + 1
      <4>1. i \in 1..Len(received)
        BY <1>2, <3>2
      <4> QED BY <1>6, <4>1 DEF DeliveryInv
    <3> QED BY <3>1, <3>2
  <2> QED BY <1>1, <1>6, <2>1 DEF wvars
<1>9. DeliveryInv'
  BY <1>1, <1>5, <1>7, <1>8 DEF DeliveryInv, Current, wvars
<1> QED BY <1>1, <1>5, <1>9 DEF m, wvars

LEMMA NextDelivery == FlushWorks /\ FileInv /\ DeliveryInv /\ [Next]_vars => DeliveryInv'
<1> SUFFICES ASSUME FlushWorks, FileInv, DeliveryInv, [Next]_vars PROVE DeliveryInv'
  OBVIOUS
<1>1. CASE WriteFlush
  BY <1>1, FlushDelivery
<1>2. CASE WritePublish
  BY <1>2, PublishDelivery
<1>3. CASE ReadCopy
  BY <1>3, CopyDelivery
<1>4. CASE ReadRelease
  BY <1>4, ReleaseDelivery
<1>5. CASE ReadDecode
  BY <1>5, DecodeDelivery
<1>6. CASE \/ \E obj \in Objects : WriteRefused(obj) \/ WriteSerialize(obj)
           \/ WriteSeekp \/ WriteSeekpFails \/ WriteAcquire \/ WriteInterrupted \/ WriteStore
           \/ WriteStoreFails
           \/ AwaitTake \/ AwaitTimeout \/ AwaitRepost \/ ReadNoData \/ ReadAcquire
           \/ ReadFails \/ UNCHANGED vars
  BY <1>6, TokenDelivery
<1> QED BY <1>1, <1>2, <1>3, <1>4, <1>5, <1>6 DEF Next, WriterNext, ReaderNext

\* As long as flush() works, and whatever else fails, every published message stays
\* whole in a slot of its own until read() takes it.
THEOREM DeliveryInvariance == FlushWorks => (Spec => [](FileInv /\ DeliveryInv))
<1> SUFFICES ASSUME FlushWorks PROVE Spec => [](FileInv /\ DeliveryInv)
  OBVIOUS
<1>1. Init => FileInv /\ DeliveryInv
  BY InitFileInv, InitDelivery
<1>2. FileInv /\ DeliveryInv /\ [Next]_vars => (FileInv /\ DeliveryInv)'
  BY NextFileInv, NextDelivery
<1> QED BY <1>1, <1>2, PTL DEF Spec

\* As long as flush() works, read() returns exactly what write() reported as
\* written, in order, through failed seekp, write, seekg and read calls.
THEOREM InOrderAlways == FlushWorks => (Spec => []InOrder)
<1> SUFFICES ASSUME FlushWorks PROVE Spec => []InOrder
  OBVIOUS
<1>1. FileInv /\ DeliveryInv => InOrder
  <2> SUFFICES ASSUME FileInv, DeliveryInv PROVE InOrder
    OBVIOUS
  <2>1. reader + ReaderHolds = Pending
    BY DEF DeliveryInv
  <2>2. Len(received) <= Len(sent)
    BY <2>1, PlaceFacts DEF Taken
  <2> QED BY <2>2 DEF DeliveryInv, InOrder
<1> QED BY <1>1, DeliveryInvariance, PTL

\* Whatever read() has not returned is still in the file: a failed read() puts the
\* message back.
THEOREM NothingLostAlways == FlushWorks => (Spec => []NothingLost)
<1> SUFFICES ASSUME FlushWorks PROVE Spec => []NothingLost
  OBVIOUS
<1>1. FileInv /\ DeliveryInv => NothingLost
  <2> SUFFICES ASSUME FileInv, DeliveryInv PROVE NothingLost
    OBVIOUS
  <2>1. reader + ReaderHolds = Pending
    BY DEF DeliveryInv
  <2>2. /\ Len(sent) = Taken + Pending /\ Len(received) \in Nat /\ Taken \in Nat
        /\ reader \in Nat /\ ReaderHolds \in {0, 1} /\ Pending \in Nat
    BY <2>1, PlaceFacts DEF FileInv, TypeOK, ReaderHolds
  <2> QED BY <2>1, <2>2 DEF NothingLost, Taken
<1> QED BY <1>1, DeliveryInvariance, PTL

-----------------------------------------------------------------------------
(* The file implements the abstract channel. *)

DeliveredPrefix ==
  /\ rpc = "decode" => Delivered = Append(received, sent[Len(received) + 1])
  /\ rpc # "decode" => Delivered = received
  /\ Len(Delivered) = Taken

LEMMA DeliveredFacts == FileInv /\ DeliveryInv => DeliveredPrefix
<1> SUFFICES ASSUME FileInv, DeliveryInv PROVE DeliveredPrefix
  OBVIOUS
<1>1. received \in Seq(Message) /\ sent \in Seq(Message) /\ reader + ReaderHolds = Pending
  BY DEF FileInv, TypeOK, DeliveryInv
<1>2. ASSUME rpc = "decode"
      PROVE  Delivered = Append(received, sent[Len(received) + 1])
  <2> DEFINE m == sent[Len(received) + 1]
  <2>1. Taken = Len(received) + 1 /\ Len(received) + 1 \in 1..Len(sent)
    BY <1>1, <1>2, PlaceFacts DEF Taken
  <2>2. m \in Message /\ Holds(rbuf, m)
    BY <1>1, <1>2, <2>1 DEF DeliveryInv
  <2> HIDE DEF m
  <2>3. [id |-> rbuf.header.id, obj |-> ObjectIn(rbuf)] = m
    BY <2>2, WholeDecodes
  <2> QED BY <1>2, <2>3 DEF Delivered, m
<1>3. rpc # "decode" => Delivered = received
  BY DEF Delivered
<1>4. Len(Delivered) = Taken
  BY <1>1, <1>2, <1>3 DEF Taken
<1> QED BY <1>2, <1>3, <1>4 DEF DeliveredPrefix

LEMMA RingInit == Init => Ring!Init
BY DEF Init, Ring!Init, Delivered

\* Publishing is a Write of the channel, giving a slot back is a Read, and no other
\* step, failed calls included, changes what the channel shows.
LEMMA RingStep ==
  FileInv /\ DeliveryInv /\ FileInv' /\ DeliveryInv' /\ [Next]_vars
    => [Ring!Next]_Ring!channelVars
<1> SUFFICES ASSUME FileInv, DeliveryInv, FileInv', DeliveryInv', [Next]_vars
             PROVE  [Ring!Next]_Ring!channelVars
  OBVIOUS
<1>0. DeliveredPrefix /\ DeliveredPrefix'
  BY DeliveredFacts, PTL
<1>1. CASE WritePublish
  <2>1. UNCHANGED Delivered
    BY <1>1 DEF WritePublish, WriterStep, Delivered, ObjectIn, rvars
  <2>2. PICK m \in Message : sent' = Append(sent, m)
    BY <1>1, PublishStep
  <2>3. Len(sent) - Len(Delivered) < TOTAL_AMOUNT
    <3>1. WriterHolds = 1 /\ reader + ReaderHolds = Pending
      BY <1>1 DEF WritePublish, WriterStep, WriterHolds, DeliveryInv
    <3>2. Len(Delivered) = Taken /\ Taken \in Nat /\ Len(sent) = Taken + Pending
          /\ Pending \in 0..TOTAL_AMOUNT /\ Pending < TOTAL_AMOUNT
      BY <1>0, <3>1, PlaceFacts DEF DeliveredPrefix
    <3> QED BY <3>2
  <2> QED BY <2>1, <2>2, <2>3 DEF Ring!Next, Ring!Write
<1>2. CASE ReadRelease
  <2>1. rpc = "release" /\ rpc' = "decode" /\ UNCHANGED <<sent, received>>
    BY <1>2 DEF ReadRelease, ReaderStep, wvars
  <2>2. Delivered = received /\ Delivered' = Append(received, sent[Len(received) + 1])
    BY <1>0, <2>1 DEF DeliveredPrefix
  <2>3. Len(Delivered) < Len(sent)
    <3>1. ReaderHolds = 1 /\ reader + ReaderHolds = Pending
      BY <2>1 DEF ReaderHolds, DeliveryInv
    <3>2. Len(Delivered) = Taken /\ Taken \in Nat /\ Len(sent) = Taken + Pending
          /\ Pending \in 0..TOTAL_AMOUNT /\ Pending > 0
      BY <1>0, <3>1, PlaceFacts DEF DeliveredPrefix
    <3> QED BY <3>2
  <2> QED BY <2>1, <2>2, <2>3 DEF Ring!Next, Ring!Read
<1>3. CASE ReadDecode
  <2>1. /\ rpc = "decode" /\ rpc' = "read" /\ UNCHANGED sent
        /\ received' = Append(received, sent[Len(received) + 1])
    BY <1>3, DecodeDelivery
  <2>2. Delivered' = Delivered
    BY <1>0, <2>1 DEF DeliveredPrefix
  <2> QED BY <2>1, <2>2 DEF Ring!channelVars
<1>4. CASE \/ \E obj \in Objects : WriteRefused(obj) \/ WriteSerialize(obj)
           \/ WriteSeekp \/ WriteSeekpFails \/ WriteAcquire \/ WriteInterrupted
           \/ WriteStore \/ WriteStoreFails \/ WriteFlush
           \/ AwaitTake \/ AwaitTimeout \/ AwaitRepost
           \/ ReadNoData \/ ReadAcquire \/ ReadCopy \/ ReadFails \/ UNCHANGED vars
  <2>1. /\ UNCHANGED <<sent, received>>
        /\ \/ UNCHANGED <<rpc, rbuf>>
           \/ rpc # "decode" /\ rpc' # "decode"
    BY <1>4 DEF WriteRefused, WriteSerialize, WriteSeekp, WriteSeekpFails, WriteAcquire,
       WriteInterrupted, WriteStore, WriteStoreFails, WriteFlush, GiveUp, WriterStep,
       AwaitTake, AwaitTimeout, AwaitRepost, ReadNoData, ReadAcquire, ReadCopy, ReadFails,
       ReaderStep, vars, wvars, rvars
  <2>2. Delivered' = Delivered
    BY <2>1 DEF Delivered, ObjectIn
  <2> QED BY <2>1, <2>2 DEF Ring!channelVars
<1> QED BY <1>1, <1>2, <1>3, <1>4 DEF Next, WriterNext, ReaderNext

\* As long as flush() works, the file with its two semaphores behaves as a bounded
\* first-in-first-out channel of TOTAL_AMOUNT messages, whatever else fails.
THEOREM Refinement == FlushWorks => (Spec => ImplementsChannel)
<1> SUFFICES ASSUME FlushWorks PROVE Spec => ImplementsChannel
  OBVIOUS
<1> QED
  BY DeliveryInvariance, RingInit, RingStep, PTL DEF Spec, ImplementsChannel, Ring!Spec

=============================================================================
