------------------------- MODULE SharedMemoryProofs -------------------------
(***************************************************************************)
(* Proofs about SharedMemory, for every number of slots, every size of a   *)
(* slot, every set of objects and any number of runs of the two processes. *)
(*                                                                         *)
(* The first part is about the ring of module SharedMemory.  Its           *)
(* correctness rests on one relation that no single handler can see: the   *)
(* distance between the two offset_ fields is the number of published      *)
(* messages not yet taken, which is what the semaphores count, and the     *)
(* slots in that distance hold these messages.                             *)
(*                                                                         *)
(* The second part is about open() and close(), module SharedMemoryOpen,   *)
(* which SharedFile shares.  A name leads to the newest object created     *)
(* under it or to nothing, and the server creates "r" before "w" after it  *)
(* has removed both.  So a process that found the newest "r" and a "w"     *)
(* found the newest "w": this is what keeps the tokens of one run out of   *)
(* the next, and no handler checks it.                                     *)
(***************************************************************************)
EXTENDS SharedMemory, SharedMemoryOpen, DataObjectsProofs

-----------------------------------------------------------------------------
(* The ring: the inductive invariant. *)

\* A message is taken when read() gives its slot back, before it is decoded.
Taken   == Len(received) + (IF rpc = "decode" THEN 1 ELSE 0)
Pending == Len(sent) - Taken

\* The slot i places after the reader's offset_.
Place(i) == IF roffset + i < TOTAL_AMOUNT THEN roffset + i
                                          ELSE roffset + i - TOTAL_AMOUNT

\* The first `cell' steps of a memcpy are done.
Copied(from, to, cell) ==
  /\ cell > 0 => to.header = from.header
  /\ \A k \in 1..(cell - 1) : to.body[k] = from.body[k]

Counts ==
  /\ reader + ReaderHolds = Pending
  /\ writer + WriterHolds = TOTAL_AMOUNT - Pending
  /\ woffset = Place(Pending)
  /\ rpc = "read" => reader > 0

WriteBuffer ==
  wpc \in {"wait", "copy"} =>
    /\ last_id > 0
    /\ wobj \in Objects
    /\ Fits(wobj, BODY_SIZE)
    /\ Holds(wbuf, [id |-> last_id, obj |-> wobj])

RingContents ==
  /\ \A i \in 1..Len(sent) : Fits(sent[i].obj, BODY_SIZE)
  /\ \A i \in 0..(Pending - 1) : Holds(memory[Place(i)], sent[Taken + 1 + i])
  /\ wpc = "copy" => Copied(wbuf, memory[woffset], wcell)

ReadBuffer ==
  /\ rpc = "copy" => Copied(memory[roffset], rbuf, rcell)
  /\ rpc = "decode" => Holds(rbuf, sent[Len(received) + 1])
  /\ \A i \in 1..Len(received) : received[i] = sent[i]

IInv == TypeOK /\ Counts /\ WriteBuffer /\ RingContents /\ ReadBuffer

-----------------------------------------------------------------------------
(* Facts about the operators of the model. *)

USE RingAssumption

\* offset_ wraps exactly at the end of the ring.
LEMMA NextOffsetWraps ==
  ASSUME NEW offset \in Slots
  PROVE  /\ NextOffset(offset) \in Slots
         /\ NextOffset(offset) = IF offset + 1 = TOTAL_AMOUNT THEN 0 ELSE offset + 1
BY DEF NextOffset, Slots

\* An object that may be sent is one of the three kinds.
LEMMA ObjectsAreObjects ==
  ASSUME NEW obj \in Objects \cup {Ping}
  PROVE  obj \in DataObject
BY ObjectAssumption DEF DataObject

\* The buffer_ that holds a message decodes to it.
LEMMA HoldsDecodes ==
  ASSUME NEW buf, NEW m \in Message, Holds(buf, m)
  PROVE  /\ ObjectIn(buf) = m.obj
         /\ ~IsError(ObjectIn(buf))
         /\ [id |-> buf.header.id, obj |-> ObjectIn(buf)] = m
<1>1. m.obj \in DataObject
  BY ObjectAssumption DEF Message
<1>2. ObjectIn(buf) = m.obj /\ ~IsError(m.obj) /\ buf.header.id = m.id
  BY <1>1, HeldObject DEF ObjectIn
<1> QED BY <1>2 DEF Message

\* One step of a memcpy: one more cell is copied, and the buffer keeps its shape.
LEMMA CopyCellCopies ==
  ASSUME NEW from \in Slot, NEW to \in Slot, NEW cell \in 0..BODY_SIZE,
         Copied(from, to, cell)
  PROVE  /\ CopyCell(from, to, cell) \in Slot
         /\ Copied(from, CopyCell(from, to, cell), cell + 1)
<1>1. CASE cell = 0
  BY <1>1 DEF CopyCell, Copied, Slot, Cells, BodyIx
<1>2. CASE cell # 0
  BY <1>2 DEF CopyCell, Copied, Slot, Cells, BodyIx
<1> QED BY <1>1, <1>2

\* A buffer that got every cell of a message holds it.
LEMMA CopiedHolds ==
  ASSUME NEW from, NEW to, NEW m \in Message, Holds(from, m),
         NEW cell \in Nat, cell > SerializedSize(m.obj), Copied(from, to, cell)
  PROVE  Holds(to, m)
<1>1. SerializedSize(m.obj) \in Nat
  BY SerializeType, ObjectAssumption DEF Message
<1> QED BY <1>1 DEF Holds, Copied

-----------------------------------------------------------------------------
(* The invariant holds initially and is preserved by every action. *)

\* Where the pending messages are: in distinct slots, none of them the slot
\* that write() fills next.
LEMMA PlaceFacts ==
  ASSUME TypeOK, Counts
  PROVE  /\ Pending \in 0..TOTAL_AMOUNT
         /\ Taken \in Nat
         /\ Len(sent) = Taken + Pending
         /\ Place(0) = roffset
         /\ \A i \in 0..(TOTAL_AMOUNT - 1) : Place(i) \in Slots
         /\ \A i, j \in 0..(TOTAL_AMOUNT - 1) : Place(i) = Place(j) => i = j
         /\ wpc = "copy" => Pending < TOTAL_AMOUNT
         /\ rpc = "copy" => Pending > 0
<1>1. /\ Taken \in Nat /\ Len(sent) \in Nat
  BY DEF TypeOK, Taken
<1>2. /\ reader \in Nat /\ writer \in Nat /\ roffset \in Slots
      /\ ReaderHolds \in {0, 1} /\ WriterHolds \in {0, 1}
      /\ wpc = "copy" => WriterHolds = 1
      /\ rpc = "copy" => ReaderHolds = 1
  BY DEF TypeOK, ReaderHolds, WriterHolds
<1> QED BY <1>1, <1>2 DEF Counts, Pending, Place, Slots

\* A fresh ring is empty, and both offsets are 0.
LEMMA InitIInv == Init => IInv
<1> SUFFICES ASSUME Init PROVE IInv
  OBVIOUS
<1> USE DEF Init
<1>0. ZeroSlot \in Slot
  BY DEF ZeroSlot, ZeroHeader, DataHeader, INVALID, Slot, Cells
<1>1. TypeOK
  <2>1. /\ reader \in Nat /\ writer \in Nat /\ 0 \in Slots /\ 0 \in 0..(BODY_SIZE + 1)
        /\ last_id \in 0..MAX_ID /\ restarts \in 0..MAX_RESTARTS
    BY DEF Slots
  <2>2. memory \in [Slots -> Slot]
    BY <1>0
  <2>3. wpc \in WriterStates /\ rpc \in ReaderStates /\ rret \in Returns
    BY DEF WriterStates, ReaderStates, Returns
  <2>4. sent \in Seq(Message) /\ received \in Seq(Message)
    OBVIOUS
  <2> QED BY <1>0, <2>1, <2>2, <2>3, <2>4 DEF TypeOK
<1>2. Pending = 0 /\ Len(sent) = 0 /\ Len(received) = 0
  BY DEF Pending, Taken
<1>3. Counts
  BY <1>2 DEF Counts, ReaderHolds, WriterHolds, Place
<1>4. WriteBuffer /\ ReadBuffer
  BY <1>2 DEF WriteBuffer, ReadBuffer
<1>5. RingContents
  BY <1>2 DEF RingContents
<1> QED BY <1>1, <1>3, <1>4, <1>5 DEF IInv

\* The actions that leave the ring and both histories alone.
LEMMA QuietStep ==
  ASSUME IInv,
         \/ \E obj \in Objects : WriteRefused(obj)
         \/ WriteInterrupted \/ AwaitTimeout \/ ReadNoData \/ UNCHANGED vars
  PROVE  IInv'
<1>1. UNCHANGED <<reader, writer, memory, wobj, wbuf, woffset, wcell, last_id,
                  rbuf, roffset, rcell, restarts, sent, received>>
  BY DEF WriteRefused, WriteInterrupted, AwaitTimeout, ReadNoData, vars, wvars, rvars
<1>2. /\ wpc' \in WriterStates /\ wret' \in BOOLEAN
      /\ wpc' = wpc \/ (wpc = "wait" /\ wpc' = "idle")
  BY DEF IInv, TypeOK, WriterStates, WriteRefused, WriteInterrupted, AwaitTimeout, ReadNoData, vars, wvars, rvars
<1>3. /\ rpc' \in ReaderStates /\ rret' \in Returns
      /\ rpc' = rpc \/ (rpc \in {"read", "more"} /\ rpc' = "await")
  BY DEF IInv, TypeOK, ReaderStates, Returns, CommunicationError, WriteRefused, WriteInterrupted,
         AwaitTimeout, ReadNoData, vars, wvars, rvars
<1>4. TypeOK'
  BY <1>1, <1>2, <1>3 DEF IInv, TypeOK
<1>5. ReaderHolds' = ReaderHolds /\ WriterHolds' = WriterHolds
  BY <1>2, <1>3 DEF ReaderHolds, WriterHolds
<1>6. Taken' = Taken /\ Pending' = Pending /\ \A i : Place(i)' = Place(i)
  BY <1>1, <1>3 DEF Taken, Pending, Place
<1>7. Counts'
  BY <1>1, <1>3, <1>5, <1>6 DEF IInv, Counts, Place
<1>8. WriteBuffer'
  BY <1>1, <1>2 DEF IInv, WriteBuffer
<1>9. RingContents'
  BY <1>1, <1>2, <1>6 DEF IInv, RingContents
<1>10. ReadBuffer'
  BY <1>1, <1>3 DEF IInv, ReadBuffer
<1> QED BY <1>4, <1>7, <1>8, <1>9, <1>10 DEF IInv

\* The steps that only move a token between a semaphore and a process.
LEMMA TokenStep ==
  ASSUME IInv, WriteAcquire \/ AwaitTake \/ AwaitRepost \/ ReadAcquire
  PROVE  IInv'
<1> USE DEF WriteAcquire, AwaitTake, AwaitRepost, ReadAcquire, wvars, rvars
<1>1. UNCHANGED <<memory, wobj, wbuf, woffset, last_id, wret, rbuf, roffset,
                  restarts, sent, received>>
  OBVIOUS
<1>2. /\ \/ UNCHANGED <<wpc, wcell, writer>>
         \/ wpc = "wait" /\ wpc' = "copy" /\ wcell' = 0 /\ writer > 0 /\ writer' = writer - 1
      /\ \/ UNCHANGED <<rpc, rcell, rret, reader>>
         \/ /\ rpc = "await" /\ rpc' = "repost" /\ UNCHANGED <<rcell, rret>>
            /\ reader > 0 /\ reader' = reader - 1
         \/ /\ rpc = "repost" /\ rpc' = "read" /\ UNCHANGED rcell /\ rret' = "ready"
            /\ reader' = reader + 1
         \/ /\ rpc \in {"read", "more"} /\ rpc' = "copy" /\ rcell' = 0 /\ UNCHANGED rret
            /\ reader > 0 /\ reader' = reader - 1
  OBVIOUS
<1>3. TypeOK'
  <2>1. reader' \in Nat /\ writer' \in Nat
    BY <1>2 DEF IInv, TypeOK
  <2>2. wpc' \in WriterStates /\ rpc' \in ReaderStates /\ rret' \in Returns
    BY <1>2 DEF IInv, TypeOK, WriterStates, ReaderStates, Returns
  <2>3. wcell' \in 0..(BODY_SIZE + 1) /\ rcell' \in 0..(BODY_SIZE + 1)
    BY <1>2 DEF IInv, TypeOK
  <2> QED BY <1>1, <2>1, <2>2, <2>3 DEF IInv, TypeOK
<1>4. /\ Taken' = Taken /\ Pending' = Pending
      /\ \A i : Place(i)' = Place(i)
  BY <1>1, <1>2 DEF Taken, Pending, Place
<1>5. Counts'
  <2>1. reader' + ReaderHolds' = reader + ReaderHolds
    BY <1>2 DEF IInv, TypeOK, ReaderHolds
  <2>2. writer' + WriterHolds' = writer + WriterHolds
    BY <1>2 DEF IInv, TypeOK, WriterHolds
  <2>3. woffset' = Place(Pending)'
    BY <1>1, <1>4 DEF IInv, Counts, Place
  <2>4. rpc' = "read" => reader' > 0
    BY <1>2 DEF IInv, TypeOK, Counts
  <2> QED BY <1>4, <2>1, <2>2, <2>3, <2>4 DEF IInv, Counts
<1>6. WriteBuffer'
  BY <1>1, <1>2 DEF IInv, WriteBuffer
<1>7. RingContents'
  <2>1. wpc' = "copy" => Copied(wbuf, memory[woffset], wcell)'
    BY <1>1, <1>2 DEF IInv, RingContents, Copied
  <2> QED BY <1>1, <1>4, <2>1 DEF IInv, RingContents
<1>8. ReadBuffer'
  <2>1. rpc' = "copy" => Copied(memory[roffset], rbuf, rcell)'
    BY <1>1, <1>2 DEF IInv, ReadBuffer, Copied
  <2> QED BY <1>1, <1>2, <2>1 DEF IInv, ReadBuffer
<1> QED BY <1>3, <1>5, <1>6, <1>7, <1>8 DEF IInv

\* write() prepares its private buffer_.
LEMMA SerializeStep ==
  ASSUME IInv, NEW obj \in Objects, WriteSerialize(obj)
  PROVE  IInv'
<1> USE DEF WriteSerialize, rvars
<1>1. /\ obj \in DataObject
      /\ SerializedSize(obj) \in Nat
      /\ Serialize(obj) \in Seq(Nat)
      /\ Len(Serialize(obj)) = SerializedSize(obj)
      /\ obj.type \in Nat
  BY ObjectsAreObjects, SerializeType, ObjectKinds DEF PING, JAVA_SYMBOL_LOOKUP, BINARY_DATA
<1>2. /\ wbuf'.header = DataHeader(last_id + 1, obj.type, SerializedSize(obj))
      /\ wbuf'.body = Overlay(wbuf.body, Serialize(obj))
      /\ wbuf' = [header |-> wbuf'.header, body |-> wbuf'.body]
  OBVIOUS
<1>3. /\ Overlay(wbuf.body, Serialize(obj)) \in Cells
      /\ \A k \in 1..SerializedSize(obj) :
           Overlay(wbuf.body, Serialize(obj))[k] = Serialize(obj)[k]
  <2>1. wbuf.body \in [1..BODY_SIZE -> Nat]
    BY DEF IInv, TypeOK, Slot, Cells, BodyIx
  <2>2. Len(Serialize(obj)) <= BODY_SIZE
    BY <1>1 DEF Fits
  <2>3. /\ Overlay(wbuf.body, Serialize(obj)) \in [1..BODY_SIZE -> Nat]
        /\ \A k \in 1..Len(Serialize(obj)) :
             Overlay(wbuf.body, Serialize(obj))[k] = Serialize(obj)[k]
    <3> HIDE DEF WriteSerialize
    <3>1. BODY_SIZE \in Nat
      OBVIOUS
    <3> HIDE RingAssumption
    <3> QED BY <1>1, <2>1, <2>2, <3>1, OverlayFacts
  <2> QED BY <1>1, <2>3 DEF Cells, BodyIx
<1>4. wbuf' \in Slot
  <2>1. last_id + 1 \in Nat
    BY DEF IInv, TypeOK
  <2> HIDE DEF WriteSerialize
  <2>2. wbuf'.header \in [id : Nat, type : Nat, body_size : Nat]
    BY <1>1, <1>2, <2>1 DEF DataHeader
  <2>3. wbuf'.body \in Cells
    BY <1>2, <1>3
  <2> QED BY <1>2, <2>2, <2>3 DEF Slot
<1>5. TypeOK'
  BY <1>4 DEF IInv, TypeOK, WriterStates
<1>6. Taken' = Taken /\ Pending' = Pending /\ \A i : Place(i)' = Place(i)
  BY DEF Taken, Pending, Place
<1>7. Counts'
  BY <1>6 DEF IInv, Counts, ReaderHolds, WriterHolds, Place
<1>8. WriteBuffer'
  <2>1. last_id' = last_id + 1 /\ last_id' > 0 /\ wobj' = obj
    BY DEF IInv, TypeOK
  <2>2. Holds(wbuf', [id |-> last_id + 1, obj |-> obj])
    BY <1>2, <1>3 DEF Holds
  <2> QED BY <2>1, <2>2 DEF WriteBuffer, Holds
<1>9. RingContents'
  BY <1>6 DEF IInv, RingContents
<1>10. ReadBuffer'
  BY DEF IInv, ReadBuffer
<1> QED BY <1>5, <1>7, <1>8, <1>9, <1>10 DEF IInv

\* write() fills a slot that is neither pending nor being read.
LEMMA WriteCopyStep ==
  ASSUME IInv, WriteCopy
  PROVE  IInv'
<1> USE DEF WriteCopy, rvars
<1>1. /\ wpc = "copy" /\ wpc' = "copy"
      /\ wcell \in 0..BODY_SIZE
      /\ wcell' = wcell + 1
  <2>1. /\ wbuf.header.body_size = SerializedSize(wobj)
        /\ SerializedSize(wobj) <= BODY_SIZE
        /\ wobj \in Objects
    BY DEF IInv, WriteBuffer, Holds, DataHeader, Fits
  <2>2. SerializedSize(wobj) \in Nat
    BY <2>1, ObjectsAreObjects, SerializeType
  <2> QED BY <2>1, <2>2 DEF IInv, TypeOK
<1>2. /\ wbuf \in Slot /\ memory \in [Slots -> Slot] /\ woffset \in Slots
      /\ Copied(wbuf, memory[woffset], wcell)
  BY DEF IInv, TypeOK, RingContents
<1>3. /\ CopyCell(wbuf, memory[woffset], wcell) \in Slot
      /\ Copied(wbuf, CopyCell(wbuf, memory[woffset], wcell), wcell + 1)
  BY <1>1, <1>2, CopyCellCopies
<1>4. /\ memory' \in [Slots -> Slot]
      /\ memory'[woffset] = CopyCell(wbuf, memory[woffset], wcell)
      /\ \A s \in Slots : s # woffset => memory'[s] = memory[s]
  BY <1>2, <1>3
<1>5. TypeOK'
  <2>1. wcell' \in 0..(BODY_SIZE + 1)
    BY <1>1
  <2> QED BY <1>4, <2>1 DEF IInv, TypeOK
<1>6. Taken' = Taken /\ Pending' = Pending /\ \A i : Place(i)' = Place(i)
  BY DEF Taken, Pending, Place
<1>7. Counts'
  BY <1>6 DEF IInv, Counts, ReaderHolds, WriterHolds, Place
<1>8. WriteBuffer'
  BY DEF IInv, WriteBuffer
<1>9. /\ \A i \in 0..(Pending - 1) : Place(i) \in Slots /\ Place(i) # woffset
      /\ rpc = "copy" => roffset # woffset /\ roffset \in Slots
  BY PlaceFacts DEF IInv, Counts
<1>10. RingContents'
  <2>1. \A i \in 0..(Pending - 1) : memory'[Place(i)] = memory[Place(i)]
    BY <1>4, <1>9
  <2>2. \A i \in 0..(Pending - 1) : Holds(memory'[Place(i)], sent[Taken + 1 + i])
    BY <2>1 DEF IInv, RingContents
  <2>3. Copied(wbuf, memory'[woffset], wcell')
    BY <1>1, <1>3, <1>4
  <2> QED BY <1>6, <2>2, <2>3 DEF IInv, RingContents
<1>11. ReadBuffer'
  <2>1. rpc = "copy" => memory'[roffset] = memory[roffset]
    BY <1>4, <1>9
  <2> QED BY <2>1 DEF IInv, ReadBuffer
<1> QED BY <1>5, <1>7, <1>8, <1>10, <1>11 DEF IInv

\* sem_post(reader_) adds the filled slot at the end of the pending ones.
LEMMA WritePublishStep ==
  ASSUME IInv, WritePublish
  PROVE  IInv'
<1> DEFINE m == [id |-> last_id, obj |-> wobj]
<1> USE DEF WritePublish, rvars
<1>1. /\ m \in Message /\ Holds(wbuf, m) /\ Fits(wobj, BODY_SIZE)
      /\ wbuf.header.id = last_id
      /\ wbuf.header.body_size = SerializedSize(wobj)
  BY DEF IInv, TypeOK, WriteBuffer, Message, Holds, DataHeader
<1>2. /\ sent' = Append(sent, m) /\ sent' \in Seq(Message)
      /\ Len(sent') = Len(sent) + 1 /\ Len(sent) \in Nat
      /\ sent'[Len(sent) + 1] = m
      /\ \A i \in 1..Len(sent) : sent'[i] = sent[i]
  BY <1>1 DEF IInv, TypeOK
<1>3. Holds(memory[woffset], m)
  <2>1. wcell \in Nat /\ wcell > SerializedSize(m.obj)
    BY <1>1 DEF IInv, TypeOK
  <2>2. Copied(wbuf, memory[woffset], wcell)
    BY DEF IInv, RingContents
  <2> HIDE DEF m, WritePublish
  <2> QED BY <1>1, <2>1, <2>2, CopiedHolds
<1> HIDE DEF m
<1>4. /\ Pending \in 0..TOTAL_AMOUNT /\ Taken \in Nat /\ Len(sent) = Taken + Pending
      /\ Pending < TOTAL_AMOUNT
      /\ woffset = Place(Pending)
      /\ woffset \in Slots /\ roffset \in Slots
  BY PlaceFacts DEF IInv, Counts, TypeOK
<1>5. /\ woffset' \in Slots
      /\ woffset' = IF woffset + 1 = TOTAL_AMOUNT THEN 0 ELSE woffset + 1
  BY <1>4, NextOffsetWraps
<1>6. TypeOK'
  BY <1>2, <1>5 DEF IInv, TypeOK, WriterStates
<1>7. Taken' = Taken /\ Pending' = Pending + 1 /\ \A i : Place(i)' = Place(i)
  BY <1>2, <1>4 DEF Taken, Pending, Place
<1>8. Counts'
  <2>1. reader' + ReaderHolds' = Pending + 1 /\ (rpc' = "read" => reader' > 0)
    BY <1>4 DEF IInv, TypeOK, Counts, ReaderHolds
  <2>2. writer' + WriterHolds' = TOTAL_AMOUNT - (Pending + 1)
    BY <1>4 DEF IInv, TypeOK, Counts, WriterHolds
  <2>3. woffset' = Place(Pending + 1)
    <3> HIDE DEF WritePublish
    <3> QED BY <1>4, <1>5, SMTT(30) DEF Place, Slots
  <2> QED BY <1>7, <2>1, <2>2, <2>3 DEF Counts, Place
<1>9. WriteBuffer'
  BY DEF WriteBuffer
<1>10. RingContents'
  <2>1. \A i \in 1..Len(sent') : Fits(sent'[i].obj, BODY_SIZE)
    <3>1. m.obj = wobj
      BY DEF m
    <3> QED BY <1>1, <1>2, <3>1 DEF IInv, RingContents
  <2>2. ASSUME NEW i \in 0..Pending
        PROVE  Holds(memory[Place(i)], sent'[Taken + 1 + i])
    <3>1. CASE i = Pending
      BY <1>2, <1>3, <1>4, <3>1
    <3>2. CASE i < Pending
      <4>1. Holds(memory[Place(i)], sent[Taken + 1 + i])
        BY <1>4, <3>2 DEF IInv, RingContents
      <4>2. sent'[Taken + 1 + i] = sent[Taken + 1 + i]
        BY <1>2, <1>4, <3>2
      <4> QED BY <4>1, <4>2
    <3> QED BY <1>4, <3>1, <3>2
  <2>3. /\ \A i \in 0..(Pending' - 1) : Holds(memory'[Place(i)'], sent'[Taken' + 1 + i])
        /\ wpc' # "copy"
    BY <1>4, <1>7, <2>2
  <2> HIDE DEF WritePublish
  <2> QED BY <2>1, <2>3 DEF RingContents
<1>11. ReadBuffer'
  <2>1. Len(received) \in Nat /\ Len(received) <= Taken /\ (rpc = "decode" => Taken = Len(received) + 1)
    BY DEF IInv, TypeOK, Taken
  <2>2. rpc = "decode" => sent'[Len(received) + 1] = sent[Len(received) + 1]
    BY <1>2, <1>4, <2>1
  <2>3. \A i \in 1..Len(received) : sent'[i] = sent[i]
    BY <1>2, <1>4, <2>1
  <2> QED BY <2>2, <2>3 DEF IInv, ReadBuffer
<1> QED BY <1>6, <1>8, <1>9, <1>10, <1>11 DEF IInv

\* read() copies the oldest pending slot into its private buffer_.
LEMMA ReadCopyStep ==
  ASSUME IInv, ReadCopy
  PROVE  IInv'
<1> USE DEF ReadCopy, wvars
<1>1. /\ rcell \in 0..BODY_SIZE /\ rcell' = rcell + 1
      /\ rbuf \in Slot /\ memory[roffset] \in Slot
      /\ Copied(memory[roffset], rbuf, rcell)
  BY DEF IInv, TypeOK, ReadBuffer
<1>2. /\ rbuf' \in Slot
      /\ Copied(memory[roffset], rbuf', rcell + 1)
  BY <1>1, CopyCellCopies
<1>3. TypeOK'
  <2>1. rcell' \in 0..(BODY_SIZE + 1)
    BY <1>1
  <2> QED BY <1>2, <2>1 DEF IInv, TypeOK
<1>4. Taken' = Taken /\ Pending' = Pending /\ \A i : Place(i)' = Place(i)
  BY DEF Taken, Pending, Place
<1>5. Counts'
  BY <1>4 DEF IInv, Counts, ReaderHolds, WriterHolds, Place
<1>6. WriteBuffer' /\ RingContents'
  BY <1>4 DEF IInv, WriteBuffer, RingContents
<1>7. ReadBuffer'
  BY <1>1, <1>2 DEF IInv, ReadBuffer
<1> QED BY <1>3, <1>5, <1>6, <1>7 DEF IInv

\* sem_post(writer_) gives back the slot, whose message is in buffer_ by then.
LEMMA ReadReleaseStep ==
  ASSUME IInv, ReadRelease
  PROVE  IInv'
<1> USE DEF ReadRelease, wvars
<1>1. /\ Pending \in 0..TOTAL_AMOUNT /\ Taken \in Nat /\ Len(sent) = Taken + Pending
      /\ Pending > 0
      /\ roffset = Place(0)
      /\ woffset = Place(Pending)
      /\ roffset \in Slots /\ woffset \in Slots
      /\ Taken = Len(received) /\ Len(received) \in Nat
  BY PlaceFacts DEF IInv, Counts, TypeOK, Taken
<1>2. /\ roffset' \in Slots
      /\ roffset' = IF roffset + 1 = TOTAL_AMOUNT THEN 0 ELSE roffset + 1
  BY <1>1, NextOffsetWraps
<1>3. Holds(rbuf, sent[Len(received) + 1])
  <2> DEFINE m == sent[Len(received) + 1]
  <2>1. m \in Message /\ Fits(m.obj, BODY_SIZE) /\ Holds(memory[roffset], m)
    BY <1>1 DEF IInv, TypeOK, RingContents
  <2>2. Copied(memory[roffset], rbuf, rcell) /\ rcell \in Nat
    BY DEF IInv, TypeOK, ReadBuffer
  <2>3. rcell > SerializedSize(m.obj)
    <3>1. SerializedSize(m.obj) \in Nat
      BY <2>1, ObjectsAreObjects, SerializeType DEF Message
    <3> QED BY <2>1, <2>2, <3>1 DEF Fits
  <2> HIDE DEF m, ReadRelease
  <2>4. Holds(rbuf, m)
    BY <2>1, <2>2, <2>3, CopiedHolds
  <2> QED BY <2>4 DEF m
<1>4. TypeOK'
  BY <1>2 DEF IInv, TypeOK, ReaderStates
<1>5. Taken' = Taken + 1 /\ Pending' = Pending - 1
  BY <1>1 DEF Taken, Pending
<1>6. \A i \in 0..(Pending - 1) : Place(i)' = Place(i + 1)
  <2> HIDE DEF ReadRelease
  <2> QED BY <1>1, <1>2 DEF Place, Slots
<1>7. Counts'
  <2>1. reader' + ReaderHolds' = Pending - 1
    BY <1>1 DEF IInv, TypeOK, Counts, ReaderHolds
  <2>2. writer' + WriterHolds' = TOTAL_AMOUNT - (Pending - 1)
    BY <1>1 DEF IInv, TypeOK, Counts, WriterHolds
  <2>3. woffset = IF roffset' + (Pending - 1) < TOTAL_AMOUNT
                  THEN roffset' + (Pending - 1)
                  ELSE roffset' + (Pending - 1) - TOTAL_AMOUNT
    <3> HIDE DEF ReadRelease
    <3> QED BY <1>1, <1>2 DEF Place, Slots
  <2> QED BY <1>5, <2>1, <2>2, <2>3 DEF Counts, Place
<1>8. WriteBuffer'
  BY DEF IInv, WriteBuffer
<1>9. RingContents'
  <2>1. ASSUME NEW i \in 0..(Pending' - 1)
        PROVE  Holds(memory[Place(i)'], sent[Taken' + 1 + i])
    <3>1. i + 1 \in 0..(Pending - 1) /\ i \in 0..(Pending - 1)
      BY <1>1, <1>5
    <3>2. Holds(memory[Place(i + 1)], sent[Taken + 1 + (i + 1)])
      BY <3>1 DEF IInv, RingContents
    <3>3. Taken' + 1 + i = Taken + 1 + (i + 1)
      BY <1>1, <1>5, <3>1
    <3> QED BY <1>6, <3>1, <3>2, <3>3
  <2> QED BY <2>1 DEF IInv, RingContents
<1>10. ReadBuffer'
  BY <1>3 DEF IInv, ReadBuffer
<1> QED BY <1>4, <1>7, <1>8, <1>9, <1>10 DEF IInv

\* The message decoded from buffer_ is the next one sent.
LEMMA ReadDecodeStep ==
  ASSUME IInv, ReadDecode
  PROVE  /\ IInv'
         /\ received' = Append(received, sent[Len(received) + 1])
         /\ rpc' = "more"
<1> DEFINE m == sent[Len(received) + 1]
<1>1. /\ rpc = "decode" /\ Holds(rbuf, m)
      /\ UNCHANGED <<reader, writer, memory, wvars, rbuf, roffset, rcell, restarts, sent>>
  BY DEF ReadDecode, IInv, ReadBuffer
<1>2. /\ Taken = Len(received) + 1 /\ Taken <= Len(sent)
      /\ Len(received) \in Nat /\ Len(sent) \in Nat
      /\ Pending \in Nat
  <2>1. received \in Seq(Message) /\ sent \in Seq(Message)
    BY DEF IInv, TypeOK
  <2>2. Len(received) \in Nat /\ Len(sent) \in Nat
    BY <2>1
  <2>3. Taken = Len(received) + 1
    BY <1>1 DEF Taken
  <2>4. Pending \in 0..TOTAL_AMOUNT /\ Len(sent) = Taken + Pending
    BY PlaceFacts, SMTT(30) DEF IInv
  <2> QED BY <2>2, <2>3, <2>4
<1>3. m \in Message
  BY <1>2 DEF IInv, TypeOK
<1> HIDE DEF m
<1>4. /\ ~IsError(ObjectIn(rbuf))
      /\ [id |-> rbuf.header.id, obj |-> ObjectIn(rbuf)] = m
  BY <1>1, <1>3, HoldsDecodes
<1>5. rpc' = "more" /\ rret' = "message" /\ received' = Append(received, m)
  BY <1>4 DEF ReadDecode
<1>6. /\ received' \in Seq(Message)
      /\ Len(received') = Len(received) + 1
      /\ received'[Len(received) + 1] = m
      /\ \A i \in 1..Len(received) : received'[i] = received[i]
  BY <1>3, <1>5 DEF IInv, TypeOK
<1>7. TypeOK'
  <2>1. rpc' \in ReaderStates /\ rret' \in Returns
    BY <1>5 DEF ReaderStates, Returns
  <2> QED BY <1>1, <1>6, <2>1 DEF IInv, TypeOK, wvars
<1>8. Taken' = Taken /\ Pending' = Pending /\ \A i : Place(i)' = Place(i)
  BY <1>1, <1>2, <1>5, <1>6 DEF Taken, Pending, Place
<1>9. Counts'
  <2>1. ReaderHolds' = ReaderHolds /\ WriterHolds' = WriterHolds
    BY <1>1, <1>5 DEF ReaderHolds, WriterHolds, wvars
  <2> QED BY <1>1, <1>5, <1>8, <2>1 DEF IInv, Counts, Place, wvars
<1>10. WriteBuffer'
  BY <1>1 DEF IInv, WriteBuffer, wvars
<1>11. RingContents'
  BY <1>1, <1>8 DEF IInv, RingContents, wvars
<1>12. ReadBuffer'
  <2>1. \A i \in 1..Len(received') : received'[i] = sent'[i]
    BY <1>1, <1>2, <1>6 DEF IInv, ReadBuffer, m
  <2> QED BY <1>5, <2>1 DEF ReadBuffer
<1> QED BY <1>5, <1>7, <1>9, <1>10, <1>11, <1>12 DEF IInv, m

\* Every step of either process preserves the invariant.
LEMMA NextIInv == IInv /\ [Next]_vars => IInv'
<1> SUFFICES ASSUME IInv, [Next]_vars PROVE IInv'
  OBVIOUS
<1>1. ASSUME NEW obj \in Objects, WriteSerialize(obj) PROVE IInv'
  BY <1>1, SerializeStep
<1>2. CASE WriteCopy
  BY <1>2, WriteCopyStep
<1>3. CASE WritePublish
  BY <1>3, WritePublishStep
<1>4. CASE ReadCopy
  BY <1>4, ReadCopyStep
<1>5. CASE ReadRelease
  BY <1>5, ReadReleaseStep
<1>6. CASE ReadDecode
  BY <1>6, ReadDecodeStep
<1>7. CASE WriteAcquire \/ AwaitTake \/ AwaitRepost \/ ReadAcquire
  BY <1>7, TokenStep
<1>8. CASE \/ \E obj \in Objects : WriteRefused(obj)
           \/ WriteInterrupted \/ AwaitTimeout \/ ReadNoData \/ UNCHANGED vars
  BY <1>8, QuietStep
<1> QED BY <1>1, <1>2, <1>3, <1>4, <1>5, <1>6, <1>7, <1>8 DEF Next, WriterNext, ReaderNext

\* The two processes keep the relation between the offsets, the semaphores, the
\* slots and the buffers for ever.
THEOREM Invariance == Spec => []IInv
BY InitIInv, NextIInv, PTL DEF Spec

-----------------------------------------------------------------------------
(* What the invariant says about the program. *)

\* Every variable keeps its type; in particular no offset_ leaves the ring and no
\* memcpy leaves its slot.
THEOREM TypeCorrect == Spec => []TypeOK
BY Invariance, PTL DEF IInv

\* write(), read() and await_data() neither lose nor invent a semaphore token.
THEOREM TokensConservedAlways == Spec => []TokensConserved
<1>1. IInv => TokensConserved
  <2> SUFFICES ASSUME IInv PROVE TokensConserved
    OBVIOUS
  <2>1. reader \in Nat /\ writer \in Nat /\ Pending \in 0..TOTAL_AMOUNT
    BY PlaceFacts DEF IInv, TypeOK
  <2>2. reader + ReaderHolds = Pending /\ writer + WriterHolds = TOTAL_AMOUNT - Pending
    BY DEF IInv, Counts
  <2>3. ReaderHolds \in {0, 1} /\ WriterHolds \in {0, 1}
    BY DEF ReaderHolds, WriterHolds
  <2> QED BY <2>1, <2>2, <2>3 DEF TokensConserved
<1> QED BY <1>1, Invariance, PTL

\* The memcpy of write() and the memcpy of read() never meet in a slot.
THEOREM SlotExclusionAlways == Spec => []SlotExclusion
<1>1. IInv => SlotExclusion
  <2> SUFFICES ASSUME IInv, wpc = "copy", rpc = "copy" PROVE woffset # roffset
    BY DEF SlotExclusion
  <2>1. Pending < TOTAL_AMOUNT /\ Pending > 0 /\ woffset = Place(Pending) /\ roffset = Place(0)
    BY PlaceFacts DEF IInv, Counts
  <2> QED BY <2>1, PlaceFacts DEF IInv
<1> QED BY <1>1, Invariance, PTL

\* read() returns the messages written, in order, whole and once each.
THEOREM InOrderAlways == Spec => []InOrder
<1>1. IInv => InOrder
  <2> SUFFICES ASSUME IInv PROVE InOrder
    OBVIOUS
  <2>1. Len(received) <= Len(sent)
    BY PlaceFacts DEF IInv, TypeOK, Taken
  <2> QED BY <2>1 DEF IInv, ReadBuffer, InOrder
<1> QED BY <1>1, Invariance, PTL

\* A published message stays in the ring until read() hands it out.
THEOREM NothingLostAlways == Spec => []NothingLost
<1>1. IInv => NothingLost
  <2> SUFFICES ASSUME IInv PROVE NothingLost
    OBVIOUS
  <2>1. Len(sent) = Taken + Pending /\ Taken \in Nat /\ Len(received) \in Nat /\ reader \in Nat
    BY PlaceFacts DEF IInv, TypeOK
  <2>2. reader + ReaderHolds = Pending /\ ReaderHolds \in {0, 1}
    BY DEF IInv, Counts, ReaderHolds
  <2> QED BY <2>1, <2>2 DEF NothingLost, Taken
<1> QED BY <1>1, Invariance, PTL

\* The read() after a successful await_data() finds a message.
THEOREM AwaitedDataIsThereAlways == Spec => []AwaitedDataIsThere
BY Invariance, PTL DEF IInv, Counts, AwaitedDataIsThere, has_data

\* write() returns true only for the message it has just published.
THEOREM WriteIsHonestAlways == Spec => []WriteIsHonest
<1>1. Init => WriteIsHonest
  BY DEF Init, WriteIsHonest
<1>2. ASSUME IInv, WriteIsHonest, [Next]_vars
      PROVE  WriteIsHonest'
  <2>1. CASE WritePublish
    <3> DEFINE m == [id |-> wbuf.header.id, obj |-> wobj]
    <3>1. m \in Message /\ m.id = last_id
      BY <1>2, <2>1 DEF WritePublish, IInv, TypeOK, WriteBuffer, Holds, DataHeader, Message
    <3>2. sent' = Append(sent, m) /\ last_id' = last_id /\ sent \in Seq(Message)
      BY <1>2, <2>1 DEF WritePublish, IInv, TypeOK
    <3> HIDE DEF m
    <3>3. Len(sent') > 0 /\ sent'[Len(sent')] = m
      BY <3>1, <3>2
    <3> QED BY <3>1, <3>2, <3>3 DEF WriteIsHonest
  <2>2. CASE ~WritePublish
    <3>1. \/ UNCHANGED <<wpc, wret, last_id, sent>>
          \/ wpc' # "idle"
          \/ wret' = FALSE
      BY <1>2, <2>2 DEF Next, WriterNext, ReaderNext, WriteRefused, WriteSerialize, WriteAcquire,
         WriteInterrupted, WriteCopy, AwaitTake, AwaitTimeout, AwaitRepost, ReadNoData,
         ReadAcquire, ReadCopy, ReadRelease, ReadDecode, vars, wvars
    <3> QED BY <1>2, <3>1 DEF WriteIsHonest
  <2> QED BY <2>1, <2>2
<1> QED BY <1>1, <1>2, Invariance, PTL DEF Spec

\* Writing processes may die anywhere in write() and be replaced: a slot can be
\* lost for good, but there are never more tokens than slots.
THEOREM NoTokenInventedAlways == RestartSpec => []NoTokenInvented
<1> DEFINE Counted == reader \in Nat /\ writer \in Nat /\ NoTokenInvented
<1>1. Init => Counted
  BY DEF Init, NoTokenInvented, WriterHolds, ReaderHolds
<1>2. ASSUME Counted, [RestartNext]_vars
      PROVE  Counted'
  <2>1. CASE WriterNext
    BY <1>2, <2>1 DEF NoTokenInvented, WriterHolds, ReaderHolds, WriterNext, WriteRefused,
       WriteSerialize, WriteAcquire, WriteInterrupted, WriteCopy, WritePublish, rvars
  <2>2. CASE ReaderNext
    BY <1>2, <2>2 DEF NoTokenInvented, WriterHolds, ReaderHolds, ReaderNext, AwaitTake,
       AwaitTimeout, AwaitRepost, ReadNoData, ReadAcquire, ReadCopy, ReadRelease, ReadDecode, wvars
  <2>3. CASE WriterRestart
    BY <1>2, <2>3 DEF NoTokenInvented, WriterHolds, ReaderHolds, WriterRestart, rvars
  <2>4. CASE UNCHANGED vars
    BY <1>2, <2>4 DEF NoTokenInvented, WriterHolds, ReaderHolds, vars, wvars, rvars
  <2> QED BY <1>2, <2>1, <2>2, <2>3, <2>4 DEF RestartNext, Next
<1>3. Counted => NoTokenInvented
  OBVIOUS
<1> QED BY <1>1, <1>2, <1>3, PTL DEF RestartSpec

-----------------------------------------------------------------------------
(* The ring implements the abstract channel. *)

\* What the channel has delivered, in terms of the two histories.
DeliveredPrefix ==
  /\ rpc = "decode" => Delivered = Append(received, sent[Len(received) + 1])
  /\ rpc # "decode" => Delivered = received
  /\ Len(Delivered) = Taken

\* The message in buffer_ is the next one sent, so what the channel has delivered
\* is a prefix of what was sent.
LEMMA DeliveredFacts == IInv => DeliveredPrefix
<1> SUFFICES ASSUME IInv PROVE DeliveredPrefix
  OBVIOUS
<1>1. received \in Seq(Message) /\ sent \in Seq(Message)
  BY DEF IInv, TypeOK
<1>2. ASSUME rpc = "decode"
      PROVE  Delivered = Append(received, sent[Len(received) + 1])
  <2>1. Len(received) + 1 \in 1..Len(sent)
    BY <1>1, <1>2, PlaceFacts DEF IInv, Taken
  <2>2. sent[Len(received) + 1] \in Message /\ Holds(rbuf, sent[Len(received) + 1])
    BY <1>1, <1>2, <2>1 DEF IInv, ReadBuffer
  <2>3. [id |-> rbuf.header.id, obj |-> ObjectIn(rbuf)] = sent[Len(received) + 1]
    BY <2>2, HoldsDecodes
  <2> QED BY <1>2, <2>3 DEF Delivered
<1>3. rpc # "decode" => Delivered = received
  BY DEF Delivered
<1>4. Len(Delivered) = Taken
  BY <1>1, <1>2, <1>3 DEF Taken
<1> QED BY <1>2, <1>3, <1>4 DEF DeliveredPrefix

\* Nothing is sent or delivered in the initial state.
LEMMA RingInit == Init => Ring!Init
BY DEF Init, Ring!Init, Delivered

\* Publishing is a Write of the channel, giving a slot back is a Read, and no
\* other step changes what the channel shows.
LEMMA RingStep == IInv /\ IInv' /\ [Next]_vars => [Ring!Next]_Ring!channelVars
<1> SUFFICES ASSUME IInv, IInv', [Next]_vars PROVE [Ring!Next]_Ring!channelVars
  OBVIOUS
<1>0. DeliveredPrefix /\ DeliveredPrefix'
  BY DeliveredFacts, PTL
<1>1. CASE WritePublish
  <2>1. UNCHANGED Delivered
    BY <1>1 DEF WritePublish, Delivered, ObjectIn, rvars
  <2>2. PICK m \in Message : sent' = Append(sent, m)
    BY <1>1 DEF WritePublish, IInv, TypeOK, WriteBuffer, Holds, DataHeader, Message
  <2>3. Len(sent) - Len(Delivered) < TOTAL_AMOUNT
    BY <1>0, <1>1, PlaceFacts DEF WritePublish, IInv, DeliveredPrefix
  <2> QED BY <2>1, <2>2, <2>3 DEF Ring!Next, Ring!Write
<1>2. CASE ReadRelease
  <2>1. rpc = "copy" /\ rpc' = "decode" /\ UNCHANGED <<sent, received>>
    BY <1>2 DEF ReadRelease
  <2>2. Delivered = received /\ Delivered' = Append(received, sent[Len(received) + 1])
    BY <1>0, <2>1 DEF DeliveredPrefix
  <2>3. Len(Delivered) < Len(sent)
    BY <1>0, <2>1, PlaceFacts DEF IInv, DeliveredPrefix
  <2> QED BY <2>1, <2>2, <2>3 DEF Ring!Next, Ring!Read
<1>3. CASE ReadDecode
  <2>1. received' = Append(received, sent[Len(received) + 1]) /\ rpc' = "more"
    BY <1>3, ReadDecodeStep
  <2>2. Delivered' = Delivered /\ UNCHANGED sent
    BY <1>0, <1>3, <2>1 DEF ReadDecode, DeliveredPrefix
  <2> QED BY <2>2 DEF Ring!channelVars
<1>4. CASE \/ \E obj \in Objects : WriteRefused(obj) \/ WriteSerialize(obj)
           \/ WriteAcquire \/ WriteInterrupted \/ WriteCopy
           \/ AwaitTake \/ AwaitTimeout \/ AwaitRepost
           \/ ReadNoData \/ ReadAcquire \/ ReadCopy \/ UNCHANGED vars
  <2>1. /\ UNCHANGED <<sent, received>>
        /\ \/ UNCHANGED <<rpc, rbuf>>
           \/ rpc # "decode" /\ rpc' # "decode"
    BY <1>4 DEF WriteRefused, WriteSerialize, WriteAcquire, WriteInterrupted, WriteCopy,
       AwaitTake, AwaitTimeout, AwaitRepost, ReadNoData, ReadAcquire, ReadCopy, vars, rvars
  <2>2. Delivered' = Delivered
    BY <2>1 DEF Delivered, ObjectIn
  <2> QED BY <2>1, <2>2 DEF Ring!channelVars
<1> QED BY <1>1, <1>2, <1>3, <1>4 DEF Next, WriterNext, ReaderNext

\* The shared ring, with its two semaphores and its cell by cell copies, behaves
\* as a bounded first-in-first-out channel of TOTAL_AMOUNT messages.
THEOREM Refinement == Spec => ImplementsChannel
BY Invariance, RingInit, RingStep, PTL DEF Spec, ImplementsChannel, Ring!Spec

-----------------------------------------------------------------------------
(* open() and close(): the inductive invariant. *)

\* The server's handle of n is the object that the name leads to.
Owns(n) == shandle[n] # 0 /\ shandle[n] = name[n] /\ shandle[n] = created[n]

Latest ==
  \A n \in Names : /\ name[n] \in {0, created[n]}
                   /\ shandle[n] <= created[n] /\ chandle[n] <= created[n]

ServerHolds ==
  /\ spc = "create" => name["memory"] = 0
  /\ spc \in {"unlink_w", "open_r"} => name["r"] = 0
  /\ spc \in {"open_r", "open_w"} => name["w"] = 0
  /\ spc \in {"truncate", "map", "unlink_r", "unlink_w", "open_r", "open_w"} \cup Serving =>
       Owns("memory")
  /\ spc \in {"open_w"} \cup Serving => Owns("r")
  /\ spc \in Serving => Owns("w")

ClientHolds ==
  /\ cpc # "closed" => chandle["memory"] # 0
  /\ cpc \in {"open_w", "open", "write"} => chandle["r"] # 0

Pairing ==
  paired =>
    /\ spc \in Serving /\ cpc # "closed"
    /\ chandle["memory"] = shandle["memory"]
    /\ cpc \in {"open_w", "open", "write"} => chandle["r"] = shandle["r"]
    /\ cpc \in {"open", "write"} => chandle["w"] = shandle["w"]

\* The semaphores come after ftruncate.
Sizes ==
  kind = "memory" /\ spc \in {"map", "unlink_r", "unlink_w", "open_r", "open_w"} \cup Serving =>
    shandle["memory"] \in sized

\* The newest "r" comes with the newest "w".
Generation ==
  /\ cpc \in {"open", "write"} /\ chandle["r"] = created["r"] =>
       chandle["w"] = created["w"] /\ spc # "open_w"
  /\ spc = "open_w" => value["r"][shandle["r"]] = 0

\* No token of a "w" that is still to be created is lost.
Losses == \A o \in ObjectIds : o > created["w"] => lost[o] = 0

Balance == spc \in Serving => Tokens + lost[shandle["w"]] = TOTAL_SLOTS

OpenInv ==
  /\ OpenTypeOK /\ Latest /\ ServerHolds /\ ClientHolds /\ Pairing
  /\ Sizes /\ Generation /\ Losses /\ Balance

-----------------------------------------------------------------------------
(* The invariant holds initially and every step keeps it. *)

USE OpenAssumption

\* A process without handles.
LEMMA NothingIsNothing ==
  /\ 0 \in ObjectIds
  /\ Nothing \in [Names -> ObjectIds]
  /\ \A n \in Names : Nothing[n] = 0
BY DEF Nothing, ObjectIds

LEMMA InitOpenInv == OpenInit => OpenInv
<1> SUFFICES ASSUME OpenInit PROVE OpenInv
  OBVIOUS
<1>1. OpenTypeOK
  <2>1. /\ value \in [{"r", "w"} -> [ObjectIds -> Nat]]
        /\ \A o \in ObjectIds : value["w"][o] <= TOTAL_SLOTS
    BY DEF OpenInit
  <2>2. sized \in SUBSET (ObjectIds \ {0}) /\ lost \in [ObjectIds -> Nat]
    BY DEF OpenInit
  <2> QED
    BY <2>1, <2>2, NothingIsNothing DEF OpenInit, OpenTypeOK, ServerStates, ClientStates
<1>2. Latest /\ ClientHolds /\ Pairing
  BY DEF OpenInit, Latest, ClientHolds, Pairing, Nothing, Names
<1>3. ServerHolds /\ Sizes /\ Generation /\ Losses /\ Balance
  BY DEF OpenInit, ServerHolds, Sizes, Generation, Losses, Balance, Nothing, Names, Serving
<1> QED BY <1>1, <1>2, <1>3 DEF OpenInv

\* A client that opens or closes takes handles of what the names lead to, and lets
\* go of them.
LEMMA ClientOpensStep ==
  ASSUME OpenInv,
         \/ ClientOpenMemory \/ ClientMap \/ ClientOpenReader \/ ClientOpenWriter \/ ClientClose
  PROVE  OpenInv'
<1>1. /\ UNCHANGED <<kind, name, created, sized, value, spc, shandle, lost>>
      /\ cpc # "write" /\ cpc' \in {"map", "open_r", "open_w", "open", "closed"}
  BY DEF ClientOpenMemory, ClientMap, ClientOpenReader, ClientOpenWriter, ClientClose,
         ClientOpens, ClientGoes, ClientStates
<1>2. /\ OpenTypeOK /\ Latest /\ ServerHolds /\ ClientHolds
      /\ Pairing /\ Sizes /\ Generation /\ Losses /\ Balance
  BY DEF OpenInv
<1>3. /\ chandle' \in [Names -> ObjectIds]
      /\ \A n \in Names : chandle'[n] <= created[n]
  <2>1. CASE chandle' = Nothing
    BY <1>2, <2>1, NothingIsNothing DEF OpenTypeOK, ObjectIds
  <2>2. CASE chandle' = chandle
    BY <1>2, <2>2 DEF OpenTypeOK, Latest
  <2>3. ASSUME NEW n \in Names, OpenExisting(n) 
        PROVE  /\ chandle' \in [Names -> ObjectIds]
               /\ \A m \in Names : chandle'[m] <= created[m]
    <3>1. /\ chandle' = [chandle EXCEPT ![n] = name[n]]
          /\ name[n] \in ObjectIds /\ name[n] = created[n]
      BY <1>2, <2>3 DEF OpenTypeOK, Latest, OpenExisting
    <3>2. created[n] \in Nat
      BY <1>2 DEF OpenTypeOK, ObjectIds
    <3> QED BY <1>2, <2>3, <3>1, <3>2 DEF OpenTypeOK, Latest
  <2>4. "memory" \in Names /\ "r" \in Names /\ "w" \in Names
    BY DEF Names
  <2> HIDE DEF OpenExisting
  <2>5. CASE ClientOpenMemory
    BY <2>3, <2>4, <2>5 DEF ClientOpenMemory
  <2>6. CASE ClientOpenReader \/ ClientOpenWriter
    BY <2>3, <2>4, <2>6 DEF ClientOpenReader, ClientOpenWriter
  <2>7. CASE ClientMap \/ ClientClose
    BY <2>1, <2>2, <2>4, <2>7 DEF ClientMap, ClientClose
  <2> QED BY <2>5, <2>6, <2>7
<1>4. OpenTypeOK'
  <2>1. paired' \in BOOLEAN
    <3>1. \/ ClientOpenMemory /\ paired' = (spc \in Serving)
          \/ paired' = FALSE
          \/ paired' = paired
      BY DEF ClientOpenMemory, ClientMap, ClientOpenReader, ClientOpenWriter, ClientClose
    <3>2. (spc \in Serving) \in BOOLEAN /\ paired \in BOOLEAN
      BY <1>2 DEF OpenTypeOK
    <3> QED BY <3>1, <3>2, Zenon
  <2> QED BY <1>1, <1>2, <1>3, <2>1 DEF OpenTypeOK, ClientStates
<1>5. Latest' /\ ServerHolds' /\ Sizes' /\ Losses'
  BY <1>1, <1>2, <1>3 DEF Latest, ServerHolds, Sizes, Losses, Owns
<1>6. ClientHolds'
  BY <1>2 DEF ClientHolds, ClientOpenMemory, ClientMap, ClientOpenReader, ClientOpenWriter,
              ClientClose, ClientOpens, ClientGoes, OpenExisting, OpenTypeOK, Names
<1>7. Pairing'
  <2>1. CASE ClientOpenMemory
    BY <1>2, <2>1 DEF ClientOpenMemory, ClientOpens, ClientGoes, OpenExisting, Pairing,
                      ServerHolds, Owns, OpenTypeOK, Names
  <2>2. CASE ClientMap
    BY <1>2, <2>2 DEF ClientMap, ClientOpens, ClientGoes, Pairing
  <2>3. CASE ClientOpenReader \/ ClientOpenWriter
    BY <1>2, <2>3 DEF ClientOpenReader, ClientOpenWriter, ClientOpens, ClientGoes, OpenExisting,
                      Pairing, ServerHolds, Owns, OpenTypeOK, Names
  <2>4. CASE ClientClose
    BY <2>4 DEF ClientClose, Pairing
  <2> QED BY <2>1, <2>2, <2>3, <2>4
<1>8. Generation'
  <2>1. CASE cpc' # "open"
    BY <1>1, <1>2, <2>1 DEF Generation
  <2>2. CASE ClientOpenWriter
    BY <1>1, <1>2, <2>2 DEF ClientOpenWriter, OpenExisting, Generation, Latest, ServerHolds,
                            OpenTypeOK, Names
  <2> QED
    BY <2>1, <2>2 DEF ClientOpenMemory, ClientMap, ClientOpenReader, ClientClose,
                      ClientOpens, ClientGoes
<1>9. Balance'
  <2>1. Tokens' = Tokens
    BY <1>1 DEF Tokens
  <2> QED BY <1>1, <1>2, <2>1 DEF Balance
<1> QED BY <1>4, <1>5, <1>6, <1>7, <1>8, <1>9 DEF OpenInv

\* A token is only lost of a "w" that was created.
LEMMA LossesStay ==
  ASSUME OpenTypeOK, Latest, Losses, created' = created, lost' = lost \/ LoseToken
  PROVE  lost' \in [ObjectIds -> Nat] /\ Losses'
<1>1. /\ lost \in [ObjectIds -> Nat]
      /\ chandle["w"] \in ObjectIds /\ created["w"] \in ObjectIds
      /\ chandle["w"] <= created["w"]
  BY DEF OpenTypeOK, Latest, Names
<1>2. \A o \in ObjectIds : o \in Nat
  BY DEF ObjectIds
<1>3. CASE lost' = lost
  BY <1>1, <1>3 DEF Losses
<1>4. CASE LoseToken
  <2>1. lost' = [lost EXCEPT ![chandle["w"]] = lost[chandle["w"]] + 1]
    BY <1>4 DEF LoseToken
  <2>2. lost' \in [ObjectIds -> Nat]
    BY <1>1, <2>1
  <2>3. ASSUME NEW o \in ObjectIds, o > created["w"] PROVE lost'[o] = 0
    <3>1. lost'[o] = lost[o]
      BY <1>1, <1>2, <2>1, <2>3
    <3> QED BY <2>3, <3>1 DEF Losses
  <2> QED BY <2>2, <2>3 DEF Losses
<1> QED BY <1>3, <1>4

\* What write() does to the semaphores it has open.
LEMMA ClientTokenStep ==
  ASSUME OpenInv, ClientTake \/ ClientPost \/ ClientKilled
  PROVE  OpenInv'
<1>1. UNCHANGED <<kind, name, created, sized, spc, shandle>>
  BY DEF ClientTake, ClientPost, ClientKilled, ClientGoes
<1>2. /\ OpenTypeOK /\ Latest /\ ServerHolds /\ ClientHolds
      /\ Pairing /\ Sizes /\ Generation /\ Losses /\ Balance
  BY DEF OpenInv
<1> DEFINE R == value["r"]
           W == value["w"]
<1>3. /\ R \in [ObjectIds -> Nat] /\ W \in [ObjectIds -> Nat]
      /\ \A n \in Names : chandle[n] \in ObjectIds /\ shandle[n] \in ObjectIds
      /\ lost \in [ObjectIds -> Nat] /\ 0 \in ObjectIds
      /\ created \in [Names -> ObjectIds]
  BY <1>2, NothingIsNothing DEF OpenTypeOK
<1>4. Sizes' /\ ServerHolds'
  BY <1>1, <1>2 DEF Sizes, ServerHolds, Owns
<1>5. CASE ClientTake
  <2>1. /\ cpc = "open" /\ cpc' = "write" /\ UNCHANGED <<chandle, paired, lost>>
        /\ W[chandle["w"]] > 0
        /\ R' = R /\ W' = [W EXCEPT ![chandle["w"]] = @ - 1]
        /\ value' = [value EXCEPT !["w"] = W']
    BY <1>2, <1>5 DEF ClientTake, ClientGoes, OpenTypeOK
  <2>2. W' \in [ObjectIds -> Nat] /\ \A o \in ObjectIds : W'[o] <= W[o]
    BY <1>3, <2>1 DEF Names
  <2>3. OpenTypeOK'
    BY <1>1, <1>2, <2>1, <2>2 DEF OpenTypeOK, ClientStates
  <2>4. Latest' /\ ClientHolds' /\ Pairing' /\ Generation'
    BY <1>1, <1>2, <2>1 DEF Latest, ClientHolds, Pairing, Generation
  <2>5. Tokens' = Tokens
    BY <1>1, <1>3, <2>1 DEF Tokens, Names
  <2>6. Losses' /\ Balance'
    BY <1>1, <1>2, <2>1, <2>5, LossesStay DEF Balance
  <2> QED BY <1>4, <2>3, <2>4, <2>6 DEF OpenInv
<1>6. CASE ClientPost
  <2>1. /\ cpc = "write" /\ cpc' = "open" /\ UNCHANGED <<chandle, paired>>
        /\ R' = [R EXCEPT ![chandle["r"]] = @ + 1] /\ W' = W
        /\ value' = [value EXCEPT !["r"] = R']
        /\ IF Misplaced THEN LoseToken ELSE lost' = lost
        /\ lost' \in [ObjectIds -> Nat] /\ Losses'
    BY <1>1, <1>2, <1>6, LossesStay DEF ClientPost, ClientGoes, OpenTypeOK
  <2>2. R' \in [ObjectIds -> Nat]
    BY <1>3, <2>1 DEF Names
  <2>3. OpenTypeOK'
    BY <1>1, <1>2, <2>1, <2>2 DEF OpenTypeOK, ClientStates
  <2>4. Latest' /\ ClientHolds' /\ Pairing'
    BY <1>1, <1>2, <2>1 DEF Latest, ClientHolds, Pairing
  <2>5. Generation'
    BY <1>1, <1>2, <1>3, <2>1 DEF Generation, ServerHolds, Owns, Names
  <2>6. Balance'
    <3> SUFFICES ASSUME spc \in Serving PROVE Balance'
      BY <1>1 DEF Balance
    <3>1. Owns("r") /\ Owns("w")
      BY <1>2 DEF ServerHolds
    <3>2. chandle["r"] = shandle["r"] => chandle["w"] = shandle["w"]
      BY <1>2, <2>1, <3>1 DEF Generation, Owns
    <3>3. CASE chandle["r"] = shandle["r"]
      <4>1. ~Misplaced /\ lost' = lost
        BY <2>1, <3>3 DEF Misplaced
      <4>2. Tokens' = Tokens
        BY <1>1, <1>3, <2>1, <3>2, <3>3 DEF Tokens, Names
      <4> QED BY <1>1, <1>2, <4>1, <4>2 DEF Balance
    <3>4. CASE chandle["r"] # shandle["r"]
      <4>1. Tokens' = IF chandle["w"] = shandle["w"] THEN Tokens - 1 ELSE Tokens
        BY <1>1, <1>3, <2>1, <3>4 DEF Tokens, Names
      <4>2. lost'[shandle["w"]] = IF chandle["w"] = shandle["w"] THEN lost[shandle["w"]] + 1
                                                                 ELSE lost[shandle["w"]]
        BY <1>3, <2>1, <3>4 DEF Misplaced, LoseToken, Names
      <4>3. Tokens \in Int /\ lost[shandle["w"]] \in Nat
        BY <1>3 DEF Tokens, Names
      <4> HIDE DEF Tokens
      <4> QED BY <1>1, <1>2, <1>3, <4>1, <4>2, <4>3 DEF Balance
    <3> QED BY <3>3, <3>4
  <2> QED BY <1>4, <2>1, <2>3, <2>4, <2>5, <2>6 DEF OpenInv
<1>7. CASE ClientKilled
  <2>1. /\ cpc = "write" /\ cpc' = "closed" /\ chandle' = Nothing /\ paired' = FALSE
        /\ LoseToken /\ value' = value
        /\ lost' \in [ObjectIds -> Nat] /\ Losses'
    BY <1>1, <1>2, <1>7, LossesStay DEF ClientKilled, ClientGoes
  <2>2. OpenTypeOK' /\ Latest'
    <3>1. \A n \in Names : created[n] \in Nat
      BY <1>3 DEF ObjectIds
    <3>2. OpenTypeOK'
      BY <1>1, <1>2, <2>1, NothingIsNothing DEF OpenTypeOK, ClientStates
    <3>3. Latest'
      BY <1>1, <1>2, <2>1, <3>1, NothingIsNothing DEF Latest
    <3> QED BY <3>2, <3>3
  <2>3. ClientHolds' /\ Pairing' /\ Generation'
    BY <1>1, <1>2, <2>1 DEF ClientHolds, Pairing, Generation
  <2>4. Balance'
    <3> SUFFICES ASSUME spc \in Serving PROVE Balance'
      BY <1>1 DEF Balance
    <3>1. shandle["w"] # 0
      BY <1>2 DEF ServerHolds, Owns
    <3>2. Tokens' = IF chandle["w"] = shandle["w"] THEN Tokens - 1 ELSE Tokens
      BY <1>1, <1>3, <2>1, <3>1, NothingIsNothing DEF Tokens, Names
    <3>3. lost'[shandle["w"]] = IF chandle["w"] = shandle["w"] THEN lost[shandle["w"]] + 1
                                                               ELSE lost[shandle["w"]]
      BY <1>3, <2>1 DEF LoseToken, Names
    <3>4. Tokens \in Int /\ lost[shandle["w"]] \in Nat
      BY <1>3 DEF Tokens, Names
    <3> HIDE DEF Tokens
    <3> QED BY <1>1, <1>2, <1>3, <3>2, <3>3, <3>4 DEF Balance
  <2> QED BY <1>4, <2>1, <2>2, <2>3, <2>4 DEF OpenInv
<1> QED BY <1>5, <1>6, <1>7

\* The steps of the server that call nothing, or only sem_unlink and shm_unlink.
LEMMA ServerPassesStep ==
  ASSUME OpenInv,
         \/ ServerUnlinkMemory \/ ServerMap \/ ServerUnlinkReader \/ ServerUnlinkWriter
         \/ ServerCreateFails \/ ServerOpenFails \/ ServerStartClose \/ ServerReadNoData
         \/ ServerRemoveMemory \/ ServerRemoveReader \/ ServerRemoveWriter
  PROVE  OpenInv'
<1> USE DEF ServerUnlinkMemory, ServerMap, ServerUnlinkReader, ServerUnlinkWriter,
            ServerCreateFails, ServerOpenFails, ServerStartClose, ServerReadNoData,
            ServerRemoveMemory, ServerRemoveReader, ServerRemoveWriter,
            ServerUnlinks, ServerPasses, ServerGoes
<1>1. /\ UNCHANGED <<kind, cpc, chandle, lost, created, sized, value, shandle>>
      /\ spc' \in ServerStates
  BY DEF Unlink, objects, ServerStates, Serving
<1>2. /\ OpenTypeOK /\ Latest /\ ServerHolds /\ ClientHolds
      /\ Pairing /\ Sizes /\ Generation /\ Losses /\ Balance
  BY DEF OpenInv
<1>3. \/ spc' \in Serving /\ spc' = "open" /\ spc = "drain" /\ name' = name
      \/ spc' \notin Serving /\ ~paired'
  BY <1>2 DEF Serving, Unlink, objects, Pairing
<1>4. name' \in [Names -> ObjectIds] /\ \A n \in Names : name'[n] \in {0, created[n]}
  <2>1. CASE name' = name
    BY <1>2, <2>1 DEF OpenTypeOK, Latest
  <2>2. ASSUME NEW n \in Names, Unlink(n)
        PROVE  name' \in [Names -> ObjectIds] /\ \A m \in Names : name'[m] \in {0, created[m]}
    BY <1>2, <2>2, NothingIsNothing DEF OpenTypeOK, Latest, Unlink
  <2>3. name' = name \/ \E n \in Names : Unlink(n)
    BY DEF Names, objects
  <2> QED BY <2>1, <2>2, <2>3
<1>5. OpenTypeOK' /\ Latest'
  <2>1. paired' \in BOOLEAN
    BY <1>2, <1>3 DEF OpenTypeOK
  <2> QED BY <1>1, <1>2, <1>4, <2>1 DEF OpenTypeOK, Latest
<1>6. ServerHolds'
  BY <1>1, <1>2 DEF ServerHolds, Owns, Serving, Unlink, objects, OpenTypeOK, Names
<1>7. ClientHolds'
  BY <1>1, <1>2 DEF ClientHolds
<1>8. Pairing'
  BY <1>1, <1>2, <1>3 DEF Pairing
<1>9. Sizes' /\ Losses'
  BY <1>1, <1>2 DEF Sizes, Losses, Serving
<1>10. Generation'
  <2>1. spc' # "open_w"
    OBVIOUS
  <2> QED BY <1>1, <1>2, <2>1 DEF Generation
<1>11. Balance'
  <2>1. spc' \in Serving => Tokens' = Tokens /\ spc \in Serving
    BY <1>1, <1>3 DEF Tokens, Serving
  <2> QED BY <1>1, <1>2, <2>1 DEF Balance
<1> QED BY <1>5, <1>6, <1>7, <1>8, <1>9, <1>10, <1>11 DEF OpenInv

\* sem_wait and sem_post of an open server.
LEMMA ServerTokenStep ==
  ASSUME OpenInv, ServerAwaitTake \/ ServerAwaitRepost \/ ServerReadAcquire \/ ServerReadRelease
  PROVE  OpenInv'
<1> USE DEF ServerAwaitTake, ServerAwaitRepost, ServerReadAcquire, ServerReadRelease,
            ServerToken, ServerGoes
<1>1. /\ UNCHANGED <<kind, cpc, chandle, lost, name, created, sized, shandle>>
      /\ spc \in Serving /\ spc' \in Serving /\ paired' = paired
  <2>1. paired \in BOOLEAN
    BY DEF OpenInv, OpenTypeOK
  <2> QED BY <2>1 DEF Serving
<1>2. /\ OpenTypeOK /\ Latest /\ ServerHolds /\ ClientHolds
      /\ Pairing /\ Sizes /\ Generation /\ Losses /\ Balance
  BY DEF OpenInv
<1> DEFINE R == value["r"]
           W == value["w"]
           r == shandle["r"]
           w == shandle["w"]
<1>3. /\ R \in [ObjectIds -> Nat] /\ W \in [ObjectIds -> Nat]
      /\ r \in ObjectIds /\ w \in ObjectIds /\ TOTAL_SLOTS \in Nat
      /\ lost[w] \in Nat /\ Tokens + lost[w] = TOTAL_SLOTS
  BY <1>1, <1>2 DEF OpenTypeOK, Names, Balance
<1>4. /\ Tokens' = Tokens
      /\ R' \in [ObjectIds -> Nat] /\ W' \in [ObjectIds -> Nat]
      /\ \A o \in ObjectIds : W'[o] <= TOTAL_SLOTS
  <2>1. CASE ServerAwaitTake \/ ServerReadAcquire
    <3>1. /\ spc \in {"open", "drain"} /\ spc' \in {"probe", "read"}
          /\ R[r] > 0 /\ R' = [R EXCEPT ![r] = @ - 1] /\ W' = W
      BY <1>2, <1>3, <2>1 DEF OpenTypeOK
    <3> QED BY <1>1, <1>2, <1>3, <3>1 DEF Tokens, OpenTypeOK
  <2>2. CASE ServerAwaitRepost
    <3>1. /\ spc = "probe" /\ spc' = "drain"
          /\ R' = [R EXCEPT ![r] = @ + 1] /\ W' = W
      BY <1>2, <1>3, <2>2 DEF OpenTypeOK
    <3> QED BY <1>1, <1>2, <1>3, <3>1 DEF Tokens, OpenTypeOK
  <2>3. CASE ServerReadRelease
    <3>1. /\ spc = "read" /\ spc' = "drain"
          /\ W' = [W EXCEPT ![w] = @ + 1] /\ R' = R
      BY <1>2, <1>3, <2>3 DEF OpenTypeOK
    <3>2. W[w] + 1 <= TOTAL_SLOTS
      BY <1>3, <3>1 DEF Tokens
    <3> QED BY <1>1, <1>2, <1>3, <3>1, <3>2 DEF Tokens, OpenTypeOK
  <2> QED BY <2>1, <2>2, <2>3
<1>5. OpenTypeOK'
  <2>1. value' \in [{"r", "w"} -> [ObjectIds -> Nat]]
    <3>1. \E f : value' = [value EXCEPT !["r"] = f] \/ value' = [value EXCEPT !["w"] = f]
      OBVIOUS
    <3>2. DOMAIN value' = {"r", "w"} /\ value' = [n \in DOMAIN value' |-> value'[n]]
      BY <1>2, <3>1 DEF OpenTypeOK
    <3> QED BY <1>4, <3>2
  <2> QED BY <1>1, <1>2, <1>4, <2>1 DEF OpenTypeOK, ServerStates
<1>6. Latest' /\ ClientHolds'
  BY <1>1, <1>2 DEF Latest, ClientHolds
<1>7. ServerHolds' /\ Pairing' /\ Sizes' /\ Losses'
  BY <1>1, <1>2 DEF ServerHolds, Owns, Pairing, Sizes, Losses, Serving
<1>8. Generation'
  BY <1>1, <1>2 DEF Generation, Serving
<1>9. Balance'
  BY <1>1, <1>2, <1>4 DEF Balance
<1> QED BY <1>5, <1>6, <1>7, <1>8, <1>9 DEF OpenInv

\* ftruncate, and the handles that go with munmap, sem_close or the process.
LEMMA ServerHandlesStep ==
  ASSUME OpenInv, ServerTruncate \/ ServerRelease \/ ServerKilled
  PROVE  OpenInv'
<1> USE DEF ServerTruncate, ServerRelease, ServerKilled, ServerGoes
<1>1. /\ UNCHANGED <<kind, cpc, chandle, lost, name, created, value>>
      /\ spc' \notin Serving /\ spc' # "open_w" /\ spc' \in ServerStates
  BY DEF objects, Serving, ServerStates
<1>2. /\ OpenTypeOK /\ Latest /\ ServerHolds /\ ClientHolds
      /\ Pairing /\ Sizes /\ Generation /\ Losses /\ Balance
  BY DEF OpenInv
<1>3. paired' = FALSE
  BY <1>1, <1>2 DEF Pairing, OpenTypeOK
<1>4. /\ sized' \in SUBSET (ObjectIds \ {0}) /\ sized \subseteq sized'
      /\ shandle' \in {shandle, Nothing}
      /\ spc' # "closed" /\ spc' # "close_memory" =>
           spc = "truncate" /\ spc' = "map" /\ shandle' = shandle /\ shandle["memory"] \in sized'
  BY <1>2 DEF OpenTypeOK, objects, ServerHolds, Owns, Names
<1>5. OpenTypeOK'
  BY <1>1, <1>2, <1>3, <1>4, NothingIsNothing DEF OpenTypeOK
<1>6. Latest'
  <2>1. \A n \in Names : created[n] \in Nat
    BY <1>2 DEF OpenTypeOK, ObjectIds
  <2> QED BY <1>1, <1>2, <1>4, <2>1, NothingIsNothing DEF Latest
<1>7. ServerHolds' /\ ClientHolds' /\ Pairing'
  BY <1>1, <1>2, <1>3, <1>4 DEF ServerHolds, ClientHolds, Pairing, Owns, Serving
<1>8. Sizes'
  BY <1>1, <1>2, <1>4 DEF Sizes, Serving
<1>9. Generation' /\ Losses' /\ Balance'
  BY <1>1, <1>2 DEF Generation, Losses, Balance
<1> QED BY <1>5, <1>6, <1>7, <1>8, <1>9 DEF OpenInv

\* shm_open, open and sem_open with O_CREAT: the name leads to the server's object,
\* which is new if the name led nowhere, and no other name is touched.
LEMMA OpenOrCreateOwns ==
  ASSUME OpenTypeOK, Latest, NEW n \in Names, NEW initial \in 0..TOTAL_SLOTS,
         OpenOrCreate(n, initial)
  PROVE  /\ name' \in [Names -> ObjectIds] /\ created' \in [Names -> ObjectIds]
         /\ shandle' \in [Names -> ObjectIds] /\ sized' = sized
         /\ \A m \in Names \ {n} : name'[m] = name[m] /\ created'[m] = created[m]
                                                       /\ shandle'[m] = shandle[m]
         /\ Owns(n)'
         /\ created'[n] = IF name[n] = 0 THEN created[n] + 1 ELSE created[n]
         /\ value' = IF name[n] = 0 /\ n # "memory"
                     THEN [value EXCEPT ![n][created'[n]] = initial] ELSE value
<1>1. CASE name[n] # 0
  BY <1>1 DEF OpenOrCreate, OpenTypeOK, Latest, Owns, objects
<1>2. CASE name[n] = 0
  <2>1. created[n] \in ObjectIds /\ created[n] < MAX_CREATED
    BY <1>2 DEF OpenOrCreate, OpenTypeOK
  <2>2. created[n] + 1 \in ObjectIds /\ created[n] + 1 # 0
    BY <2>1 DEF ObjectIds
  <2>3. created' = [created EXCEPT ![n] = created[n] + 1]
    BY <1>2 DEF OpenOrCreate
  <2>4. created'[n] = created[n] + 1 /\ created' \in [Names -> ObjectIds]
    BY <2>2, <2>3 DEF OpenTypeOK
  <2> QED BY <1>2, <2>2, <2>3, <2>4 DEF OpenOrCreate, OpenTypeOK, Owns
<1> QED BY <1>1, <1>2

\* What a creation keeps of the invariant, whatever it creates.
LEMMA CreateKeeps ==
  ASSUME OpenTypeOK, Latest, ClientHolds, Losses, NEW n \in Names, NEW initial \in 0..TOTAL_SLOTS,
         OpenOrCreate(n, initial), NEW from, NEW to \in ServerStates, ServerGoes(from, to),
         ~paired
  PROVE  OpenTypeOK' /\ Latest' /\ ClientHolds' /\ Pairing' /\ Losses'
<1>1. /\ UNCHANGED <<kind, cpc, chandle, lost>> /\ spc' = to /\ paired' = FALSE
  BY DEF ServerGoes, OpenTypeOK
<1>2. \A m \in Names : /\ created[m] \in Nat /\ created'[m] \in Nat
                       /\ created[m] <= created'[m]
                       /\ shandle[m] \in Nat /\ chandle[m] \in Nat
  <2> TAKE m \in Names
  <2>1. created[m] \in ObjectIds /\ shandle[m] \in ObjectIds /\ chandle[m] \in ObjectIds
    BY DEF OpenTypeOK
  <2>2. created' \in [Names -> ObjectIds]
        /\ (created'[m] = created[m] \/ created'[m] = created[m] + 1)
    BY OpenOrCreateOwns
  <2> QED BY <2>1, <2>2 DEF ObjectIds
<1>3. Latest'
  BY <1>1, <1>2, OpenOrCreateOwns DEF Latest, Owns
<1>4. /\ value' \in [{"r", "w"} -> [ObjectIds -> Nat]]
      /\ \A o \in ObjectIds : value'["w"][o] <= TOTAL_SLOTS
  <2>1. CASE value' = value
    BY <2>1 DEF OpenTypeOK
  <2>2. ASSUME NEW m \in {"r", "w"}, NEW o \in ObjectIds, value' = [value EXCEPT ![m][o] = initial]
        PROVE  <1>4
    BY <2>2 DEF OpenTypeOK
  <2>3. created'[n] \in ObjectIds /\ (n # "memory" => n \in {"r", "w"})
    BY OpenOrCreateOwns DEF Names
  <2> QED BY <2>1, <2>2, <2>3, OpenOrCreateOwns
<1>5. OpenTypeOK'
  BY <1>1, <1>4, OpenOrCreateOwns DEF OpenTypeOK
<1>6. ClientHolds' /\ Pairing'
  BY <1>1 DEF ClientHolds, Pairing
<1>7. Losses'
  <2>1. \A o \in ObjectIds : o \in Nat
    BY DEF ObjectIds
  <2>2. created["w"] \in Nat /\ created'["w"] \in Nat /\ created["w"] <= created'["w"]
    BY <1>2 DEF Names
  <2> QED BY <1>1, <2>1, <2>2 DEF Losses
<1> QED BY <1>3, <1>5, <1>6, <1>7

\* open() of the server makes the memory or the file, and the two semaphores.
LEMMA ServerCreateStep ==
  ASSUME OpenInv, ServerOpenFile \/ ServerCreateMemory \/ ServerOpenReader \/ ServerOpenWriter
  PROVE  OpenInv'
<1> USE DEF ServerOpenFile, ServerCreateMemory, ServerOpenReader, ServerOpenWriter
<1>1. UNCHANGED <<kind, cpc, chandle, lost>> /\ spc \notin Serving
  BY DEF ServerGoes, Serving
<1>2. /\ OpenTypeOK /\ Latest /\ ServerHolds /\ ClientHolds
      /\ Pairing /\ Sizes /\ Generation /\ Losses /\ Balance
  BY DEF OpenInv
<1>3. ~paired /\ 0 \in 0..TOTAL_SLOTS /\ TOTAL_SLOTS \in 0..TOTAL_SLOTS
      /\ "memory" \in Names /\ "r" \in Names /\ "w" \in Names
  BY <1>1, <1>2 DEF Pairing, Names
<1>4. \A n \in Names : created[n] \in Nat /\ chandle[n] <= created[n] /\ chandle[n] \in Nat
  BY <1>2 DEF OpenTypeOK, Latest, ObjectIds
<1>5. CASE ServerOpenFile
  <2>1. spc' = "unlink_r" /\ kind = "file" /\ OpenOrCreate("memory", 0)
    BY <1>5 DEF ServerGoes
  <2>2. OpenTypeOK' /\ Latest' /\ ClientHolds' /\ Pairing' /\ Losses'
    BY <1>2, <1>3, <1>5, CreateKeeps DEF ServerStates
  <2>3. Owns("memory")' /\ value' = value /\ created'["r"] = created["r"]
        /\ created'["w"] = created["w"]
    BY <1>2, <1>3, <2>1, OpenOrCreateOwns
  <2>4. ServerHolds' /\ Sizes' /\ Generation' /\ Balance'
    BY <1>1, <1>2, <2>1, <2>3 DEF ServerHolds, Sizes, Generation, Balance, Serving
  <2> QED BY <2>2, <2>4 DEF OpenInv
<1>6. CASE ServerCreateMemory
  <2>1. spc' = "truncate" /\ name["memory"] = 0 /\ OpenOrCreate("memory", 0)
    BY <1>2, <1>6 DEF ServerGoes, ServerHolds
  <2>2. OpenTypeOK' /\ Latest' /\ ClientHolds' /\ Pairing' /\ Losses'
    BY <1>2, <1>3, <1>6, CreateKeeps DEF ServerStates
  <2>3. /\ Owns("memory")' /\ value' = value /\ sized' = sized
        /\ created'["memory"] = created["memory"] + 1
        /\ created'["r"] = created["r"] /\ created'["w"] = created["w"]
    BY <1>2, <1>3, <2>1, OpenOrCreateOwns
  <2>4. ServerHolds' /\ Generation' /\ Balance'
    BY <1>1, <1>2, <2>1, <2>3 DEF ServerHolds, Generation, Balance, Serving
  <2>5. Sizes'
    BY <1>1, <1>2, <1>3, <1>4, <2>1, <2>3 DEF Sizes, Serving
  <2> QED BY <2>2, <2>4, <2>5 DEF OpenInv
<1>7. CASE ServerOpenReader
  <2>1. spc = "open_r" /\ spc' = "open_w" /\ name["r"] = 0 /\ OpenOrCreate("r", 0)
    BY <1>2, <1>7 DEF ServerGoes, ServerHolds
  <2>2. OpenTypeOK' /\ Latest' /\ ClientHolds' /\ Pairing' /\ Losses'
    BY <1>2, <1>3, <1>7, CreateKeeps DEF ServerStates
  <2>3. /\ Owns("r")' /\ sized' = sized
        /\ value' = [value EXCEPT !["r"][created'["r"]] = 0]
        /\ created'["r"] = created["r"] + 1
        /\ \A n \in {"memory", "w"} : /\ created'[n] = created[n] /\ shandle'[n] = shandle[n]
                                      /\ name'[n] = name[n]
    BY <1>2, <1>3, <2>1, OpenOrCreateOwns DEF Names
  <2>4. ServerHolds' /\ Balance'
    BY <1>2, <2>1, <2>3 DEF ServerHolds, Balance, Serving, Owns
  <2>5. Sizes'
    BY <1>1, <1>2, <2>1, <2>3 DEF Sizes, ServerHolds, Owns, Serving
  <2>6. value'["r"][shandle'["r"]] = 0
    BY <1>2, <2>2, <2>3 DEF OpenTypeOK, Owns
  <2>7. chandle'["r"] # created'["r"]
    BY <1>1, <1>3, <1>4, <2>3
  <2>8. Generation'
    BY <2>6, <2>7 DEF Generation
  <2> QED BY <2>2, <2>4, <2>5, <2>8 DEF OpenInv
<1>8. CASE ServerOpenWriter
  <2>1. spc = "open_w" /\ spc' = "open" /\ name["w"] = 0 /\ OpenOrCreate("w", TOTAL_SLOTS)
    BY <1>2, <1>8 DEF ServerGoes, ServerHolds
  <2>2. OpenTypeOK' /\ Latest' /\ ClientHolds' /\ Pairing' /\ Losses'
    BY <1>2, <1>3, <1>8, CreateKeeps DEF ServerStates, Serving
  <2>3. /\ Owns("w")' /\ sized' = sized
        /\ value' = [value EXCEPT !["w"][created'["w"]] = TOTAL_SLOTS]
        /\ created'["w"] = created["w"] + 1
        /\ \A n \in {"memory", "r"} : /\ created'[n] = created[n] /\ shandle'[n] = shandle[n]
                                      /\ name'[n] = name[n]
    BY <1>2, <1>3, <2>1, OpenOrCreateOwns DEF Names
  <2>4. ServerHolds'
    BY <1>2, <2>1, <2>3 DEF ServerHolds, Serving, Owns
  <2>5. Sizes' /\ Generation'
    BY <1>1, <1>2, <2>1, <2>3 DEF Sizes, Generation, Serving
  <2>6. /\ value'["r"][shandle'["r"]] = 0
        /\ value'["w"][shandle'["w"]] = TOTAL_SLOTS
    BY <1>2, <2>1, <2>2, <2>3 DEF OpenTypeOK, Owns, Generation
  <2>7. chandle'["w"] # shandle'["w"]
    BY <1>1, <1>3, <1>4, <2>3 DEF Owns
  <2>8. Tokens' = TOTAL_SLOTS
    BY <2>1, <2>2, <2>6, <2>7 DEF Tokens, OpenTypeOK
  <2>9. Balance'
    <3>1. shandle'["w"] \in ObjectIds /\ shandle'["w"] > created["w"]
      BY <1>3, <1>4, <2>2, <2>3 DEF Owns, OpenTypeOK
    <3>2. lost'[shandle'["w"]] = 0
      BY <1>1, <1>2, <3>1 DEF Losses
    <3>3. TOTAL_SLOTS \in Nat
      OBVIOUS
    <3> HIDE DEF Tokens
    <3> QED BY <2>8, <3>2, <3>3 DEF Balance
  <2> QED BY <2>2, <2>4, <2>5, <2>9 DEF OpenInv
<1> QED BY <1>5, <1>6, <1>7, <1>8

LEMMA NextOpenInv == OpenInv /\ [OpenNext]_openVars => OpenInv'
<1> SUFFICES ASSUME OpenInv, [OpenNext]_openVars PROVE OpenInv'
  OBVIOUS
<1>1. CASE ServerOpens
  BY <1>1, ServerPassesStep, ServerHandlesStep, ServerCreateStep DEF ServerOpens
<1>2. CASE ServerReads
  BY <1>2, ServerTokenStep, ServerPassesStep DEF ServerReads
<1>3. CASE ServerCloses
  BY <1>3, ServerPassesStep, ServerHandlesStep DEF ServerCloses
<1>4. CASE ServerKilled
  BY <1>4, ServerHandlesStep
<1>5. CASE ClientNext
  BY <1>5, ClientOpensStep, ClientTokenStep DEF ClientNext
<1>6. CASE UNCHANGED openVars
  BY <1>6 DEF OpenInv, openVars, OpenTypeOK, Latest, ServerHolds, ClientHolds, Pairing, Sizes,
              Generation, Losses, Balance, Owns, Tokens
<1> QED BY <1>1, <1>2, <1>3, <1>4, <1>5, <1>6 DEF OpenNext

-----------------------------------------------------------------------------
(* What the invariant says about the program. *)

\* Through every order of open(), close(), failures and kills of the two processes,
\* the newest "r" goes with the newest "w", and an open server owns its names.
THEOREM OpenInvariance == OpenSpec => []OpenInv
BY InitOpenInv, NextOpenInv, PTL DEF OpenSpec

\* Every variable keeps its type; no semaphore "w" exceeds its initial value.
THEOREM OpenTypeCorrect == OpenSpec => []OpenTypeOK
BY OpenInvariance, PTL DEF OpenInv

\* A client that opens while the server is open has the server's three objects, and
\* the memory among them went through ftruncate.
THEOREM PairedShareObjectsAlways == OpenSpec => []PairedShareObjects
<1>1. OpenInv => PairedShareObjects
  <2> SUFFICES ASSUME OpenInv, paired, cpc \in {"open", "write"}
               PROVE  /\ chandle = shandle
                      /\ kind = "memory" => chandle["memory"] \in sized
    BY DEF PairedShareObjects
  <2>1. spc \in Serving /\ \A n \in Names : chandle[n] = shandle[n]
    BY DEF OpenInv, Pairing, Names
  <2>2. chandle \in [Names -> ObjectIds] /\ shandle \in [Names -> ObjectIds]
    BY DEF OpenInv, OpenTypeOK
  <2>3. chandle = shandle
    BY <2>1, <2>2
  <2>4. kind = "memory" => shandle["memory"] \in sized
    BY <2>1 DEF OpenInv, Sizes
  <2> QED BY <2>3, <2>4
<1> QED BY <1>1, OpenInvariance, PTL

\* The semaphores of an open server hold its TOTAL_SLOTS tokens but for those that
\* went with a killed client or to an old "r", however many processes were killed,
\* restarted or late before.
THEOREM TokensAccountedAlways == OpenSpec => []TokensAccounted
<1>1. OpenInv => TokensAccounted
  BY DEF OpenInv, Balance, TokensAccounted
<1> QED BY <1>1, OpenInvariance, PTL

=============================================================================
