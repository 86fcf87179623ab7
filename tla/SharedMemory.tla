---------------------------- MODULE SharedMemory ----------------------------
(***************************************************************************)
(* The data path of SharedMemory (src/handler/shared_memory.cpp): a ring   *)
(* of TOTAL_AMOUNT slots in memory that two processes map, guarded by two  *)
(* counting semaphores.  `writer' counts the free slots, `reader' the      *)
(* filled ones; each side keeps its own offset_ into the ring and nothing  *)
(* else is shared.                                                         *)
(*                                                                         *)
(* The writing process calls write() in a loop (run_client of the program  *)
(* and of every benchmark); the reading process runs run_server of         *)
(* src/main.cpp: await_data() until it succeeds, then read() until it      *)
(* fails.  The benchmarks' loops differ only in that they end.             *)
(* The steps are what the other process can see: one semaphore operation,  *)
(* or the copy of one cell.  A memcpy is not atomic, so a slot that both   *)
(* sides touch at once would show as a torn message.                       *)
(*                                                                         *)
(* Both handlers are open: module SharedMemoryOpen is about open() and     *)
(* close().                                                                *)
(***************************************************************************)
EXTENDS DataObjects

CONSTANTS
  TOTAL_AMOUNT,  \* number of slots (64 in the code)
  BODY_SIZE,     \* BUFFER_SIZE - sizeof(DataHeader), in cells (512 bytes)
  Objects,       \* the objects the writing process may send
  MAX_ID,        \* bound on last_id_, in place of its 32 bits
  MAX_RESTARTS   \* bound on the number of times the writing process restarts

ASSUME RingAssumption ==
  /\ TOTAL_AMOUNT \in Nat \ {0}
  /\ BODY_SIZE \in Nat
  /\ MAX_ID \in Nat
  /\ MAX_RESTARTS \in Nat

Slots   == 0..(TOTAL_AMOUNT - 1)
BodyIx  == 1..BODY_SIZE
\* Each object is of one of the three kinds.
ASSUME ObjectAssumption == Objects \subseteq DataObject

VARIABLES
  reader,     \* value of the semaphore reader_
  writer,     \* value of the semaphore writer_
  memory,     \* the mapped ring: slot -> header and body cells
  wpc,        \* where write() stands
  wobj,       \* the object that write() was called with
  wbuf,       \* buffer_ of the writing handler
  woffset,    \* its offset_
  wcell,      \* the next cell its memcpy copies; 0 is the header
  last_id,    \* its last_id_
  wret,       \* what its last write() returned
  rpc,        \* where the reading loop stands
  rbuf,       \* buffer_ of the reading handler
  roffset,    \* its offset_
  rcell,      \* the next cell its memcpy copies
  rret,       \* what its last call returned
  restarts,   \* how often the writing process was replaced
  sent,       \* history: the messages published by sem_post(reader_)
  received    \* history: the messages read() returned

wvars == <<wpc, wobj, wbuf, woffset, wcell, last_id, wret>>
rvars == <<rpc, rbuf, roffset, rcell, rret>>
vars  == <<reader, writer, memory, wvars, rvars, restarts, sent, received>>

-----------------------------------------------------------------------------
Cells   == [BodyIx -> Nat]
Slot    == [header : [id : Nat, type : Nat, body_size : Nat], body : Cells]
Message == [id : 1..MAX_ID, obj : Objects]

\* What ftruncate leaves in fresh memory, and the buffer_{} of a new handler.
ZeroSlot == [header |-> ZeroHeader, body |-> [k \in BodyIx |-> 0]]

WriterStates == {"idle", "wait", "copy"}
ReaderStates == {"await", "repost", "read", "more", "copy", "decode"}
Returns == {"none", "timeout", "ready", "message"} \cup CommunicationError

TypeOK ==
  /\ reader \in Nat
  /\ writer \in Nat
  /\ memory \in [Slots -> Slot]
  /\ wpc \in WriterStates
  /\ wobj \in Objects \cup {Ping}
  /\ wbuf \in Slot
  /\ woffset \in Slots
  /\ wcell \in 0..(BODY_SIZE + 1)
  /\ last_id \in 0..MAX_ID
  /\ wret \in BOOLEAN
  /\ rpc \in ReaderStates
  /\ rbuf \in Slot
  /\ roffset \in Slots
  /\ rcell \in 0..(BODY_SIZE + 1)
  /\ rret \in Returns
  /\ restarts \in 0..MAX_RESTARTS
  /\ sent \in Seq(Message)
  /\ received \in Seq(Message)

Init ==
  /\ reader = 0
  /\ writer = TOTAL_AMOUNT
  /\ memory = [s \in Slots |-> ZeroSlot]
  /\ wpc = "idle" /\ wobj = Ping /\ wbuf = ZeroSlot /\ woffset = 0 /\ wcell = 0
  /\ last_id = 0 /\ wret = FALSE
  /\ rpc = "await" /\ rbuf = ZeroSlot /\ roffset = 0 /\ rcell = 0
  /\ rret = "none"
  /\ restarts = 0
  /\ sent = << >>
  /\ received = << >>

\* Mutant: the ring's end is forgotten.
NextOffsetUnwrapped(offset) == offset + 1

\* (offset_ + 1) % TOTAL_AMOUNT
NextOffset(offset) == (offset + 1) % TOTAL_AMOUNT

\* One step of a memcpy between two buffers of slot shape.
CopyCell(from, to, cell) ==
  IF cell = 0
  THEN [header |-> from.header, body |-> to.body]
  ELSE [header |-> to.header, body |-> [to.body EXCEPT ![cell] = from.body[cell]]]

-----------------------------------------------------------------------------
(* bool SharedMemory::write(const IDataObject &obj)                        *)

\* serialize returned -1: nothing happened, not even to last_id_.
WriteRefused(obj) ==
  /\ wpc = "idle"
  /\ ~Fits(obj, BODY_SIZE)
  /\ wret' = FALSE
  /\ UNCHANGED <<reader, writer, memory, wpc, wobj, wbuf, woffset, wcell, last_id,
                 rvars, restarts, sent, received>>

\* The body is serialized behind the header, last_id_ grows, the header follows.
WriteSerialize(obj) ==
  /\ wpc = "idle"
  /\ last_id < MAX_ID
  /\ Fits(obj, BODY_SIZE)
  /\ wpc' = "wait"
  /\ wobj' = obj
  /\ last_id' = last_id + 1
  /\ wbuf' = [header |-> DataHeader(last_id + 1, obj.type, SerializedSize(obj)),
              body   |-> Overlay(wbuf.body, Serialize(obj))]
  /\ UNCHANGED <<reader, writer, memory, woffset, wcell, wret,
                 rvars, restarts, sent, received>>

\* sem_wait(writer_) takes a free slot.
WriteAcquire ==
  /\ wpc = "wait"
  /\ writer > 0
  /\ writer' = writer - 1
  /\ wpc' = "copy"
  /\ wcell' = 0
  /\ UNCHANGED <<reader, memory, wobj, wbuf, woffset, last_id, wret,
                 rvars, restarts, sent, received>>

\* sem_wait(writer_) was interrupted while it was blocked: write() gives up,
\* and the id it took is not used again.
WriteInterrupted ==
  /\ wpc = "wait"
  /\ writer = 0
  /\ wpc' = "idle"
  /\ wret' = FALSE
  /\ UNCHANGED <<reader, writer, memory, wobj, wbuf, woffset, wcell, last_id,
                 rvars, restarts, sent, received>>

\* memcpy(&address_[offset_ * BUFFER_SIZE], buffer_.data(), header_size + size)
WriteCopy ==
  /\ wpc = "copy"
  /\ wcell <= wbuf.header.body_size
  /\ memory' = [memory EXCEPT ![woffset] = CopyCell(wbuf, memory[woffset], wcell)]
  /\ wcell' = wcell + 1
  /\ UNCHANGED <<reader, writer, wpc, wobj, wbuf, woffset, last_id, wret,
                 rvars, restarts, sent, received>>

\* Mutant: sem_post(reader_) before the end of the memcpy.
WritePublishEarly ==
  /\ wpc = "copy"
  /\ wcell > 0
  /\ woffset' = NextOffset(woffset)
  /\ reader' = reader + 1
  /\ wpc' = "idle"
  /\ wret' = TRUE
  /\ sent' = Append(sent, [id |-> wbuf.header.id, obj |-> wobj])
  /\ UNCHANGED <<writer, memory, wobj, wbuf, wcell, last_id, rvars, restarts, received>>

\* offset_ moves on, sem_post(reader_) publishes the slot, write() returns true.
WritePublish ==
  /\ wpc = "copy"
  /\ wcell > wbuf.header.body_size
  /\ woffset' = NextOffset(woffset)
  /\ reader' = reader + 1
  /\ wpc' = "idle"
  /\ wret' = TRUE
  /\ sent' = Append(sent, [id |-> wbuf.header.id, obj |-> wobj])
  /\ UNCHANGED <<writer, memory, wobj, wbuf, wcell, last_id, rvars, restarts, received>>

-----------------------------------------------------------------------------
(* bool SharedMemory::await_data(): sem_timedwait(reader_) followed by      *)
(* sem_post(reader_), two steps.                                            *)

AwaitTake ==
  /\ rpc = "await"
  /\ reader > 0
  /\ reader' = reader - 1
  /\ rpc' = "repost"
  /\ UNCHANGED <<writer, memory, wvars, rbuf, roffset, rcell, rret,
                 restarts, sent, received>>

\* ETIMEDOUT, or any other error, while the semaphore is zero.
AwaitTimeout ==
  /\ rpc = "await"
  /\ reader = 0
  /\ rret' = "timeout"
  /\ UNCHANGED <<reader, writer, memory, wvars, rpc, rbuf, roffset, rcell,
                 restarts, sent, received>>

\* Mutant: no sem_post, so that await_data() eats the token.
AwaitRepostForgotten ==
  /\ rpc = "repost"
  /\ rpc' = "read"
  /\ rret' = "ready"
  /\ UNCHANGED <<reader, writer, memory, wvars, rbuf, roffset, rcell,
                 restarts, sent, received>>

AwaitRepost ==
  /\ rpc = "repost"
  /\ reader' = reader + 1
  /\ rpc' = "read"
  /\ rret' = "ready"
  /\ UNCHANGED <<writer, memory, wvars, rbuf, roffset, rcell,
                 restarts, sent, received>>

\* bool SharedMemory::has_data() const
has_data == reader > 0

-----------------------------------------------------------------------------
(* SharedMemory::read()                                                     *)

\* sem_trywait(reader_) fails with EAGAIN.  The loop goes back to await_data.
ReadNoData ==
  /\ rpc \in {"read", "more"}
  /\ reader = 0
  /\ rpc' = "await"
  /\ rret' = "NO_DATA_AVAILABLE"
  /\ UNCHANGED <<reader, writer, memory, wvars, rbuf, roffset, rcell,
                 restarts, sent, received>>

\* Mutant: sem_post(writer_) already here, before the slot was copied.
ReadAcquireReleasing ==
  /\ rpc \in {"read", "more"}
  /\ reader > 0
  /\ reader' = reader - 1
  /\ writer' = writer + 1
  /\ rpc' = "copy"
  /\ rcell' = 0
  /\ UNCHANGED <<memory, wvars, rbuf, roffset, rret, restarts, sent, received>>

ReadAcquire ==
  /\ rpc \in {"read", "more"}
  /\ reader > 0
  /\ reader' = reader - 1
  /\ rpc' = "copy"
  /\ rcell' = 0
  /\ UNCHANGED <<writer, memory, wvars, rbuf, roffset, rret,
                 restarts, sent, received>>

\* memcpy(buffer_.data(), &address_[offset_ * BUFFER_SIZE], BUFFER_SIZE): the
\* whole slot, whatever the size of the message in it.
ReadCopy ==
  /\ rpc = "copy"
  /\ rcell <= BODY_SIZE
  /\ rbuf' = CopyCell(memory[roffset], rbuf, rcell)
  /\ rcell' = rcell + 1
  /\ UNCHANGED <<reader, writer, memory, wvars, rpc, roffset, rret,
                 restarts, sent, received>>

\* Mutant: the reader's offset_ stays.
ReadReleaseStuck ==
  /\ rpc = "copy"
  /\ rcell > BODY_SIZE
  /\ writer' = writer + 1
  /\ rpc' = "decode"
  /\ UNCHANGED <<reader, memory, wvars, rbuf, roffset, rcell, rret,
                 restarts, sent, received>>

\* Mutant: no sem_post(writer_).
ReadReleaseForgotten ==
  /\ rpc = "copy"
  /\ rcell > BODY_SIZE
  /\ roffset' = NextOffset(roffset)
  /\ rpc' = "decode"
  /\ UNCHANGED <<reader, writer, memory, wvars, rbuf, rcell, rret,
                 restarts, sent, received>>

\* offset_ moves on and sem_post(writer_) gives the slot back.
ReadRelease ==
  /\ rpc = "copy"
  /\ rcell > BODY_SIZE
  /\ roffset' = NextOffset(roffset)
  /\ writer' = writer + 1
  /\ rpc' = "decode"
  /\ UNCHANGED <<reader, memory, wvars, rbuf, rcell, rret,
                 restarts, sent, received>>

\* The object that the body in a buffer stands for.
ObjectIn(buf) ==
  deserialize_data_object(buf.header.type, buf.body, buf.header.body_size)

\* The header and the body are decoded from the private buffer_.
ReadDecode ==
  /\ rpc = "decode"
  /\ LET object == ObjectIn(rbuf) IN
       \/ /\ IsError(object)
          /\ rpc' = "await"
          /\ rret' = object.error
          /\ UNCHANGED received
       \/ /\ ~IsError(object)
          /\ rpc' = "more"
          /\ rret' = "message"
          /\ received' = Append(received, [id |-> rbuf.header.id, obj |-> object])
  /\ UNCHANGED <<reader, writer, memory, wvars, rbuf, roffset, rcell,
                 restarts, sent>>

-----------------------------------------------------------------------------
WriterNext ==
  \/ \E obj \in Objects : WriteRefused(obj) \/ WriteSerialize(obj)
  \/ WriteAcquire \/ WriteInterrupted \/ WriteCopy \/ WritePublish

ReaderNext ==
  \/ AwaitTake \/ AwaitTimeout \/ AwaitRepost
  \/ ReadNoData \/ ReadAcquire \/ ReadCopy \/ ReadRelease \/ ReadDecode

Next == WriterNext \/ ReaderNext

\* One writing and one reading process, each opened once.
Spec == Init /\ [][Next]_vars

\* Both processes run on: a step of theirs that stays possible is taken.  The
\* reading loop always calls again, and sem_wait returns once it can.  Nothing
\* forces the writing process to start another write(), and no signal has to
\* interrupt sem_wait.
WriteProgress == WriteAcquire \/ WriteCopy \/ WritePublish
FairSpec == Spec /\ WF_vars(WriteProgress) /\ WF_vars(ReaderNext)

-----------------------------------------------------------------------------
(* The writing process ends, wherever it stands, and another one opens the  *)
(* same memory: a new handler, so its offset_ and last_id_ are 0 again.     *)
(* Nothing tells the reading process.                                       *)

WriterRestart ==
  /\ restarts < MAX_RESTARTS
  /\ restarts' = restarts + 1
  /\ wpc' = "idle" /\ wobj' = Ping /\ wbuf' = ZeroSlot /\ woffset' = 0
  /\ wcell' = 0 /\ last_id' = 0 /\ wret' = FALSE
  /\ UNCHANGED <<reader, writer, memory, rvars, sent, received>>

RestartNext == Next \/ WriterRestart
RestartSpec == Init /\ [][RestartNext]_vars

-----------------------------------------------------------------------------
(* Properties *)

WriterHolds == IF wpc = "copy" THEN 1 ELSE 0
ReaderHolds == IF rpc \in {"repost", "copy"} THEN 1 ELSE 0

\* Between them, the two semaphores and the two processes hold one token per
\* slot: write(), read() and the take-and-repost of await_data() neither lose
\* nor invent one.
TokensConserved == reader + writer + WriterHolds + ReaderHolds = TOTAL_AMOUNT

\* The two memcpy of write() and read() never work on the same slot at once.
SlotExclusion == ~(wpc = "copy" /\ rpc = "copy" /\ woffset = roffset)

\* read() returns exactly the messages written, in the order written: none is
\* torn, repeated, overtaken or mixed with what an older message left in the
\* slot or in a buffer_.
InOrder ==
  /\ Len(received) <= Len(sent)
  /\ \A i \in 1..Len(received) : received[i] = sent[i]

\* A published message is in the ring, in the hands of read(), or returned: a
\* slot is never consumed without its message coming out.
NothingLost ==
  Len(sent) = Len(received) + reader + ReaderHolds + (IF rpc = "decode" THEN 1 ELSE 0)

\* When await_data() returned true, the read() that follows finds data: with a
\* single reading process nothing can take it away in between.
AwaitedDataIsThere == rpc = "read" => has_data

\* write() returns true only for a message it published.
WriteIsHonest ==
  wpc = "idle" /\ wret => Len(sent) > 0 /\ sent[Len(sent)].id = last_id

\* A writing process that dies can lose a token, but none is ever invented.
NoTokenInvented == reader + writer + WriterHolds + ReaderHolds <= TOTAL_AMOUNT

\* Every published message is read in the end.
EveryMessageRead ==
  \A n \in 1..MAX_ID : (Len(sent) >= n) ~> (Len(received) >= n)

\* A write() that waits for a slot returns, as long as the reader reads.
WriteReturns == (wpc = "wait") ~> (wpc = "idle")

\* Neither side waits for the other for ever: no message stays in the ring, and no
\* write() hangs in sem_wait, whatever await_data() takes and posts again.
KeepsMoving == EveryMessageRead /\ WriteReturns

\* Seen as a channel, a message is delivered when its slot is given back.
Delivered ==
  IF rpc = "decode"
  THEN Append(received, [id |-> rbuf.header.id, obj |-> ObjectIn(rbuf)])
  ELSE received

Ring == INSTANCE Channel WITH Capacity <- TOTAL_AMOUNT, received <- Delivered

\* The ring is a bounded first-in-first-out channel of TOTAL_AMOUNT messages.
ImplementsChannel == Ring!Spec

=============================================================================
