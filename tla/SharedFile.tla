----------------------------- MODULE SharedFile -----------------------------
(***************************************************************************)
(* The data path of SharedFile (src/handler/shared_file.cpp): the ring of  *)
(* SharedMemory kept in a file that both processes access through a        *)
(* std::fstream, with the same two semaphores.  What is new is everything  *)
(* that can fail: seekp, write, flush, seekg and read.  Both handlers are  *)
(* open, and the processes run the loops of src/main.cpp.                  *)
(*                                                                         *)
(* external: the stream.  A message is smaller than the stream's buffer,   *)
(* so write() of the stream only fills that buffer and flush() issues the  *)
(* system call.  When the system call fails the buffer keeps its content,  *)
(* and the next seekp tries again, at the old file position.  A failed     *)
(* call transfers nothing.                                                 *)
(***************************************************************************)
EXTENDS DataObjects

CONSTANTS
  TOTAL_AMOUNT,  \* number of slots in the file
  BODY_SIZE,     \* BUFFER_SIZE - sizeof(DataHeader), in cells
  Objects,       \* the objects the writing process may send
  MAX_ID,        \* bound on last_id_, in place of its 32 bits
  Faults,        \* the calls that may fail
  MAX_FAULTS     \* how often a call fails in one behaviour

ASSUME FileAssumption ==
  /\ TOTAL_AMOUNT \in Nat \ {0}
  /\ BODY_SIZE \in Nat
  /\ Objects \subseteq DataObject
  /\ MAX_ID \in Nat
  /\ Faults \subseteq {"seekp", "write", "flush", "seekg", "read"}
  /\ MAX_FAULTS \in Nat

VARIABLES
  reader, writer,  \* values of the semaphores
  file,            \* slot -> header and body cells, zero where never written
  end,             \* length of the file, in cells
  stream,          \* what the writer's stream holds: at most one message, with its slot
  wpc, wobj, wbuf, woffset, last_id, wret,  \* write(), its argument, the handler, its result
  rpc, rbuf, roffset, rret,                 \* the reading loop, the handler, its last result
  faults,          \* the number of failed calls
  sent, received   \* history: messages published, messages returned by read()

wvars == <<file, end, stream, wpc, wobj, wbuf, woffset, last_id, wret, sent>>
rvars == <<rpc, rbuf, roffset, rret, received>>
vars  == <<reader, writer, wvars, rvars, faults>>

-----------------------------------------------------------------------------
Slots    == 0..(TOTAL_AMOUNT - 1)
BodyIx   == 1..BODY_SIZE
Slot     == [header : [id : Nat, type : Nat, body_size : Nat], body : [BodyIx -> Nat]]
Message  == [id : 1..MAX_ID, obj : Objects]
ZeroSlot == [header |-> ZeroHeader, body |-> [k \in BodyIx |-> 0]]

\* The place of a cell in the file; cell 0 is the header.
Position(slot, cell) == slot * (BODY_SIZE + 1) + cell

TypeOK ==
  /\ reader \in Nat /\ writer \in Nat
  /\ file \in [Slots -> Slot]
  /\ end \in 0..Position(TOTAL_AMOUNT, 0)
  /\ stream \in Seq([slot : Slots, data : Slot]) /\ Len(stream) <= 1
  /\ wpc \in {"idle", "seekp", "wait", "write", "flush", "publish"}
  /\ wobj \in Objects \cup {Ping}
  /\ wbuf \in Slot /\ woffset \in Slots /\ last_id \in 0..MAX_ID /\ wret \in BOOLEAN
  /\ rpc \in {"await", "repost", "read", "seekg", "release", "decode"}
  /\ rbuf \in Slot /\ roffset \in Slots
  /\ rret \in {"none", "timeout", "ready", "message"} \cup CommunicationError
  /\ faults \in 0..MAX_FAULTS
  /\ sent \in Seq(Message) /\ received \in Seq(Message)

Init ==
  /\ reader = 0 /\ writer = TOTAL_AMOUNT
  /\ file = [s \in Slots |-> ZeroSlot] /\ end = 0 /\ stream = << >>
  /\ wpc = "idle" /\ wobj = Ping /\ wbuf = ZeroSlot /\ woffset = 0 /\ last_id = 0 /\ wret = FALSE
  /\ rpc = "await" /\ rbuf = ZeroSlot /\ roffset = 0 /\ rret = "none"
  /\ faults = 0
  /\ sent = << >> /\ received = << >>

\* Mutant: the ring's end is forgotten.
NextOffsetUnwrapped(offset) == offset + 1

\* (offset_ + 1) % TOTAL_AMOUNT
NextOffset(offset) == (offset + 1) % TOTAL_AMOUNT

\* A step of write(), and a step of the reading loop.
WriterStep(from, to) == wpc = from /\ wpc' = to /\ UNCHANGED rvars
ReaderStep(from, to) == rpc = from /\ rpc' = to /\ UNCHANGED wvars

\* The call does what it should, or fails.
Works == UNCHANGED faults
Fails(call) == call \in Faults /\ faults < MAX_FAULTS /\ faults' = faults + 1

-----------------------------------------------------------------------------
(* The system calls behind the two streams. *)

\* write(2) of header_size + size bytes at a slot.
Put(slot, data) ==
  LET size == data.header.body_size IN
  /\ file' = [file EXCEPT ![slot] =
                [header |-> data.header,
                 body   |-> Overlay(file[slot].body, SubSeq(data.body, 1, size))]]
  /\ end' = IF end > Position(slot, size) THEN end ELSE Position(slot, size) + 1

\* read(2) of BUFFER_SIZE bytes stops at the end of the file: what is not there
\* leaves buffer_ alone.
Get(slot) ==
  [header |-> IF Position(slot, 0) < end THEN file[slot].header ELSE rbuf.header,
   body   |-> [k \in BodyIx |-> IF Position(slot, k) < end
                                THEN file[slot].body[k] ELSE rbuf.body[k]]]

-----------------------------------------------------------------------------
(* bool SharedFile::write(const IDataObject &obj) *)

\* write() returns false.
GiveUp(from) ==
  /\ WriterStep(from, "idle")
  /\ wret' = FALSE
  /\ UNCHANGED <<reader, file, end, stream, wobj, wbuf, woffset, last_id, sent>>

WriteRefused(obj) == ~Fits(obj, BODY_SIZE) /\ GiveUp("idle") /\ Works /\ UNCHANGED writer

WriteSerialize(obj) ==
  /\ WriterStep("idle", "seekp")
  /\ last_id < MAX_ID
  /\ Fits(obj, BODY_SIZE)
  /\ wobj' = obj
  /\ last_id' = last_id + 1
  /\ wbuf' = [header |-> DataHeader(last_id + 1, obj.type, SerializedSize(obj)),
              body   |-> Overlay(wbuf.body, Serialize(obj))]
  /\ Works
  /\ UNCHANGED <<reader, writer, file, end, stream, woffset, wret, sent>>

\* file_.clear() and file_.seekp(offset_ * BUFFER_SIZE).  Moving the position
\* first writes what the stream still holds.
WriteSeekp ==
  /\ WriterStep("seekp", "wait")
  /\ stream' = << >>
  /\ \/ stream = << >> /\ UNCHANGED <<file, end>>
     \/ stream # << >> /\ Put(stream[1].slot, stream[1].data)
  /\ Works
  /\ UNCHANGED <<reader, writer, wobj, wbuf, woffset, last_id, wret, sent>>

WriteSeekpFails == GiveUp("seekp") /\ Fails("seekp") /\ UNCHANGED writer

\* sem_wait(writer_) takes a free slot, or is interrupted while it is blocked.
WriteAcquire ==
  /\ WriterStep("wait", "write")
  /\ writer > 0
  /\ writer' = writer - 1
  /\ Works
  /\ UNCHANGED <<reader, file, end, stream, wobj, wbuf, woffset, last_id, wret, sent>>

WriteInterrupted == writer = 0 /\ GiveUp("wait") /\ Works /\ UNCHANGED writer

\* file_.write(data, header_size + size) into the buffer of the stream.
WriteStore ==
  /\ WriterStep("write", "flush")
  /\ stream' = <<[slot |-> woffset, data |-> wbuf]>>
  /\ Works
  /\ UNCHANGED <<reader, writer, file, end, wobj, wbuf, woffset, last_id, wret, sent>>

\* Mutant: the slot is not given back.
WriteStoreFailsKeeping == GiveUp("write") /\ Fails("write") /\ UNCHANGED writer

\* The stream refuses the data: sem_post(writer_) gives the slot back.
WriteStoreFails == GiveUp("write") /\ Fails("write") /\ writer' = writer + 1

\* Mutant: the flush is forgotten, and the message stays in the stream.
WriteFlushForgotten ==
  /\ WriterStep("flush", "publish")
  /\ Works
  /\ UNCHANGED <<reader, writer, file, end, stream, wobj, wbuf, woffset, last_id, wret, sent>>

\* file_.flush(): the message reaches the file, or the stream turns bad, which
\* nobody looks at.
WriteFlush ==
  /\ WriterStep("flush", "publish")
  /\ \/ Works /\ Put(woffset, wbuf) /\ stream' = << >>
     \/ Fails("flush") /\ UNCHANGED <<file, end, stream>>
  /\ UNCHANGED <<reader, writer, wobj, wbuf, woffset, last_id, wret, sent>>

\* offset_ moves on, sem_post(reader_), write() returns true.
WritePublish ==
  /\ WriterStep("publish", "idle")
  /\ woffset' = NextOffset(woffset)
  /\ reader' = reader + 1
  /\ wret' = TRUE
  /\ sent' = Append(sent, [id |-> wbuf.header.id, obj |-> wobj])
  /\ Works
  /\ UNCHANGED <<writer, file, end, stream, wobj, wbuf, last_id>>

-----------------------------------------------------------------------------
(* bool SharedFile::await_data() and SharedFile::read() *)

AwaitTake ==
  /\ ReaderStep("await", "repost")
  /\ reader > 0
  /\ reader' = reader - 1
  /\ Works
  /\ UNCHANGED <<writer, rbuf, roffset, rret, received>>

AwaitTimeout ==
  /\ ReaderStep("await", "await")
  /\ reader = 0
  /\ rret' = "timeout"
  /\ Works
  /\ UNCHANGED <<reader, writer, rbuf, roffset, received>>

AwaitRepost ==
  /\ ReaderStep("repost", "read")
  /\ reader' = reader + 1
  /\ rret' = "ready"
  /\ Works
  /\ UNCHANGED <<writer, rbuf, roffset, received>>

\* sem_trywait(reader_)
ReadNoData ==
  /\ ReaderStep("read", "await")
  /\ reader = 0
  /\ rret' = "NO_DATA_AVAILABLE"
  /\ Works
  /\ UNCHANGED <<reader, writer, rbuf, roffset, received>>

ReadAcquire ==
  /\ ReaderStep("read", "seekg")
  /\ reader > 0
  /\ reader' = reader - 1
  /\ Works
  /\ UNCHANGED <<writer, rbuf, roffset, rret, received>>

\* file_.clear(), seekg and read(data, BUFFER_SIZE).  Reaching the end of the
\* file is no failure.
ReadCopy ==
  /\ ReaderStep("seekg", "release")
  /\ rbuf' = Get(roffset)
  /\ Works
  /\ UNCHANGED <<reader, writer, roffset, rret, received>>

\* Mutant: the message is not put back.
ReadFailsDropping ==
  /\ ReaderStep("seekg", "await")
  /\ Fails("seekg") \/ Fails("read")
  /\ rret' = "READ_ERROR"
  /\ UNCHANGED <<reader, writer, rbuf, roffset, received>>

\* seekg or read failed: sem_post(reader_) puts the message back, offset_ stays.
ReadFails ==
  /\ ReaderStep("seekg", "await")
  /\ Fails("seekg") \/ Fails("read")
  /\ reader' = reader + 1
  /\ rret' = "READ_ERROR"
  /\ UNCHANGED <<writer, rbuf, roffset, received>>

\* offset_ moves on, sem_post(writer_).
ReadRelease ==
  /\ ReaderStep("release", "decode")
  /\ roffset' = NextOffset(roffset)
  /\ writer' = writer + 1
  /\ Works
  /\ UNCHANGED <<reader, rbuf, rret, received>>

ObjectIn(buf) ==
  deserialize_data_object(buf.header.type, buf.body, buf.header.body_size)

\* An error ends the run of read() calls, a message is followed by another read().
ReadDecode ==
  /\ LET object == ObjectIn(rbuf) IN
       \/ /\ IsError(object)
          /\ ReaderStep("decode", "await")
          /\ rret' = object.error
          /\ UNCHANGED received
       \/ /\ ~IsError(object)
          /\ ReaderStep("decode", "read")
          /\ rret' = "message"
          /\ received' = Append(received, [id |-> rbuf.header.id, obj |-> object])
  /\ Works
  /\ UNCHANGED <<reader, writer, rbuf, roffset>>

-----------------------------------------------------------------------------
WriterNext ==
  \/ \E obj \in Objects : WriteRefused(obj) \/ WriteSerialize(obj)
  \/ WriteSeekp \/ WriteSeekpFails \/ WriteAcquire \/ WriteInterrupted
  \/ WriteStore \/ WriteStoreFails \/ WriteFlush \/ WritePublish

ReaderNext ==
  \/ AwaitTake \/ AwaitTimeout \/ AwaitRepost
  \/ ReadNoData \/ ReadAcquire \/ ReadCopy \/ ReadFails \/ ReadRelease \/ ReadDecode

Next == WriterNext \/ ReaderNext
Spec == Init /\ [][Next]_vars

\* Both processes go on; no signal and no fault has to happen.
WriteProgress == WriteSeekp \/ WriteAcquire \/ WriteStore \/ WriteFlush \/ WritePublish
FairSpec == Spec /\ WF_vars(WriteProgress) /\ WF_vars(ReaderNext)

-----------------------------------------------------------------------------
(* Properties *)

WriterHolds == IF wpc \in {"write", "flush", "publish"} THEN 1 ELSE 0
ReaderHolds == IF rpc \in {"repost", "seekg", "release"} THEN 1 ELSE 0

\* Every error path of write() and read() gives back the token it took.
TokensConserved == reader + writer + WriterHolds + ReaderHolds = TOTAL_AMOUNT

\* The two offset_ fields stay as far apart as there are published messages,
\* through every failed call: one side never moves on without the other.
StaysAligned == woffset = (roffset + reader + ReaderHolds) % TOTAL_AMOUNT

\* No failed call of either process, wherever it fails, puts the two out of step:
\* no token is lost or invented, and both are at the same message.
InStep == TokensConserved /\ StaysAligned

\* read() returns exactly the messages that write() reported as written, in order.
InOrder ==
  /\ Len(received) <= Len(sent)
  /\ \A i \in 1..Len(received) : received[i] = sent[i]

\* A READ_ERROR puts the message back: nothing published goes missing.
NothingLost ==
  Len(sent) = Len(received) + reader + ReaderHolds + (IF rpc = "decode" THEN 1 ELSE 0)

\* Every published message is read in the end, after any failed calls.
EveryMessageRead ==
  \A n \in 1..MAX_ID : (Len(sent) >= n) ~> (Len(received) >= n)

\* A message is delivered when its slot is given back.
Delivered ==
  IF rpc = "decode"
  THEN Append(received, [id |-> rbuf.header.id, obj |-> ObjectIn(rbuf)])
  ELSE received

Ring == INSTANCE Channel WITH Capacity <- TOTAL_AMOUNT, received <- Delivered

\* As long as flush() works, the file is a bounded first-in-first-out channel.
ImplementsChannel == Ring!Spec

=============================================================================
