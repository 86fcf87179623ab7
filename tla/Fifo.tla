-------------------------------- MODULE Fifo --------------------------------
(***************************************************************************)
(* The named pipe, Fifo (src/handler/fifo.cpp): one reading process that   *)
(* opens, reads, closes or is killed and comes back, and one writing       *)
(* process after the other.  The reading process makes a new pipe under    *)
(* the path each time; a writing process that still has the old one open   *)
(* writes into a pipe without a reader.  Both sides open the pipe for      *)
(* reading and writing, so no call ever reports that the other is gone.    *)
(*                                                                         *)
(* read() makes two system calls, for the header and for the body.  It     *)
(* relies on write() handing over a message at once: a message is smaller  *)
(* than PIPE_BUF.                                                          *)
(***************************************************************************)
EXTENDS DataObjects

CONSTANTS
  BODY_SIZE,    \* BUFFER_SIZE - sizeof(DataHeader), in cells
  Objects,      \* the objects the writing processes may send
  MAX_ID,       \* bound on last_id_ of each process
  MAX_WRITERS,  \* bound on the number of writing processes
  MAX_PIPES,    \* bound on the number of pipes made under the path
  CAPACITY      \* cells that a pipe holds

ASSUME FifoAssumption ==
  /\ BODY_SIZE \in Nat /\ Objects \subseteq DataObject
  /\ MAX_ID \in Nat /\ MAX_WRITERS \in Nat /\ MAX_PIPES \in Nat /\ CAPACITY \in Nat

Pipes       == 1..MAX_PIPES
BufferIx    == 1..(HEADER_SIZE + BODY_SIZE)
Message     == [id : 1..MAX_ID, obj : Objects]

VARIABLES
  path,      \* the pipe that the path leads to, 0 for none
  made,      \* how many pipes were made
  pipes,     \* the cells in each pipe
  writers,   \* how many writing processes there were
  wfd,       \* fd_ of the writing process, 0 for -1
  wpc, wobj, last_id, wret,  \* its write(), the argument, last_id_, the last result
  rfd,       \* fd_ of the reading process
  rpc, header, rbuf, rret,   \* its loop, the header in read(), buffer_, the last result
  aborted,   \* an assert() of read() failed
  sent,      \* history: messages put into each pipe, without those lost with it
  received   \* history: messages read() returned from each pipe

wvars == <<writers, wfd, wpc, wobj, last_id, wret>>
rvars == <<path, made, rfd, rpc, header, rbuf, rret, aborted, received>>
vars  == <<pipes, sent, wvars, rvars>>

TypeOK ==
  /\ path \in 0..MAX_PIPES /\ made \in 0..MAX_PIPES
  /\ \A p \in Pipes : pipes[p] \in Seq(Nat) /\ Len(pipes[p]) <= CAPACITY
  /\ writers \in 0..MAX_WRITERS /\ wfd \in 0..MAX_PIPES
  /\ wpc \in {"closed", "idle", "write"}
  /\ wobj \in Objects \cup {Ping} /\ last_id \in 0..MAX_ID /\ wret \in BOOLEAN
  /\ rfd \in 0..MAX_PIPES
  /\ rpc \in {"closed", "mkfifo", "open", "await", "header", "body", "unlink"}
  /\ header \in [id : Nat, type : Nat, body_size : Nat]
  /\ rbuf \in [BufferIx -> Nat]
  /\ rret \in {"none", "timeout", "ready", "message"} \cup CommunicationError
  /\ aborted \in BOOLEAN
  /\ sent \in [Pipes -> Seq(Message)] /\ received \in [Pipes -> Seq(Message)]

Init ==
  /\ path = 0 /\ made = 0
  /\ pipes = [p \in Pipes |-> << >>]
  /\ writers = 0 /\ wfd = 0 /\ wpc = "closed" /\ wobj = Ping /\ last_id = 0 /\ wret = FALSE
  /\ rfd = 0 /\ rpc = "closed" /\ header = ZeroHeader
  /\ rbuf = [k \in BufferIx |-> 0] /\ rret = "none" /\ aborted = FALSE
  /\ sent = [p \in Pipes |-> << >>] /\ received = [p \in Pipes |-> << >>]

\* external: a pipe that one process closes and the other does not have open
\* loses its content.
LetGo(fd, other) ==
  IF fd = 0 \/ fd = other THEN UNCHANGED <<pipes, sent>>
  ELSE /\ pipes' = [pipes EXCEPT ![fd] = << >>]
       /\ sent' = [sent EXCEPT ![fd] = received[fd]]

-----------------------------------------------------------------------------
(* The writing process *)

\* open() without readonly_: whatever pipe the path leads to.
WriterOpen ==
  /\ wpc = "closed" /\ wpc' = "idle"
  /\ path # 0 /\ wfd' = path
  /\ writers < MAX_WRITERS /\ writers' = writers + 1
  /\ wobj' = Ping /\ last_id' = 0 /\ wret' = FALSE
  /\ UNCHANGED <<pipes, sent, rvars>>

\* Mutant: last_id_ grows before the result of serialize is looked at.
WriteRefusedCounting(obj) ==
  /\ wpc = "idle"
  /\ ~Fits(obj, BODY_SIZE)
  /\ wret' = FALSE /\ last_id' = last_id + 1
  /\ UNCHANGED <<pipes, sent, writers, wfd, wpc, wobj, rvars>>

\* bool Fifo::write(const IDataObject &obj), up to the system call
WriteRefused(obj) ==
  /\ wpc = "idle"
  /\ ~Fits(obj, BODY_SIZE)
  /\ wret' = FALSE
  /\ UNCHANGED <<pipes, sent, writers, wfd, wpc, wobj, last_id, rvars>>

WriteSerialize(obj) ==
  /\ wpc = "idle" /\ wpc' = "write"
  /\ last_id < MAX_ID /\ last_id' = last_id + 1
  /\ Fits(obj, BODY_SIZE) /\ wobj' = obj
  /\ UNCHANGED <<pipes, sent, writers, wfd, wret, rvars>>

\* Mutant: a message larger than PIPE_BUF, which a full pipe cuts.
WriteCutByPipe ==
  LET cells == Wire(last_id, wobj)
      room  == CAPACITY - Len(pipes[wfd])
      n     == IF room < Len(cells) THEN room ELSE Len(cells) IN
  /\ wpc = "write" /\ wpc' = "idle"
  /\ n > 0
  /\ pipes' = [pipes EXCEPT ![wfd] = @ \o SubSeq(cells, 1, n)]
  /\ sent' = [sent EXCEPT ![wfd] = Append(@, [id |-> last_id, obj |-> wobj])]
  /\ wret' = TRUE
  /\ UNCHANGED <<writers, wfd, wobj, last_id, rvars>>

\* ::write blocks until the pipe has room for the whole message.
WriteIntoPipe ==
  LET cells == Wire(last_id, wobj) IN
  /\ wpc = "write" /\ wpc' = "idle"
  /\ Len(pipes[wfd]) + Len(cells) <= CAPACITY
  /\ pipes' = [pipes EXCEPT ![wfd] = @ \o cells]
  /\ sent' = [sent EXCEPT ![wfd] = Append(@, [id |-> last_id, obj |-> wobj])]
  /\ wret' = TRUE
  /\ UNCHANGED <<writers, wfd, wobj, last_id, rvars>>

\* ::write returns -1: the id is used up, and nothing is in the pipe.
WriteFails ==
  /\ wpc = "write" /\ wpc' = "idle"
  /\ wret' = FALSE
  /\ UNCHANGED <<pipes, sent, writers, wfd, wobj, last_id, rvars>>

\* close(), or the end of the process, also inside a blocked ::write.
WriterExit ==
  /\ wpc # "closed" /\ wpc' = "closed"
  /\ wfd' = 0
  /\ LetGo(wfd, rfd)
  /\ UNCHANGED <<writers, wobj, last_id, wret, rvars>>

-----------------------------------------------------------------------------
(* open() and close() of the reading process *)

\* The handler of a new process.
FreshHandler == header' = ZeroHeader /\ rbuf' = [k \in BufferIx |-> 0] /\ rret' = "none"
SameHandler  == UNCHANGED <<header, rbuf, rret>>

OpenStep(from, to) ==
  /\ rpc = from /\ rpc' = to
  /\ IF from = "closed" THEN FreshHandler ELSE SameHandler
  /\ UNCHANGED <<wvars, aborted, received>>

\* open() with readonly_: unlink whatever is there,
ReaderUnlinkOld ==
  /\ OpenStep("closed", "mkfifo")
  /\ made < MAX_PIPES
  /\ path' = 0
  /\ UNCHANGED <<made, pipes, rfd, sent>>

\* make a pipe of its own,
ReaderMkfifo ==
  /\ OpenStep("mkfifo", "open")
  /\ made' = made + 1 /\ path' = made + 1
  /\ UNCHANGED <<pipes, rfd, sent>>

\* and open it.
ReaderOpen ==
  /\ OpenStep("open", "await")
  /\ rfd' = path
  /\ UNCHANGED <<path, made, pipes, sent>>

\* mkfifo or ::open failed: open() returns false.
ReaderOpenFails ==
  /\ OpenStep("mkfifo", "closed") \/ OpenStep("open", "closed")
  /\ path' = 0
  /\ UNCHANGED <<made, pipes, rfd, sent>>

\* close(), between two calls of the loop
ReaderClose ==
  /\ OpenStep("await", "unlink")
  /\ rfd' = 0
  /\ LetGo(rfd, wfd)
  /\ UNCHANGED <<path, made>>

ReaderUnlink ==
  /\ OpenStep("unlink", "closed")
  /\ path' = 0
  /\ UNCHANGED <<made, pipes, rfd, sent>>

\* The process is killed: the path stays.
ReaderKilled ==
  /\ OpenStep(rpc, "closed") /\ rpc # "closed"
  /\ rfd' = 0
  /\ LetGo(rfd, wfd)
  /\ UNCHANGED <<path, made>>

-----------------------------------------------------------------------------
(* await_data() and read() *)

ReaderStep(from, to) ==
  /\ rpc = from /\ rpc' = to
  /\ UNCHANGED <<path, made, sent, wvars, rfd>>

\* Mutant: poll() is taken to wait for more than a header.
HasMoreThanHeader == rfd # 0 /\ Len(pipes[rfd]) > HEADER_SIZE

\* bool Fifo::has_data() const: what poll() reports
has_data == rfd # 0 /\ pipes[rfd] # << >>

Await ==
  /\ \/ has_data /\ ReaderStep("await", "header") /\ rret' = "ready"
     \/ ~has_data /\ ReaderStep("await", "await") /\ rret' = "timeout"
  /\ UNCHANGED <<pipes, header, rbuf, aborted, received>>

\* ::read of at most n cells into the front of buffer_, and the assert() that
\* it got them all.
Take(n) ==
  LET result == IF n < Len(pipes[rfd]) THEN n ELSE Len(pipes[rfd]) IN
  /\ pipes[rfd] # << >>
  /\ pipes' = [pipes EXCEPT ![rfd] = SubSeq(@, result + 1, Len(@))]
  /\ rbuf' = Overlay(rbuf, SubSeq(pipes[rfd], 1, result))
  /\ aborted' = (aborted \/ result # n)

ReadHeader ==
  /\ ReaderStep("header", "body")
  /\ Take(HEADER_SIZE)
  /\ header' = DataHeader(rbuf'[1], rbuf'[2], rbuf'[3])
  /\ UNCHANGED <<rret, received>>

\* EAGAIN for the header, or for a body of which nothing has come.
ReadNoData ==
  /\ \/ ReaderStep("header", "await")
     \/ ReaderStep("body", "await") /\ header.body_size > 0
  /\ pipes[rfd] = << >>
  /\ rret' = "NO_DATA_AVAILABLE"
  /\ UNCHANGED <<pipes, header, rbuf, aborted, received>>

\* The body and its object.  A ::read of 0 cells (Ping) returns 0 at once.
ReadBody ==
  LET size == header.body_size IN
  /\ rpc = "body"
  /\ \/ size = 0 /\ UNCHANGED <<pipes, rbuf, aborted>>
     \/ size > 0 /\ Take(size)
  /\ LET object == deserialize_data_object(header.type, rbuf', size) IN
       IF IsError(object)
       THEN ReaderStep("body", "await") /\ rret' = object.error /\ UNCHANGED received
       ELSE /\ ReaderStep("body", "header")
            /\ rret' = "message"
            /\ received' = [received EXCEPT ![rfd] =
                              Append(@, [id |-> header.id, obj |-> object])]
  /\ UNCHANGED header

-----------------------------------------------------------------------------
WriterNext ==
  \/ WriterOpen \/ WriteIntoPipe \/ WriteFails \/ WriterExit
  \/ \E obj \in Objects : WriteRefused(obj) \/ WriteSerialize(obj)

ReaderReads == Await \/ ReadHeader \/ ReadNoData \/ ReadBody

ReaderNext ==
  \/ ReaderUnlinkOld \/ ReaderMkfifo \/ ReaderOpen \/ ReaderOpenFails
  \/ ReaderReads \/ ReaderClose \/ ReaderUnlink \/ ReaderKilled

Next == WriterNext \/ ReaderNext
Spec == Init /\ [][Next]_vars

\* The reading loop runs on while the pipe is open, and ::write returns when the
\* pipe has room.  Nobody has to open, close or write, and no call has to fail.
FairSpec == Spec /\ WF_vars(ReaderReads) /\ WF_vars(WriteIntoPipe)

-----------------------------------------------------------------------------
(* Properties *)

\* From each pipe read() returns the messages written into it, whole and in
\* order, and the assert() that each ::read got all it asked for never fails:
\* header and body stay together although writing processes come and go, are
\* killed in a blocked ::write, and write while the other side reads.
InOrder ==
  /\ ~aborted
  /\ \A p \in Pipes :
       /\ Len(received[p]) <= Len(sent[p])
       /\ \A i \in 1..Len(received[p]) : received[p][i] = sent[p][i]

\* Every message in the pipe is read, as long as the reading process keeps the
\* pipe open.
EveryMessageRead ==
  \A p \in Pipes, n \in 1..(MAX_ID * MAX_WRITERS) :
    (rfd = p /\ Len(sent[p]) >= n) ~> (rfd # p \/ Len(received[p]) >= n)

\* A ::write that waits for room returns, unless the reading process has turned
\* away from this pipe: then nothing ever ends it.
WriteReturns == (wpc = "write") ~> (wpc # "write" \/ wfd # rfd)

\* While somebody reads the pipe nothing in it is left and nobody is stuck.
KeepsMoving == EveryMessageRead /\ WriteReturns

=============================================================================
