---------------------------- MODULE MessageQueue ----------------------------
(***************************************************************************)
(* The POSIX message queue, MessageQueue (src/handler/message_queue.cpp):  *)
(* one reading process that opens, reads, closes or is killed and comes    *)
(* back, and one writing process after the other.  Either side creates the *)
(* queue when it is missing.  A queue keeps its messages when nobody has   *)
(* it open, so the reading process unlinks the old one first; a writing    *)
(* process that opened the old one goes on sending to it.                  *)
(***************************************************************************)
EXTENDS DataObjects

CONSTANTS
  BODY_SIZE,    \* BUFFER_SIZE - sizeof(DataHeader), in cells
  QUEUE_SIZE,   \* messages that a queue holds (10 in the code)
  Objects,      \* the objects the writing processes may send
  MAX_ID,       \* bound on last_id_ of each process
  MAX_WRITERS,  \* bound on the number of writing processes
  MAX_RUNS      \* bound on the number of reading processes

ASSUME QueueAssumption ==
  /\ BODY_SIZE \in Nat /\ QUEUE_SIZE \in Nat \ {0} /\ Objects \subseteq DataObject
  /\ MAX_ID \in Nat /\ MAX_WRITERS \in Nat /\ MAX_RUNS \in Nat

BodyIx      == 1..BODY_SIZE
Queues      == 1..(MAX_RUNS + MAX_WRITERS)
Message     == [id : 1..MAX_ID, obj : Objects]

VARIABLES
  path,      \* the queue that the path leads to, 0 for none
  made,      \* how many queues were created
  queues,    \* the messages in each queue: their cells, and the run they were sent in
  writers,   \* how many writing processes there were
  wqd,       \* mqd_ of the writing process, 0 for -1
  wrun,      \* the run in which it opened the queue
  wpc, wobj, last_id, wret,  \* its write() and the argument (Ping when it is not in
                             \* write()), last_id_, the last result
  runs,      \* how many reading processes there were
  rqd,       \* mqd_ of the reading process
  rpc, rbuf, rret,           \* its loop, the body in buffer_, the last result
  aborted,   \* the assert() of read() failed
  sent,      \* history: the messages sent to each queue
  received   \* history: the messages read() returned from each queue

wvars == <<writers, wqd, wrun, wpc, wobj, last_id, wret>>
rvars == <<runs, rqd, rpc, rbuf, rret, aborted, received>>
vars  == <<path, made, queues, sent, wvars, rvars>>

TypeOK ==
  /\ path \in 0..made /\ made \in 0..(MAX_RUNS + MAX_WRITERS)
  /\ \A q \in Queues : Len(queues[q]) <= QUEUE_SIZE
  /\ writers \in 0..MAX_WRITERS /\ wqd \in 0..made /\ wrun \in 0..runs
  /\ wpc \in {"closed", "idle", "send"}
  /\ wobj \in Objects \cup {Ping} /\ last_id \in 0..MAX_ID /\ wret \in BOOLEAN
  /\ runs \in 0..MAX_RUNS /\ rqd \in 0..made
  /\ rpc \in {"closed", "open", "await", "read", "unlink"}
  /\ rbuf \in [BodyIx -> Nat]
  /\ rret \in {"none", "timeout", "ready", "message"} \cup CommunicationError
  /\ aborted \in BOOLEAN
  /\ sent \in [Queues -> Seq(Message)] /\ received \in [Queues -> Seq(Message)]

Init ==
  /\ path = 0 /\ made = 0
  /\ queues = [q \in Queues |-> << >>]
  /\ writers = 0 /\ wqd = 0 /\ wrun = 0
  /\ wpc = "closed" /\ wobj = Ping /\ last_id = 0 /\ wret = FALSE
  /\ runs = 0 /\ rqd = 0 /\ rpc = "closed"
  /\ rbuf = [k \in BodyIx |-> 0] /\ rret = "none" /\ aborted = FALSE
  /\ sent = [q \in Queues |-> << >>] /\ received = [q \in Queues |-> << >>]

\* mq_open with O_CREAT: the queue under the path, or a new one.
OpenOrCreate ==
  \/ path # 0 /\ UNCHANGED <<path, made>>
  \/ path = 0 /\ made' = made + 1 /\ path' = made + 1

-----------------------------------------------------------------------------
(* The writing process *)

\* open() without readonly_
WriterOpen ==
  /\ wpc = "closed" /\ wpc' = "idle"
  /\ writers < MAX_WRITERS /\ writers' = writers + 1
  /\ OpenOrCreate /\ wqd' = path' /\ wrun' = runs
  /\ wobj' = Ping /\ last_id' = 0 /\ wret' = FALSE
  /\ UNCHANGED <<queues, sent, rvars>>

\* Mutant: last_id_ grows before the result of serialize is looked at.
WriteRefusedCounting(obj) ==
  /\ wpc = "idle"
  /\ ~Fits(obj, BODY_SIZE)
  /\ wret' = FALSE /\ last_id' = last_id + 1
  /\ UNCHANGED <<path, made, queues, sent, writers, wqd, wrun, wpc, wobj, rvars>>

\* bool MessageQueue::write(const IDataObject &obj), up to mq_send
WriteRefused(obj) ==
  /\ wpc = "idle"
  /\ ~Fits(obj, BODY_SIZE)
  /\ wret' = FALSE
  /\ UNCHANGED <<path, made, queues, sent, writers, wqd, wrun, wpc, wobj, last_id, rvars>>

WriteSerialize(obj) ==
  /\ wpc = "idle" /\ wpc' = "send"
  /\ last_id < MAX_ID /\ last_id' = last_id + 1
  /\ Fits(obj, BODY_SIZE) /\ wobj' = obj
  /\ UNCHANGED <<path, made, queues, sent, writers, wqd, wrun, wret, rvars>>

\* Mutant: mq_send with size cells only.
SendWithoutHeaderSize ==
  /\ wpc = "send" /\ wpc' = "idle"
  /\ Len(queues[wqd]) < QUEUE_SIZE
  /\ LET cells == Wire(last_id, wobj) IN
       queues' = [queues EXCEPT ![wqd] =
                    Append(@, [cells |-> SubSeq(cells, 1, HEADER_SIZE), run |-> runs])]
  /\ sent' = [sent EXCEPT ![wqd] = Append(@, [id |-> last_id, obj |-> wobj])]
  /\ wret' = TRUE /\ wobj' = Ping
  /\ UNCHANGED <<path, made, writers, wqd, wrun, last_id, rvars>>

\* mq_send blocks while the queue is full.
Send ==
  /\ wpc = "send" /\ wpc' = "idle"
  /\ Len(queues[wqd]) < QUEUE_SIZE
  /\ queues' = [queues EXCEPT ![wqd] =
                  Append(@, [cells |-> Wire(last_id, wobj), run |-> runs])]
  /\ sent' = [sent EXCEPT ![wqd] = Append(@, [id |-> last_id, obj |-> wobj])]
  /\ wret' = TRUE /\ wobj' = Ping
  /\ UNCHANGED <<path, made, writers, wqd, wrun, last_id, rvars>>

\* mq_send returns -1: the id is used up, and nothing is in the queue.
SendFails ==
  /\ wpc = "send" /\ wpc' = "idle"
  /\ wret' = FALSE /\ wobj' = Ping
  /\ UNCHANGED <<path, made, queues, sent, writers, wqd, wrun, last_id, rvars>>

\* close(), or the end of the process.  The queue keeps its messages.
WriterExit ==
  /\ wpc # "closed" /\ wpc' = "closed"
  /\ wqd' = 0 /\ wobj' = Ping
  /\ UNCHANGED <<path, made, queues, sent, writers, wrun, last_id, wret, rvars>>

-----------------------------------------------------------------------------
(* open() and close() of the reading process *)

OpenStep(from, to) ==
  /\ rpc = from /\ rpc' = to
  /\ UNCHANGED <<queues, sent, wvars, aborted, received>>

\* The handler of a new process.
FreshHandler ==
  /\ runs < MAX_RUNS /\ runs' = runs + 1
  /\ rbuf' = [k \in BodyIx |-> 0] /\ rret' = "none"
SameHandler  == UNCHANGED <<runs, rbuf, rret>>

\* Mutant: the old queue is kept.
ReaderKeepOld ==
  /\ OpenStep("closed", "open")
  /\ FreshHandler
  /\ UNCHANGED <<path, made, rqd>>

\* open() with readonly_: "Clear old messages", then mq_open.
ReaderUnlinkOld ==
  /\ OpenStep("closed", "open")
  /\ FreshHandler
  /\ path' = 0
  /\ UNCHANGED <<made, rqd>>

\* Mutant: mq_unlink after mq_open.
ReaderOpenThenUnlink ==
  /\ OpenStep("open", "await")
  /\ path' = 0
  /\ \/ path # 0 /\ rqd' = path /\ UNCHANGED made
     \/ path = 0 /\ rqd' = made + 1 /\ made' = made + 1
  /\ SameHandler

ReaderOpen ==
  /\ OpenStep("open", "await")
  /\ OpenOrCreate /\ rqd' = path'
  /\ SameHandler

\* mq_open failed: open() unlinks and returns false.
ReaderOpenFails == OpenStep("open", "closed") /\ path' = 0 /\ UNCHANGED <<made, rqd>> /\ SameHandler

\* close(): mq_close and mq_unlink
ReaderClose  == OpenStep("await", "unlink") /\ rqd' = 0 /\ UNCHANGED <<path, made>> /\ SameHandler
ReaderUnlink == OpenStep("unlink", "closed") /\ path' = 0 /\ UNCHANGED <<made, rqd>> /\ SameHandler

\* The process is killed: the path stays, and the queue with its messages.
ReaderKilled ==
  /\ rpc # "closed" /\ OpenStep(rpc, "closed")
  /\ rqd' = 0
  /\ UNCHANGED <<path, made>> /\ SameHandler

-----------------------------------------------------------------------------
(* await_data() and read() *)

ReaderStep(from, to) ==
  /\ rpc = from /\ rpc' = to
  /\ UNCHANGED <<path, made, sent, wvars, runs, rqd>>

\* Mutant: the result of poll() is turned around.
HasNoData == rqd # 0 /\ queues[rqd] = << >>

\* bool MessageQueue::has_data() const: what poll() reports
has_data == rqd # 0 /\ queues[rqd] # << >>

Await ==
  /\ \/ has_data /\ ReaderStep("await", "read") /\ rret' = "ready"
     \/ ~has_data /\ ReaderStep("await", "await") /\ rret' = "timeout"
  /\ UNCHANGED <<queues, rbuf, aborted, received>>

\* mq_receive: EAGAIN, or one whole message.
ReadNoData ==
  /\ ReaderStep("read", "await")
  /\ queues[rqd] = << >>
  /\ rret' = "NO_DATA_AVAILABLE"
  /\ UNCHANGED <<queues, rbuf, aborted, received>>

Receive ==
  /\ rpc = "read"
  /\ queues[rqd] # << >>
  /\ queues' = [queues EXCEPT ![rqd] = Tail(@)]
  /\ LET cells  == Head(queues[rqd]).cells
         body   == SubSeq(cells, HEADER_SIZE + 1, Len(cells))
         size   == cells[3]
         object == deserialize_data_object(cells[2], rbuf', size) IN
       /\ rbuf' = Overlay(rbuf, body)
       /\ aborted' = (aborted \/ size # Len(body))
       /\ \/ /\ IsError(object)
             /\ ReaderStep("read", "await")
             /\ rret' = object.error
             /\ UNCHANGED received
          \/ /\ ~IsError(object)
             /\ ReaderStep("read", "read")
             /\ rret' = "message"
             /\ received' = [received EXCEPT ![rqd] =
                               Append(@, [id |-> cells[1], obj |-> object])]

-----------------------------------------------------------------------------
WriterNext ==
  \/ WriterOpen \/ Send \/ SendFails \/ WriterExit
  \/ \E obj \in Objects : WriteRefused(obj) \/ WriteSerialize(obj)

ReaderReads == Await \/ ReadNoData \/ Receive

ReaderNext ==
  \/ ReaderUnlinkOld \/ ReaderOpen \/ ReaderOpenFails
  \/ ReaderReads \/ ReaderClose \/ ReaderUnlink \/ ReaderKilled

Next == WriterNext \/ ReaderNext
Spec == Init /\ [][Next]_vars

\* The reading loop runs on while the queue is open, and mq_send returns when
\* the queue has room.  Nobody has to open, close or write, and no call has to fail.
FairSpec == Spec /\ WF_vars(ReaderReads) /\ WF_vars(Send)

-----------------------------------------------------------------------------
(* Properties *)

\* From each queue read() returns the messages sent to it, whole and in order,
\* and the assert() on their size never fails, whatever buffer_ held before.
InOrder ==
  /\ ~aborted
  /\ \A q \in Queues :
       /\ Len(received[q]) <= Len(sent[q])
       /\ \A i \in 1..Len(received[q]) : received[q][i] = sent[q][i]

\* A reading process never gets a message that was sent before it opened the
\* queue, although a killed predecessor leaves path, queue and messages behind.
FreshStart == rqd # 0 => \A i \in 1..Len(queues[rqd]) : queues[rqd][i].run = runs

\* A writing process that opened the queue in this run of the reading process,
\* even between its mq_unlink and its mq_open, shares the queue with it.
LateWriterIsHeard == rqd # 0 /\ wqd # 0 /\ wrun = runs => wqd = rqd

\* The reading process catches up with the writers, each of which sends at most
\* MAX_ID messages: every one in the queue is read, as long as it stays open.
EveryMessageRead ==
  \A q \in Queues : (rqd = q) ~> (rqd # q \/ Len(received[q]) = Len(sent[q]))

\* A mq_send that waits for room returns, unless the reading process has turned
\* away from this queue: then nothing ever ends it.
WriteReturns == (wpc = "send") ~> (wpc # "send" \/ wqd # rqd)

\* While somebody reads the queue nothing in it is left and nobody is stuck.
KeepsMoving == EveryMessageRead /\ WriteReturns

=============================================================================
