--------------------------- MODULE DatagramSocket ---------------------------
(***************************************************************************)
(* DatagramSocket (src/handler/datagram_socket.cpp), over a unix path or   *)
(* UDP: one reading process after the other, one writing process after the *)
(* other, and strangers who send to the same address.  A datagram is       *)
(* delivered whole or not at all.  A unix socket makes the sender wait     *)
(* when the queue of the receiver is full, UDP drops the datagram.  A      *)
(* writing process keeps an address and no connection, so that each        *)
(* sendto() goes to whoever is bound to it at that moment.                 *)
(***************************************************************************)
EXTENDS DataObjects

CONSTANTS
  BODY_SIZE,    \* BUFFER_SIZE - sizeof(DataHeader), in cells
  QUEUE_SIZE,   \* datagrams that a socket holds
  Objects,      \* the objects the writing processes may send
  Foreign,      \* datagrams that strangers may send, as sequences of cells
  MAX_ID,       \* bound on last_id_ of each process
  MAX_WRITERS,  \* bound on the number of writing processes
  MAX_RUNS,     \* bound on the number of reading processes
  MAX_FOREIGN   \* bound on the number of foreign datagrams

BUFFER_SIZE == HEADER_SIZE + BODY_SIZE

ASSUME DatagramAssumption ==
  /\ BODY_SIZE \in Nat /\ QUEUE_SIZE \in Nat \ {0} /\ Objects \subseteq DataObject
  /\ \A cells \in Foreign : cells \in Seq(Nat) /\ Len(cells) <= BUFFER_SIZE
  /\ MAX_ID \in Nat /\ MAX_WRITERS \in Nat /\ MAX_RUNS \in Nat /\ MAX_FOREIGN \in Nat

\* What read() returns: a header's id and an object.
Message == [id : Nat, obj : DataObject]

VARIABLES
  unix,     \* unix_: the kind of address
  path,     \* unix: the reading process whose socket has the path, 0 for none
  bound,    \* the reading process whose open socket has the address, 0 for none
  queue,    \* the datagrams in that socket: cells, and what they are the n-th of
  foreign,  \* how many datagrams strangers have sent
  writers,  \* number of the current or last writing process
  wpc,      \* "closed", "idle", or in the sendto() of write()
  wobj, last_id, wret,  \* the argument of write(), last_id_, the last result
  runs,     \* number of the current or last reading process
  rpc,      \* "closed", a step of open() or close(), or the reading loop
  rbuf,     \* buffer_ of the reading process
  got,      \* the datagram that recvfrom() delivered last
  aborted,  \* an assert() of read() failed in some run
  sent,     \* history: per writing process, what write() returned true for
  received  \* history: per reading process, what read() returned and of which datagram

wvars == <<writers, wpc, wobj, last_id, wret>>
rvars == <<runs, rpc, rbuf, got, aborted, received>>
vars  == <<unix, path, bound, queue, foreign, sent, wvars, rvars>>

BufferIx == 1..BUFFER_SIZE
Nobody   == [cells |-> << >>, writer |-> 0, n |-> 0]

TypeOK ==
  /\ unix \in BOOLEAN
  /\ path \in 0..runs /\ bound \in 0..runs /\ (unix => bound \in {0, path})
  /\ Len(queue) <= QUEUE_SIZE /\ (bound = 0 => queue = << >>)
  /\ foreign \in 0..MAX_FOREIGN
  /\ writers \in 0..MAX_WRITERS
  /\ wpc \in {"closed", "idle", "send"}
  /\ wobj \in Objects \cup {Ping} /\ last_id \in 0..MAX_ID /\ wret \in BOOLEAN
  /\ runs \in 0..MAX_RUNS
  /\ rpc \in {"closed", "bind", "await", "read", "remove"}
  /\ rbuf \in [BufferIx -> Nat]
  /\ aborted \in BOOLEAN
  /\ sent \in [1..MAX_WRITERS -> Seq(Message)]
  /\ DOMAIN received = 1..MAX_RUNS

Init ==
  /\ unix \in BOOLEAN
  /\ path = 0 /\ bound = 0 /\ queue = << >> /\ foreign = 0
  /\ writers = 0 /\ wpc = "closed" /\ wobj = Ping /\ last_id = 0 /\ wret = FALSE
  /\ runs = 0 /\ rpc = "closed"
  /\ rbuf = [k \in BufferIx |-> 0] /\ got = Nobody /\ aborted = FALSE
  /\ sent = [w \in 1..MAX_WRITERS |-> << >>]
  /\ received = [r \in 1..MAX_RUNS |-> << >>]

-----------------------------------------------------------------------------
(* The writing process *)

\* open() without server_: create_client() only builds the address.
WriterOpen ==
  /\ wpc = "closed" /\ wpc' = "idle"
  /\ writers < MAX_WRITERS /\ writers' = writers + 1
  /\ UNCHANGED <<unix, path, bound, queue, foreign, sent, wobj, last_id, wret, rvars>>

\* Mutant: last_id_ grows before the result of serialize is looked at.
WriteRefusedCounting(obj) ==
  /\ wpc = "idle"
  /\ ~Fits(obj, BODY_SIZE)
  /\ wret' = FALSE /\ last_id' = last_id + 1
  /\ UNCHANGED <<unix, path, bound, queue, foreign, sent, writers, wpc, wobj, rvars>>

\* bool DatagramSocket::write(const IDataObject &obj), up to sendto
WriteRefused(obj) ==
  /\ wpc = "idle"
  /\ ~Fits(obj, BODY_SIZE)
  /\ wret' = FALSE
  /\ UNCHANGED <<unix, path, bound, queue, foreign, sent, writers, wpc, wobj, last_id, rvars>>

WriteSerialize(obj) ==
  /\ wpc = "idle" /\ wpc' = "send"
  /\ last_id < MAX_ID /\ last_id' = last_id + 1
  /\ Fits(obj, BODY_SIZE) /\ wobj' = obj
  /\ UNCHANGED <<unix, path, bound, queue, foreign, sent, writers, wret, rvars>>

\* sendto() is over, with this result.
SendReturns(result) ==
  /\ wpc = "send" /\ wpc' = "idle"
  /\ wret' = result /\ wobj' = Ping
  /\ sent' = IF result
             THEN [sent EXCEPT ![writers] = Append(@, [id |-> last_id, obj |-> wobj])]
             ELSE sent
  /\ UNCHANGED <<unix, path, bound, foreign, writers, last_id, rvars>>

\* Mutant: the datagram is in the queue, and write() reports a failure.
SendUnnoticed ==
  /\ SendReturns(FALSE)
  /\ bound # 0 /\ Len(queue) < QUEUE_SIZE
  /\ queue' = Append(queue, [cells |-> Wire(last_id, wobj), writer |-> writers,
                             n |-> Len(sent[writers]) + 1])

\* The socket at the address takes the datagram.
Send ==
  /\ SendReturns(TRUE)
  /\ bound # 0 /\ Len(queue) < QUEUE_SIZE
  /\ queue' = Append(queue, [cells |-> Wire(last_id, wobj), writer |-> writers,
                             n |-> Len(sent[writers]) + 1])

\* UDP: nobody is bound to the port, or the socket is full.  The datagram is
\* lost, and sendto() does not know.
SendLost ==
  /\ ~unix /\ (bound = 0 \/ Len(queue) = QUEUE_SIZE)
  /\ SendReturns(TRUE)
  /\ UNCHANGED queue

\* unix: nothing has the path, or what has it is closed.  A sendto() that waits
\* for room ends like this, too, when the reading process goes.
SendRefused ==
  /\ unix /\ bound = 0
  /\ SendReturns(FALSE)
  /\ UNCHANGED queue

\* close(), or the end of the process at any point.  The next one starts with a
\* handler of its own.
WriterExit ==
  /\ wpc # "closed" /\ wpc' = "closed"
  /\ wobj' = Ping /\ last_id' = 0 /\ wret' = FALSE
  /\ UNCHANGED <<unix, path, bound, queue, foreign, sent, writers, rvars>>

\* A datagram of somebody else, with any content.
Stranger(cells) ==
  /\ foreign < MAX_FOREIGN /\ foreign' = foreign + 1
  /\ bound # 0 /\ Len(queue) < QUEUE_SIZE
  /\ queue' = Append(queue, [Nobody EXCEPT !.cells = cells])
  /\ UNCHANGED <<unix, path, bound, sent, wvars, rvars>>

-----------------------------------------------------------------------------
(* open() and close() of the reading process *)

OpenStep(from, to) ==
  /\ rpc = from /\ rpc' = to
  /\ UNCHANGED <<unix, foreign, sent, wvars, aborted, received>>

SameHandler == UNCHANGED <<runs, rbuf, got>>

\* The next reading process has a handler of its own.
NewBuffer == rbuf' = [k \in BufferIx |-> 0] /\ got' = Nobody

\* create_server(): socket(), and remove() of an old socket file.
ServerRemoveOld ==
  /\ OpenStep("closed", "bind")
  /\ runs < MAX_RUNS /\ runs' = runs + 1
  /\ path' = 0
  /\ UNCHANGED <<bound, queue, rbuf, got>>

\* bind(), which fails when the path exists.
ServerBind ==
  /\ OpenStep("bind", "await")
  /\ path = 0
  /\ path' = (IF unix THEN runs ELSE 0) /\ bound' = runs
  /\ UNCHANGED queue /\ SameHandler

\* build_address() or bind() failed: open() calls close().
ServerBindFails == OpenStep("bind", "remove") /\ UNCHANGED <<path, bound, queue>> /\ SameHandler

\* close(): ::close() drops what is in the socket, then remove().
ServerClose ==
  /\ OpenStep("await", "remove")
  /\ bound' = 0 /\ queue' = << >>
  /\ UNCHANGED path /\ SameHandler

ServerRemove ==
  /\ OpenStep("remove", "closed")
  /\ path' = 0
  /\ UNCHANGED <<bound, queue, runs>> /\ NewBuffer

\* The process is killed: the socket goes, the path stays.
ServerKilled ==
  /\ rpc # "closed" /\ OpenStep(rpc, "closed")
  /\ bound' = 0 /\ queue' = << >>
  /\ UNCHANGED <<path, runs>> /\ NewBuffer

-----------------------------------------------------------------------------
(* await_data(), whose timeout changes nothing, and read().  The loop goes on to *)
(* read after a message, and back to await_data() after anything else.         *)

ReadStep(from, to) ==
  /\ rpc = from /\ rpc' = to
  /\ UNCHANGED <<unix, path, foreign, sent, wvars, runs>>

\* Mutant: one datagram is not enough.
HasTwo == Len(queue) > 1

\* bool DatagramSocket::has_data() const: what poll() reports
has_data == queue # << >>

Await ==
  /\ ReadStep("await", "read")
  /\ has_data
  /\ UNCHANGED <<bound, queue, rbuf, got, aborted, received>>

\* recvfrom: EAGAIN, NO_DATA_AVAILABLE
ReadNoData ==
  /\ ReadStep("read", "await")
  /\ queue = << >>
  /\ UNCHANGED <<bound, queue, rbuf, got, aborted, received>>

\* recvfrom puts the datagram over what buffer_ held.
Recv ==
  /\ queue # << >>
  /\ got' = Head(queue)
  /\ rbuf' = Overlay(rbuf, got'.cells)

\* What read() makes of buffer_: the header, and the object behind it.
Header  == DataHeader(rbuf[1], rbuf[2], rbuf[3])
Body    == [k \in 1..BODY_SIZE |-> rbuf[HEADER_SIZE + k]]
Decoded == deserialize_data_object(Header.type, Body, Header.body_size)

\* header.get_body_size() == result - header_size
SizeMatches(cells, size) == size + HEADER_SIZE = Len(cells)

\* The assert() fails: the process ends, and leaves its path.
ReadAborts ==
  /\ ReadStep("read", "closed")
  /\ queue # << >>
  /\ LET cells == Head(queue).cells IN
     ~SizeMatches(cells, Overlay(rbuf, cells)[HEADER_SIZE])
  /\ aborted' = TRUE
  /\ bound' = 0 /\ queue' = << >>
  /\ UNCHANGED received /\ NewBuffer

\* read() returns an object, or what deserialize_data_object did not like.
ReadDecode ==
  /\ Recv /\ SizeMatches(got'.cells, Header'.body_size)
  /\ queue' = Tail(queue)
  /\ \/ /\ IsError(Decoded')
        /\ ReadStep("read", "await")
        /\ UNCHANGED received
     \/ /\ ~IsError(Decoded')
        /\ ReadStep("read", "read")
        /\ received' = [received EXCEPT ![runs] =
                          Append(@, [writer |-> got'.writer, n |-> got'.n,
                                     id |-> Header'.id, obj |-> Decoded'])]
  /\ UNCHANGED <<bound, aborted>>

-----------------------------------------------------------------------------
SendEnds == Send \/ SendLost \/ SendRefused

WriterNext ==
  \/ WriterOpen \/ SendEnds \/ WriterExit
  \/ \E obj \in Objects : WriteRefused(obj) \/ WriteSerialize(obj)

ServerReads == Await \/ ReadNoData \/ ReadAborts \/ ReadDecode

ServerNext ==
  \/ ServerRemoveOld \/ ServerBind \/ ServerBindFails
  \/ ServerReads \/ ServerClose \/ ServerRemove \/ ServerKilled

Next == WriterNext \/ ServerNext \/ \E cells \in Foreign : Stranger(cells)
Spec == Init /\ [][Next]_vars

\* The reading loop runs on while the socket is open, and sendto() returns when
\* it can.
FairSpec == Spec /\ WF_vars(ServerReads) /\ WF_vars(SendEnds)

-----------------------------------------------------------------------------
(* Properties *)

Own(m) == m.writer # 0

Before(e, m) == e.writer < m.writer \/ (e.writer = m.writer /\ e.n < m.n)

\* Each datagram comes once, after those that were sent before it.
Ordered(s) == \A k \in DOMAIN s : \A i \in 1..(k - 1) :
  Own(s[i]) /\ Own(s[k]) => Before(s[i], s[k])

\* Nothing is missing between two datagrams of one writing process.
Gapless(s) == \A k \in DOMAIN s : \A i \in 1..(k - 1) :
  Own(s[i]) /\ s[i].writer = s[k].writer =>
    \A n \in s[i].n..s[k].n : \E j \in i..k : s[j].writer = s[k].writer /\ s[j].n = n

\* What read() returns of the writing processes' datagrams are messages whose
\* write() returned true, whole, each once and in order, however short, long or
\* wrong the datagrams of strangers between them are; a unix socket loses none of
\* them; and nothing that a writing process sends makes the assert() of read()
\* fail.
InOrder ==
  /\ \A r \in 1..MAX_RUNS :
       /\ \A k \in DOMAIN received[r] :
            LET m == received[r][k] IN
            Own(m) => /\ m.n \in DOMAIN sent[m.writer]
                      /\ sent[m.writer][m.n] = [id |-> m.id, obj |-> m.obj]
       /\ Ordered(received[r])
       /\ unix => Gapless(received[r])
  /\ aborted => foreign > 0

\* Once the assert() of read() let a datagram pass, whoever sent it: an object
\* decoded from it uses no cell behind the body, where an older datagram shows,
\* and serializing it again gives the cells it was decoded from.
DecodedFromBody ==
  SizeMatches(got.cells, Header.body_size) /\ ~IsError(Decoded) =>
    /\ SerializedSize(Decoded) <= Header.body_size
    /\ Serialize(Decoded) = SubSeq(Body, 1, SerializedSize(Decoded))

Queued(w, n) == \E k \in DOMAIN queue : queue[k].writer = w /\ queue[k].n = n

\* A sendto() that waits for room in the socket of the reading process ends, and
\* a datagram in that socket is read, or the socket is closed: no await_data()
\* sleeps while one is there.
KeepsMoving ==
  /\ wpc = "send" ~> wpc # "send"
  /\ \A w \in 1..MAX_WRITERS, n \in 1..MAX_ID : Queued(w, n) ~> ~Queued(w, n)

=============================================================================
