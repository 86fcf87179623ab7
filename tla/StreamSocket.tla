---------------------------- MODULE StreamSocket ----------------------------
(***************************************************************************)
(* StreamSocket (src/handler/stream_socket.cpp), for unix and TCP sockets: *)
(* a server that listens and serves one connection at a time, possibly     *)
(* ends with connections open and starts again, and a sequence of writing  *)
(* processes that connect, send and end, possibly in the middle of a       *)
(* message.  The reading process runs run_server of src/main.cpp, which    *)
(* calls accept() when a connection is closed.                             *)
(*                                                                         *)
(* A socket has no message boundaries: send() hands over its cells in      *)
(* pieces, and recv() returns any part of what has arrived.                *)
(***************************************************************************)
EXTENDS DataObjects

CONSTANTS
  BODY_SIZE,      \* BUFFER_SIZE - sizeof(DataHeader), in cells
  Objects,        \* the objects the writing processes may send
  MAX_ID,         \* bound on last_id_ of each process
  MAX_CLIENTS,    \* bound on the number of writing processes, one after the other
  MAX_RUNS,       \* bound on the number of reading processes
  SOCKET_BUFFER,  \* cells that a connection holds
  BACKLOG         \* connections that wait for accept()

ASSUME StreamAssumption ==
  /\ BODY_SIZE \in Nat
  /\ Objects \subseteq DataObject
  /\ MAX_ID \in Nat /\ MAX_CLIENTS \in Nat /\ MAX_RUNS \in Nat
  /\ SOCKET_BUFFER \in Nat \ {0} /\ BACKLOG \in Nat \ {0}

Connections == 1..MAX_CLIENTS
BufferIx    == 1..(HEADER_SIZE + BODY_SIZE)
Message     == [id : 1..MAX_ID, obj : Objects]

VARIABLES
  stream,    \* the cells under way on each connection
  finished,  \* the connections whose writing process is gone
  reset,     \* the connections that ended with their reading process
  backlog,   \* the connections that wait for accept(), oldest first
  client,    \* number of the current or last writing process and connection
  cpc,       \* where the writing process stands
  wobj,      \* the object that write() was called with
  outbox,    \* the cells that send() still has to hand over
  last_id,   \* last_id_ of the writing process
  cfd,       \* the connection the server serves, 0 for cfd_ = -1
  runs,      \* number of the current or last reading process
  rpc,       \* "closed", or where the reading loop stands
  amount,    \* the local variable of read()
  header,    \* the header that read() has decoded
  rbuf,      \* buffer_ of the reading handler
  sent,      \* history: the messages of each connection for which write() returned
  received   \* history: the messages of each connection that read() returned

wvars == <<client, cpc, wobj, outbox, last_id>>
rvars == <<rpc, amount, header, rbuf>>
svars == <<runs, reset>>
vars  == <<stream, finished, svars, backlog, wvars, cfd, rvars, sent, received>>

ReaderStates == {"closed", "await", "poll", "header", "body", "accept"}

TypeOK ==
  /\ stream \in [Connections -> Seq(Nat)]
  /\ finished \in SUBSET Connections /\ reset \in SUBSET Connections
  /\ backlog \in Seq(Connections) /\ Len(backlog) <= BACKLOG
  /\ client \in 0..MAX_CLIENTS
  /\ cpc \in {"closed", "open", "send"}
  /\ wobj \in Objects \cup {Ping}
  /\ outbox \in Seq(Nat)
  /\ last_id \in 0..MAX_ID
  /\ cfd \in 0..MAX_CLIENTS
  /\ runs \in 0..MAX_RUNS /\ rpc \in ReaderStates
  /\ amount \in 0..(HEADER_SIZE + BODY_SIZE)
  /\ header \in [id : Nat, type : Nat, body_size : Nat]
  /\ rbuf \in [BufferIx -> Nat]
  /\ sent \in [Connections -> Seq(Message)]
  /\ received \in [Connections -> Seq(Message)]

Init ==
  /\ stream = [c \in Connections |-> << >>]
  /\ finished = {} /\ reset = {} /\ backlog = << >>
  /\ client = 0 /\ cpc = "closed" /\ wobj = Ping /\ outbox = << >>
  /\ last_id = 0
  /\ cfd = 0
  /\ runs = 0 /\ rpc = "closed" /\ amount = 0 /\ header = ZeroHeader
  /\ rbuf = [k \in BufferIx |-> 0]
  /\ sent = [c \in Connections |-> << >>]
  /\ received = [c \in Connections |-> << >>]

-----------------------------------------------------------------------------
(* The writing process *)

\* create_client(): connect() waits while the backlog is full.  Without a server
\* that listens it fails, and so does open().
ClientOpen ==
  /\ cpc = "closed"
  /\ rpc # "closed"
  /\ client < MAX_CLIENTS
  /\ Len(backlog) < BACKLOG
  /\ client' = client + 1
  /\ backlog' = Append(backlog, client + 1)
  /\ cpc' = "open" /\ wobj' = Ping /\ last_id' = 0
  /\ UNCHANGED <<stream, finished, svars, outbox, cfd, rvars, sent, received>>

\* Mutant: last_id_ grows before the result of serialize is looked at.
WriteRefusedCounting(obj) ==
  /\ cpc = "open"
  /\ ~Fits(obj, BODY_SIZE)
  /\ last_id' = last_id + 1
  /\ UNCHANGED <<stream, finished, svars, backlog, client, cpc, wobj, outbox,
                 cfd, rvars, sent, received>>

\* bool StreamSocket::write(const IDataObject &obj), up to send()
WriteRefused(obj) ==
  /\ cpc = "open"
  /\ ~Fits(obj, BODY_SIZE)
  /\ UNCHANGED <<stream, finished, svars, backlog, client, cpc, wobj, outbox, last_id,
                 cfd, rvars, sent, received>>

WriteSerialize(obj) ==
  /\ cpc = "open"
  /\ last_id < MAX_ID
  /\ Fits(obj, BODY_SIZE)
  /\ last_id' = last_id + 1
  /\ wobj' = obj
  /\ outbox' = Wire(last_id + 1, obj)
  /\ cpc' = "send"
  /\ UNCHANGED <<stream, finished, svars, backlog, client, cfd, rvars, sent, received>>

\* send() blocks until the socket took every cell.
Send(n) ==
  /\ cpc = "send" /\ client \notin reset
  /\ n <= Len(outbox)
  /\ Len(stream[client]) + n <= SOCKET_BUFFER
  /\ stream' = [stream EXCEPT ![client] = @ \o SubSeq(outbox, 1, n)]
  /\ outbox' = SubSeq(outbox, n + 1, Len(outbox))
  /\ \/ n < Len(outbox) /\ UNCHANGED <<cpc, sent>>
     \/ /\ n = Len(outbox)
        /\ cpc' = "open"
        /\ sent' = [sent EXCEPT ![client] = Append(@, [id |-> last_id, obj |-> wobj])]
  /\ UNCHANGED <<finished, svars, backlog, client, wobj, last_id, cfd, rvars, received>>

\* The reading process is gone.  A TCP socket may still take the message, before it
\* learns of that; else send() fails.
SendReset ==
  /\ cpc = "send" /\ client \in reset
  /\ cpc' = "open"
  /\ outbox' = << >>
  /\ \/ sent' = [sent EXCEPT ![client] = Append(@, [id |-> last_id, obj |-> wobj])]
     \/ UNCHANGED sent
  /\ UNCHANGED <<stream, finished, svars, backlog, client, wobj, last_id, cfd, rvars, received>>

\* close(), or the end of the process at any point: also by the SIGPIPE of a send()
\* to a reading process that is gone.  What the socket took is still delivered,
\* followed by the end of the stream.
ClientExit ==
  /\ cpc # "closed"
  /\ finished' = finished \cup {client}
  /\ cpc' = "closed"
  /\ outbox' = << >>
  /\ UNCHANGED <<stream, svars, backlog, client, wobj, last_id, cfd, rvars, sent, received>>

-----------------------------------------------------------------------------
(* open() and close() of the reading process *)

\* create_server(): remove() of an old socket file, bind() and listen().  Until
\* listen() returned, connect() is refused.
ServerOpen ==
  /\ rpc = "closed" /\ rpc' = "await"
  /\ runs < MAX_RUNS /\ runs' = runs + 1
  /\ UNCHANGED <<stream, finished, reset, backlog, wvars, cfd, amount, header, rbuf,
                 sent, received>>

\* The connections of the reading process, waiting for accept() or served.
Attached == {c \in Connections : c = cfd \/ \E k \in DOMAIN backlog : backlog[k] = c}

\* close(), or the end of the process at any point.  What its connections hold is
\* lost.  The next one has a handler of its own.
ServerStop ==
  /\ rpc # "closed" /\ rpc' = "closed"
  /\ reset' = reset \cup Attached
  /\ stream' = [c \in Connections |-> IF c \in Attached THEN << >> ELSE stream[c]]
  /\ backlog' = << >> /\ cfd' = 0
  /\ amount' = 0 /\ header' = ZeroHeader /\ rbuf' = [k \in BufferIx |-> 0]
  /\ UNCHANGED <<finished, runs, wvars, sent, received>>

-----------------------------------------------------------------------------
(* bool StreamSocket::accept() and await_data() *)

\* accept(): drop the old connection, take the next one or time out.
AcceptNext ==
  \/ /\ backlog # << >>
     /\ cfd' = Head(backlog)
     /\ backlog' = Tail(backlog)
  \/ /\ backlog = << >>
     /\ cfd' = 0
     /\ UNCHANGED backlog

\* await_data() without a connection calls accept() first.
AwaitAccept ==
  /\ rpc = "await"
  /\ cfd = 0
  /\ AcceptNext
  /\ rpc' = IF backlog = << >> THEN "await" ELSE "poll"
  /\ UNCHANGED <<stream, finished, svars, wvars, amount, header, rbuf, sent, received>>

\* poll() reports cells and the end of the stream alike.
Readable(c) == stream[c] # << >> \/ c \in finished

\* bool StreamSocket::has_data() const
has_data == cfd # 0 /\ Readable(cfd)

AwaitPoll ==
  /\ rpc \in {"await", "poll"}
  /\ cfd # 0
  /\ \/ has_data /\ rpc' = "header"
     \/ ~has_data /\ rpc' = "await"
  /\ amount' = 0
  /\ UNCHANGED <<stream, finished, svars, backlog, wvars, cfd, header, rbuf, sent, received>>

-----------------------------------------------------------------------------
(* StreamSocket::read() *)

\* recv() takes n cells and puts them where read() wants them.
Recv(n, wanted) ==
  /\ n <= Len(stream[cfd])
  /\ n <= wanted - amount
  /\ stream' = [stream EXCEPT ![cfd] = SubSeq(@, n + 1, Len(@))]
  /\ rbuf' = [k \in BufferIx |-> IF k \in (amount + 1)..(amount + n)
                                 THEN stream[cfd][k - amount] ELSE rbuf[k]]

\* recv() at the end of the stream.
AtEnd == stream[cfd] = << >> /\ cfd \in finished

\* Mutant: each recv() starts at the front of buffer_.
RecvHeaderAtFront(n) ==
  /\ rpc = "header"
  /\ n <= Len(stream[cfd]) /\ n <= HEADER_SIZE - amount
  /\ stream' = [stream EXCEPT ![cfd] = SubSeq(@, n + 1, Len(@))]
  /\ rbuf' = [k \in BufferIx |-> IF k \in 1..n THEN stream[cfd][k] ELSE rbuf[k]]
  /\ \/ /\ amount + n < HEADER_SIZE
        /\ amount' = amount + n
        /\ UNCHANGED <<rpc, header>>
     \/ /\ amount + n = HEADER_SIZE
        /\ amount' = 0
        /\ header' = DataHeader(rbuf'[1], rbuf'[2], rbuf'[3])
        /\ rpc' = "body"
  /\ UNCHANGED <<finished, svars, backlog, wvars, cfd, sent, received>>

\* The header comes in pieces and is decoded when it is complete.
RecvHeader(n) ==
  /\ rpc = "header"
  /\ Recv(n, HEADER_SIZE)
  /\ \/ /\ amount + n < HEADER_SIZE
        /\ amount' = amount + n
        /\ UNCHANGED <<rpc, header>>
     \/ /\ amount + n = HEADER_SIZE
        /\ amount' = 0
        /\ header' = DataHeader(rbuf'[1], rbuf'[2], rbuf'[3])
        /\ rpc' = "body"
  /\ UNCHANGED <<finished, svars, backlog, wvars, cfd, sent, received>>

\* Mutant: an empty socket is taken for a closed one.
RecvHeaderEmptyCloses ==
  /\ rpc = "header"
  /\ stream[cfd] = << >> /\ cfd \notin finished
  /\ amount = 0
  /\ rpc' = "accept"
  /\ UNCHANGED <<stream, finished, svars, backlog, wvars, cfd, amount, header, rbuf, sent, received>>

\* EAGAIN before the first cell.  After it, read() tries again until the rest
\* of the header comes, which changes nothing.
RecvHeaderEmpty ==
  /\ rpc = "header"
  /\ stream[cfd] = << >> /\ cfd \notin finished
  /\ amount = 0
  /\ rpc' = "await"
  /\ UNCHANGED <<stream, finished, svars, backlog, wvars, cfd, amount, header, rbuf, sent, received>>

\* The body overwrites the header in buffer_, in pieces too.
RecvBody(n) ==
  /\ rpc = "body"
  /\ amount < header.body_size
  /\ Recv(n, header.body_size)
  /\ amount' = amount + n
  /\ UNCHANGED <<finished, svars, backlog, wvars, cfd, rpc, header, sent, received>>

\* Mutant: recv() = 0 is taken for "nothing there yet".
RecvEndIgnored ==
  /\ rpc = "header" \/ (rpc = "body" /\ amount < header.body_size)
  /\ AtEnd
  /\ rpc' = "await"
  /\ UNCHANGED <<stream, finished, svars, backlog, wvars, cfd, amount, header, rbuf, sent, received>>

\* recv() = 0 in the header or in the body: the writing process is gone.
RecvEnd ==
  /\ rpc = "header" \/ (rpc = "body" /\ amount < header.body_size)
  /\ AtEnd
  /\ rpc' = "accept"
  /\ UNCHANGED <<stream, finished, svars, backlog, wvars, cfd, amount, header, rbuf, sent, received>>

\* The body is complete.
ReadDecode ==
  /\ rpc = "body"
  /\ amount >= header.body_size
  /\ amount' = 0
  /\ LET object == deserialize_data_object(header.type, rbuf, header.body_size) IN
       IF IsError(object)
       THEN rpc' = "await" /\ UNCHANGED received
       ELSE /\ rpc' = "header"
            /\ received' = [received EXCEPT ![cfd] =
                               Append(@, [id |-> header.id, obj |-> object])]
  /\ UNCHANGED <<stream, finished, svars, backlog, wvars, cfd, header, rbuf, sent>>

\* run_server calls accept() after CONNECTION_CLOSED, whatever it returns.
ServerAccept ==
  /\ rpc = "accept"
  /\ AcceptNext
  /\ rpc' = "await"
  /\ UNCHANGED <<stream, finished, svars, wvars, amount, header, rbuf, sent, received>>

-----------------------------------------------------------------------------
Pieces == 1..(HEADER_SIZE + BODY_SIZE)

SendProgress == SendReset \/ \E n \in Pieces : Send(n)

ClientNext ==
  \/ ClientOpen \/ ClientExit
  \/ \E obj \in Objects : WriteRefused(obj) \/ WriteSerialize(obj)
  \/ SendProgress

ServerReads ==
  \/ AwaitAccept \/ AwaitPoll
  \/ \E n \in Pieces : RecvHeader(n) \/ RecvBody(n)
  \/ RecvHeaderEmpty \/ RecvEnd \/ ReadDecode \/ ServerAccept

Next == ClientNext \/ ServerOpen \/ ServerReads \/ ServerStop
Spec == Init /\ [][Next]_vars

\* The reading loop runs on while the server is open, and send() goes on when the
\* socket has room.
FairSpec == Spec /\ WF_vars(ServerReads) /\ WF_vars(SendProgress)

-----------------------------------------------------------------------------
(* Properties *)

\* On each connection read() returns the messages written, whole and in order,
\* however send() and recv() cut them, and whatever an earlier process that
\* ended in the middle of a message left behind.
InOrder ==
  \A c \in Connections :
    /\ Len(received[c]) <= Len(sent[c])
    /\ \A i \in 1..Len(received[c]) : received[c][i] = sent[c][i]

\* A connection that accept() has dropped: neither waiting nor served.
Dropped(c) == c <= client /\ c \notin Attached /\ c \notin reset

\* accept() drops a connection only when every message written to it was read.
DrainedWhenDropped ==
  \A c \in Connections : Dropped(c) => received[c] = sent[c]

\* Every message that write() handed over is read, also when its process ended
\* right after, and also behind a process that ended in the middle of a message,
\* unless the reading process ends; and no send() waits for ever.
KeepsMoving ==
  /\ \A c \in Connections, n \in 1..MAX_ID :
       (Len(sent[c]) >= n) ~> (Len(received[c]) >= n \/ c \in reset)
  /\ (cpc = "send") ~> (cpc # "send")

=============================================================================
