------------------------------- MODULE DBus ---------------------------------
(***************************************************************************)
(* DBus (src/handler/dbus.cpp): messages through the session bus.  Several *)
(* reading processes may ask for the name; the daemon keeps those that     *)
(* asked in a queue whose head owns it.  write() puts a message into the   *)
(* outgoing queue of the connection and writes what the socket takes at    *)
(* that moment; the rest stays until the next write() or the flush of      *)
(* close().  The daemon hands each message to whoever owns the name then,  *)
(* and drops it when nobody does.  A reading process takes what arrived    *)
(* into the incoming queue of its connection in await_data(), and pops it  *)
(* from there in read().                                                   *)
(***************************************************************************)
EXTENDS DataObjects, FiniteSets

CONSTANTS
  BUFFER_SIZE,  \* in cells
  BusObjects,   \* the objects the writing processes may send
  Servers,      \* the reading processes
  Clients,      \* the writing processes
  SOCKET_SIZE,  \* messages in the socket between a writing process and the daemon
  MAX_LAST_ID,  \* bound on last_id_ of each writing process
  MAX_FOREIGN   \* bound on the number of calls by strangers

ASSUME DBusAssumption ==
  /\ BUFFER_SIZE \in Nat /\ BusObjects \subseteq DataObject
  /\ SOCKET_SIZE \in Nat \ {0} /\ MAX_LAST_ID \in Nat /\ MAX_FOREIGN \in Nat

\* What write() made of the n-th object of a writing process, the signal of
\* the daemon that says who owns a name, and a call of another program.
Call(c, n, id, obj) ==
  [kind |-> "call", from |-> c, n |-> n, id |-> id, type |-> obj.type, cells |-> Serialize(obj)]
Signal  == [kind |-> "signal"]
BadCall == [kind |-> "bad"]

VARIABLES
  names,     \* daemon: who asked for the name, the owner first
  inbox,     \* per reading process: what the daemon sent and it did not fetch
  incoming,  \* per reading process: the incoming queue of con_
  spc,       \* per reading process: "new", "release", "await", "read", "dead", "gone"
  cpc,       \* per writing process: "new", "idle", "flush", "gone"
  outgoing,  \* per writing process: the outgoing queue of con_
  socket,    \* per writing process: what the daemon did not fetch
  last_ids,  \* per writing process: last_id_
  foreign,   \* how many calls strangers made
  written,   \* history: per writing process, what write() returned true for
  reads      \* history: per reading process, what read() returned, and of which call

svars   == <<names, inbox, incoming, spc, reads>>
cvars   == <<cpc, outgoing, last_ids, written>>
busVars == <<svars, cvars, socket, foreign>>

SentMessage == [id : Nat, obj : DataObject]
Members(s) == {s[k] : k \in DOMAIN s}

BusTypeOK ==
  /\ Members(names) \subseteq Servers /\ Len(names) = Cardinality(Members(names))
  /\ spc \in [Servers -> {"new", "release", "await", "read", "dead", "gone"}]
  /\ \A s \in Servers : spc[s] \in {"await", "read"} => names # << >> /\ Head(names) = s
  /\ cpc \in [Clients -> {"new", "idle", "flush", "gone"}]
  /\ \A c \in Clients : Len(socket[c]) <= SOCKET_SIZE
  /\ last_ids \in [Clients -> 0..MAX_LAST_ID]
  /\ foreign \in 0..MAX_FOREIGN
  /\ written \in [Clients -> Seq(SentMessage)]

BusInit ==
  /\ names = << >>
  /\ inbox = [s \in Servers |-> << >>] /\ incoming = [s \in Servers |-> << >>]
  /\ spc = [s \in Servers |-> "new"] /\ cpc = [c \in Clients |-> "new"]
  /\ outgoing = [c \in Clients |-> << >>] /\ socket = [c \in Clients |-> << >>]
  /\ last_ids = [c \in Clients |-> 0]
  /\ foreign = 0
  /\ written = [c \in Clients |-> << >>] /\ reads = [s \in Servers |-> << >>]

-----------------------------------------------------------------------------
(* The writing process *)

ClientStep(c, from, to) ==
  /\ cpc[c] = from /\ cpc' = [cpc EXCEPT ![c] = to]
  /\ UNCHANGED <<svars, foreign>>

\* create_client(), with a connection or without one
ClientOpen(c) ==
  /\ ClientStep(c, "new", "idle") \/ ClientStep(c, "new", "gone")
  /\ UNCHANGED <<outgoing, socket, last_ids, written>>

\* The socket takes the first messages of queue q, as many as it has room for.
Transmit(c, q) ==
  \E k \in 0..Len(q) :
    /\ Len(socket[c]) + k <= SOCKET_SIZE
    /\ socket' = [socket EXCEPT ![c] = @ \o SubSeq(q, 1, k)]
    /\ outgoing' = [outgoing EXCEPT ![c] = SubSeq(q, k + 1, Len(q))]

\* Mutant: the queue of an earlier write() is overtaken.
WriteOvertaking(c, obj) ==
  /\ ClientStep(c, "idle", "idle")
  /\ Fits(obj, BUFFER_SIZE)
  /\ last_ids[c] < MAX_LAST_ID /\ last_ids' = [last_ids EXCEPT ![c] = @ + 1]
  /\ written' = [written EXCEPT ![c] = Append(@, [id |-> last_ids'[c], obj |-> obj])]
  /\ Transmit(c, <<Call(c, Len(written'[c]), last_ids'[c], obj)>> \o outgoing[c])

\* bool DBus::write(const IDataObject &obj)
Write(c, obj) ==
  /\ ClientStep(c, "idle", "idle")
  /\ Fits(obj, BUFFER_SIZE)
  /\ last_ids[c] < MAX_LAST_ID /\ last_ids' = [last_ids EXCEPT ![c] = @ + 1]
  /\ written' = [written EXCEPT ![c] = Append(@, [id |-> last_ids'[c], obj |-> obj])]
  /\ Transmit(c, Append(outgoing[c], Call(c, Len(written'[c]), last_ids'[c], obj)))

\* The object is too long.  No memory for the message ends write() as early.
WriteTooLong(c, obj) ==
  /\ ClientStep(c, "idle", "idle")
  /\ ~Fits(obj, BUFFER_SIZE)
  /\ UNCHANGED <<outgoing, socket, last_ids, written>>

\* No memory for an argument: the id is used up.
WriteOutOfMemory(c, obj) ==
  /\ ClientStep(c, "idle", "idle")
  /\ Fits(obj, BUFFER_SIZE)
  /\ last_ids[c] < MAX_LAST_ID /\ last_ids' = [last_ids EXCEPT ![c] = @ + 1]
  /\ UNCHANGED <<outgoing, socket, written>>

\* close(): dbus_connection_flush() writes until nothing is left, and waits for
\* room in the socket.
ClientClose(c) == ClientStep(c, "idle", "flush") /\ UNCHANGED <<outgoing, socket, last_ids, written>>

CloseFlush(c) ==
  /\ IF outgoing[c] = << >> THEN ClientStep(c, "flush", "gone") /\ UNCHANGED <<outgoing, socket>>
     ELSE ClientStep(c, "flush", "flush") /\ Transmit(c, outgoing[c])
  /\ UNCHANGED <<last_ids, written>>

\* The process is killed.  What it wrote into the socket still arrives.
ClientKilled(c) ==
  /\ \E pc \in {"idle", "flush"} : ClientStep(c, pc, "gone")
  /\ outgoing' = [outgoing EXCEPT ![c] = << >>]
  /\ UNCHANGED <<socket, last_ids, written>>

-----------------------------------------------------------------------------
(* The daemon *)

Deliver(m) ==
  inbox' = IF names = << >> THEN inbox ELSE [inbox EXCEPT ![Head(names)] = Append(@, m)]

\* A message goes to the owner of the name.  The sender asked for no reply.
Route(c) ==
  /\ socket[c] # << >>
  /\ socket' = [socket EXCEPT ![c] = Tail(@)]
  /\ Deliver(Head(socket[c]))
  /\ UNCHANGED <<names, incoming, spc, reads, cvars, foreign>>

Stranger ==
  /\ foreign < MAX_FOREIGN /\ foreign' = foreign + 1
  /\ names # << >> /\ Deliver(BadCall)
  /\ UNCHANGED <<names, incoming, spc, reads, cvars, socket>>

-----------------------------------------------------------------------------
(* open() and close() of a reading process *)

ServerStep(s, from, to) ==
  /\ spc[s] = from /\ spc' = [spc EXCEPT ![s] = to]
  /\ UNCHANGED <<cvars, socket, foreign>>

\* No connection: close() has nothing to do.
ServerConnectFails(s) == ServerStep(s, "new", "gone") /\ UNCHANGED <<names, inbox, incoming, reads>>

\* DBUS_REQUEST_NAME_REPLY_PRIMARY_OWNER.  The daemon has told the process its
\* unique name, and that it owns the name it asked for.
ServerOpen(s) ==
  /\ names = << >> /\ ServerStep(s, "new", "await")
  /\ names' = <<s>>
  /\ inbox' = [inbox EXCEPT ![s] = <<Signal>>]
  /\ incoming' = [incoming EXCEPT ![s] = <<Signal>>]
  /\ UNCHANGED reads

\* Mutant: any answer of the daemon will do.
ServerInQueueOpen(s) ==
  /\ names # << >> /\ ServerStep(s, "new", "await")
  /\ names' = Append(names, s)
  /\ incoming' = [incoming EXCEPT ![s] = <<Signal>>]
  /\ UNCHANGED <<inbox, reads>>

\* Nobody who owns the name allows replacement: DBUS_REQUEST_NAME_REPLY_IN_QUEUE,
\* and open() is going to return false.
ServerInQueue(s) ==
  /\ names # << >> /\ ServerStep(s, "new", "release")
  /\ names' = Append(names, s)
  /\ incoming' = [incoming EXCEPT ![s] = <<Signal>>]
  /\ UNCHANGED <<inbox, reads>>

\* Reading process s leaves the queue for the name; the next one is told when it
\* is its owner now.
Withdraw(s) ==
  \E k \in DOMAIN names :
    LET rest == [i \in 1..(Len(names) - 1) |-> names[IF i < k THEN i ELSE i + 1]] IN
    /\ names[k] = s /\ names' = rest
    /\ incoming' = [incoming EXCEPT ![s] = << >>]
    /\ inbox' = [t \in Servers |->
                   IF t = s THEN << >>
                   ELSE IF k = 1 /\ rest # << >> /\ Head(rest) = t THEN Append(inbox[t], Signal)
                   ELSE inbox[t]]
    /\ UNCHANGED reads

\* Mutant: only a handler whose open() succeeded releases the name.
ReleaseOwn(s) ==
  \/ \E pc \in {"await", "read"} : ServerStep(s, pc, "gone") /\ Withdraw(s)
  \/ ServerStep(s, "release", "gone") /\ UNCHANGED <<names, inbox, incoming, reads>>

\* close(), of an open handler or of one whose open() fails
ServerClose(s) == \E pc \in {"await", "read", "release"} : ServerStep(s, pc, "gone") /\ Withdraw(s)

\* The process is killed; the daemon finds out.
ServerKilled(s) ==
  /\ \E pc \in {"await", "read", "release"} : ServerStep(s, pc, "dead")
  /\ incoming' = [incoming EXCEPT ![s] = << >>]
  /\ UNCHANGED <<names, inbox, reads>>

DaemonNotices(s) == ServerStep(s, "dead", "gone") /\ Withdraw(s)

-----------------------------------------------------------------------------
(* await_data() and read() *)

\* dbus_connection_read_write() moves what is there, or waits until its time is
\* over, even when the incoming queue has messages.
Fetch(s, k) ==
  /\ k \in 0..Len(inbox[s]) /\ (k = 0 => inbox[s] = << >>)
  /\ incoming' = [incoming EXCEPT ![s] = @ \o SubSeq(inbox[s], 1, k)]
  /\ inbox' = [inbox EXCEPT ![s] = SubSeq(@, k + 1, Len(@))]

\* Mutant: the result is whether something arrived.
AwaitFreshMessage(s) ==
  /\ \E k \in 1..Len(inbox[s]) : Fetch(s, k)
  /\ ServerStep(s, "await", "read")
  /\ UNCHANGED <<names, reads>>

\* bool DBus::await_data(); without a message the loop calls it again
AwaitMessage(s) ==
  /\ \E k \in 0..Len(inbox[s]) : Fetch(s, k)
  /\ incoming'[s] # << >> /\ ServerStep(s, "await", "read")
  /\ UNCHANGED <<names, reads>>

\* NO_DATA_AVAILABLE: nothing to pop.
ReadNothing(s) ==
  /\ ServerStep(s, "read", "await")
  /\ incoming[s] = << >>
  /\ UNCHANGED <<names, inbox, incoming, reads>>

Pop(s) == incoming[s] # << >> /\ incoming' = [incoming EXCEPT ![s] = Tail(@)]

\* NO_DATA_AVAILABLE for something that is not our call, with other messages
\* behind it or not, and INVALID_DATA for a call with wrong arguments.
ReadIgnored(s) ==
  /\ ServerStep(s, "read", "await")
  /\ Pop(s) /\ Head(incoming[s]).kind # "call"
  /\ UNCHANGED <<names, inbox, reads>>

\* Or std::stoul finds no number in the path of the call, and what it throws ends the
\* process.
ReadThrows(s) ==
  /\ spc[s] = "read"
  /\ incoming[s] # << >> /\ Head(incoming[s]) = BadCall
  /\ ServerKilled(s)

\* The type is a part of the path, the size is that of the array.
ReadCall(s) ==
  /\ Pop(s)
  /\ LET m == Head(incoming[s])
         body == deserialize_data_object(m.type, m.cells, Len(m.cells))
     IN /\ m.kind = "call"
        /\ \/ /\ IsError(body) /\ ServerStep(s, "read", "await")
              /\ UNCHANGED reads
           \/ /\ ~IsError(body) /\ ServerStep(s, "read", "read")
              /\ reads' = [reads EXCEPT ![s] =
                                Append(@, [from |-> m.from, n |-> m.n, id |-> m.id, obj |-> body])]
  /\ UNCHANGED <<names, inbox>>

-----------------------------------------------------------------------------
ClientNext(c) ==
  \/ ClientOpen(c) \/ ClientClose(c) \/ CloseFlush(c) \/ ClientKilled(c)
  \/ \E obj \in BusObjects : Write(c, obj) \/ WriteTooLong(c, obj) \/ WriteOutOfMemory(c, obj)

ServerReads(s) == AwaitMessage(s) \/ ReadNothing(s) \/ ReadIgnored(s) \/ ReadCall(s)

ServerNext(s) ==
  \/ ServerConnectFails(s) \/ ServerOpen(s) \/ ServerInQueue(s)
  \/ ServerReads(s) \/ ReadThrows(s) \/ ServerClose(s) \/ ServerKilled(s)

BusNext ==
  \/ \E c \in Clients : ClientNext(c) \/ Route(c)
  \/ \E s \in Servers : ServerNext(s) \/ DaemonNotices(s)
  \/ Stranger

BusSpec == BusInit /\ [][BusNext]_busVars

\* The daemon and the reading loops run on, a flush writes when it can, and an
\* open() that fails goes on to its close().
FairBusSpec ==
  /\ BusSpec
  /\ \A c \in Clients : WF_busVars(Route(c)) /\ WF_busVars(CloseFlush(c))
  /\ \A s \in Servers : /\ WF_busVars(ServerReads(s)) /\ WF_busVars(DaemonNotices(s))
                        /\ WF_busVars(spc[s] = "release" /\ ServerClose(s))

-----------------------------------------------------------------------------
(* Properties *)

\* Two messages of one writing process in the order they were written, and none
\* missing between them.
Slice(s, c) ==
  \A k \in DOMAIN s : \A i \in 1..(k - 1) :
    s[i].from = c /\ s[k].from = c =>
      /\ s[i].n < s[k].n
      /\ \A n \in s[i].n..s[k].n : \E j \in i..k : s[j].from = c /\ s[j].n = n

\* What a reading process gets from a writing process is a slice of what write()
\* returned true for, whole, in order and without a gap, though the name changes
\* hands and what waits in outgoing queues may be lost with its process; and no
\* message is read by two reading processes.
BusInOrder ==
  /\ \A s \in Servers :
       /\ \A k \in DOMAIN reads[s] :
            LET m == reads[s][k] IN
            /\ m.n \in DOMAIN written[m.from]
            /\ written[m.from][m.n] = [id |-> m.id, obj |-> m.obj]
       /\ \A c \in Clients : Slice(reads[s], c)
  /\ \A s, t \in Servers : \A i \in DOMAIN reads[s], k \in DOMAIN reads[t] :
       s # t => <<reads[s][i].from, reads[s][i].n>> # <<reads[t][k].from, reads[t][k].n>>

\* A reading process that gave up its open(), or is dead, does not stay in the way:
\* the daemon takes it from the queue for the name.
NameReturns == \A s \in Servers : spc[s] \in {"release", "dead"} ~> s \notin Members(names)

Waits(q, c, n) == \E k \in DOMAIN q : q[k].kind = "call" /\ q[k].from = c /\ q[k].n = n

\* Message n of writing process c is past its write() and not with a process that
\* has stopped reading or flushing.
InTransit(c, n) ==
  \/ cpc[c] = "flush" /\ Waits(outgoing[c], c, n)
  \/ Waits(socket[c], c, n)
  \/ \E s \in Servers : /\ spc[s] \in {"await", "read"}
                        /\ Waits(inbox[s], c, n) \/ Waits(incoming[s], c, n)

\* close() of a writing process ends, and what it flushed is read or has no owner to
\* go to: it waits in no queue for ever, also not behind a signal that makes read()
\* return NO_DATA_AVAILABLE.
BusKeepsMoving ==
  /\ \A c \in Clients : cpc[c] = "flush" ~> cpc[c] = "gone"
  /\ \A c \in Clients, n \in 1..MAX_LAST_ID : InTransit(c, n) ~> ~InTransit(c, n)

=============================================================================
