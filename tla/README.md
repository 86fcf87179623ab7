# Verification of ipc-performance

ipc-performance measures how fast two processes can talk over different Linux
mechanisms. One process writes objects, the other reads them; between them is an
`ICommunicationHandler`, of which there is one implementation per mechanism. This
directory holds TLA+ models of all handlers, of the wire format and of the loops
of the program and its benchmarks, the TLC configurations that check them on small
instances, and TLAPS proofs about the wire format, the rings in memory and in a file, their
`open()` and `close()`, the sockets, the pipe, the message queue, the bus, the loops and the quantiles.

`PROJECT.json` is the index: components, runs, mutants (a plausible bug for every
checked property), the map from definitions to source lines, findings, hazards
and theorems.

## 1. Inventory

| Component | State it keeps | Operations | Interacts through |
|---|---|---|---|
| Data objects (`src/object`, `utility.cpp`) | none; write into and read from a handler's `buffer_` | `serialize`, `deserialize`, `deserialize_data_object` | called by every handler |
| `ICommunicationHandler` (`include/handler`) | - | `open`, `close`, `await_data`, `has_data`, `write`, `read` | called by `main.cpp` and the benchmarks |
| `SharedMemory` | memory with `TOTAL_AMOUNT` slots, semaphores "r" and "w"; per process `offset_`, `last_id_`, `buffer_` | all of them | shared memory, semaphores, names in `/dev/shm` |
| `SharedFile` | the same ring in a file behind a `std::fstream` | all of them | file, semaphores |
| `StreamSocket` | `sfd_`, `cfd_`, `buffer_`, `last_id_` | all of them, `accept` | connections, backlog |
| `DatagramSocket` | `sfd_`, `address_`, `buffer_`, `last_id_` | all of them | datagrams to a path or a port |
| `Fifo` | `fd_`, `buffer_`, `last_id_` | all of them | a pipe under a path |
| `MessageQueue` | `mqd_`, `buffer_`, `last_id_` | all of them | a queue under a path |
| `DBus` | `con_` with an incoming and an outgoing queue, `buffer_`, `last_id_` | all of them | the bus daemon, a name that one process owns |
| Benchmarks (`src/benchmark`) | iteration, `received_`, `misses_`, start time | `setup`, `run_server`, `run_client`, `cleanup` | one handler on each side |
| Statistics (`stats.hpp`) | samples | mean, variance, quantiles | called by benchmarks |
| Program (`main.cpp`) | `stop`, worker thread | `run_client`, `run_server`, shutdown | one handler, a key press |

What is hard in this code, and hardly reached by a test:

* two processes share a ring with nothing but two semaphores and two private
  offsets (`shared_memory.cpp`, `shared_file.cpp`);
* `await_data()` takes a semaphore token and posts it back in a second step;
* buffers and slots are reused, so that every message lies on the rest of an older one;
* a byte stream cuts messages anywhere, and a writer may end inside one;
* names outlive processes: killed servers leave memory, semaphores, pipes and queues behind;
* every call of the file handler can fail between taking a token and giving it back;
* writes block without a timeout when a ring, pipe, queue or socket is full, and shutdown joins the thread that is in one;
* an address outlives the process behind it: a writer of datagrams or of bus messages talks to whoever has it next;
* strangers send to the same address, and shorter datagrams show what an older one left in `buffer_`;
* a message that `write()` reported as sent may wait in a queue of its own process (DBus), or be dropped (UDP);
* a server that could not get its name on the bus is in the daemon's queue for it;
* the benchmark loops end by counting, and messages may be lost.

`PROJECT.json` lists each of these at its line, with the properties that would
notice it going wrong. What makes each component correct:

* handlers: what `read()` returns is what `write()` accepted, whole, once and in
  order; nothing accepted is lost while both sides live; a blocked `write()` returns
  while somebody reads; a new run starts clean;
* wire format: decoding gives back what was encoded, and never looks behind the
  stated size;
* benchmarks and program: success means a complete measurement whose statistics exist, losses are
  counted, the reading side ends where its handler lets it, and so does shutdown.

## 2. Modules

| Module | Models | State and actions |
|---|---|---|
| `DataObjects` | `src/object`, `deserialize_data_object`, the error codes | operators only; a buffer is a function from indices to cells, one cell is a 32-bit word |
| `Channel` | what the interface promises: a bounded first-in-first-out channel | abstract specification, `Write` and `Read` |
| `SharedMemory` | data path of `SharedMemory` | one step per `sem_wait`, `sem_post` and copied cell; `WriterRestart` replaces the writing process |
| `SharedMemoryOpen` | `open()` and `close()` of `SharedMemory` and `SharedFile` | one step per system call on the three names; killed servers; the tokens that the server's loop and a client move, and those that a client loses |
| `SharedFile` | data path of `SharedFile` | as `SharedMemory`, with the stream's buffer, the end of the file and failing calls |
| `StreamSocket` | `StreamSocket`, and the `accept()` in `run_server` | connections as sequences of cells that `Send` and the `Recv` actions cut anywhere; writing and reading processes one after the other, each ending anywhere |
| `DatagramSocket` | `DatagramSocket` | a queue of datagrams in the socket that has the address; `Send`, `SendLost`, `SendRefused`, `Stranger`; servers that leave their path behind |
| `DBus` | `DBus` | outgoing queue, socket, inbox and incoming queue of each connection; the daemon routes, and keeps the queue for the name |
| `Fifo` | `Fifo` | pipes that outlive their path; both ends open, close, are killed |
| `MessageQueue` | `MessageQueue` | queues that outlive path and processes |
| `Benchmarks` | `run_client` and `run_server` of the four benchmarks and of `main.cpp`, the stop flag | loops over an abstract handler, plain, lossy or connected, each call of which may also fail |
| `Statistics` | the index arithmetic of `quantile()` | operators only, in eighths, so that all numbers are integers |
| `MC...` | the object sets of the instances | |
| `DataObjectsProofs` | lemmas about the wire format and about cutting streams of cells into messages, for the other proofs | |
| `SharedMemoryProofs` | theorems about `SharedMemory` and `SharedMemoryOpen` | |
| `QueueProofs` | theorems about `MessageQueue` and `DBus`, whose messages wait in a queue that the kernel or the daemon keeps | |
| `SharedFileProofs`, `StreamSocketProofs`, `FifoProofs`, `DatagramSocketProofs`, `BenchmarksProofs` | theorems about the module of that name; the last also about `Statistics` | |

Names follow the source: `last_id`, `woffset`/`roffset` for the two `offset_`,
`reader`/`writer` for the semaphores, `has_data`, `deserialize_data_object`. `wpc` and
`rpc` (`cpc` and `spc`) say where the two processes stand. `sent` and `received` are histories that only the properties read.
Where one proof module is about two components, the second of them has names of its own for what both have: `OpenInit`,
`OpenTypeOK`, `ServerReadAcquire` and `TOTAL_SLOTS` (`TOTAL_AMOUNT`) in `SharedMemoryOpen`; `BusInit`, `BusInOrder`,
`ReadNothing`, `last_ids` (`last_id_` of each process), `written` and `reads` (the histories) in `DBus`.

The reading process is always the loop of `run_server` in `main.cpp`: `await_data()`,
then `read()` until an error, then again. The writing process calls `write()` with any
object of the instance, at any time.

What is abstracted: a name, a character or a chunk of data is one number; the
16-byte header is a record (the sockets and the pipe, where it can be cut or be overwritten, have it as three cells);
the timestamp, logging and printing are left out; a `memcpy` copies cell by cell,
which is finer than the code's visible effects. The kernel objects (semaphores,
pipes, queues, sockets, names), libdbus and the bus daemon are modelled from how the code uses them and marked
external in the map. One reading process has an address at a time; only on the bus, where
the daemon arbitrates, do two compete for it.

Facts of the mechanisms that the models show and the handlers cannot
prevent: what a writer puts into a pipe that nobody else has open is lost when it exits, and a writer
that holds a pipe or queue that its reader has left blocks for ever once it is full.
The properties are stated for the pipe or queue that the reader has open. A datagram of a stranger
whose length does not match its header ends the reading process (its `assert`), and a client that keeps a
truncated `SharedFile` open writes into the file of the next server. A benchmark whose reader waits for a message that was lost, or that a writer
did not write because it was killed or its `write()` failed, waits for ever unless the handler tells it that the
connection is closed; `ReadingEnds` leaves out just these cases, and `ShutdownEnds` the writer stuck in a full pipe or queue (`StuckInWrite`).

## 3. Runs

| Run | Question | States (about) |
|---|---|---|
| `ring` | Does the ring keep messages whole, in order and complete, with every interleaving of the copies and semaphore operations? Does a waiting `write()` get its slot? Does the ring implement `Channel`? | 53 000 |
| `ring_new_writer` | (violation) Does the reader still read what the new writer wrote? | - |
| `ring_open` | Every interleaving of the system calls of `open()`/`close()`, of killed servers and of a client that may die with a token: shared objects and sized memory for a client of an open server, every token accounted for, a slot for every client | 1 790 000 |
| `ring_open_restart` | (violation) Does every client whose `open()` returned true have memory of the right size? | - |
| `file` | The same ring in a file with failing calls: tokens and offsets in step, every message read, and `Channel` | 35 000 |
| `file_flush` | (violation) Is a failed `flush()` noticed? | - |
| `stream` | Any cut of the byte stream, writers that end inside a message, servers that stop with connections open: order, draining before `accept()`, progress | 39 000 |
| `fifo` | Two reads per message, killed readers and writers: asserts, order, progress | 66 000 |
| `queue` | Leftover queues, late writers, full queues: clean start, order, progress | 353 000 |
| `datagram` | Unix and UDP, full and missing sockets, restarts, foreign datagrams: whole, once, in order, without a gap where nothing may be lost; nothing decoded from behind a body; progress | 62 000 |
| `dbus` | Two readers and one name, messages that wait in the writer, foreign messages: only the owner reads, unbroken slices, the name comes back, progress | 98 000 |
| `bench` | Five kinds of loop over three sorts of handler, with failing calls: completeness, counted losses, quantiles, termination, shutdown | 72 000 |

### Bounds

`MAX_...` constants cap what the code leaves to 32-bit counters or to the operator:
ids, writing processes, pipes, queues, restarts, faults, created objects. They are
guards of the actions that count. The instances are chosen so that the cases that
matter happen:

* two slots and four messages: the ring fills, blocks, wraps and every slot is used again;
* a body of a few cells with objects that are empty, shorter, and too long: a short message
  lies on the rest of a longer one, and `write()` refuses one;
* a socket that holds less than the longest message, a pipe and a queue that hold one or two: `write()` blocks in the middle;
* two connections, two writers, two pipes, two runs of the reader: an old peer, a current one and one
  that arrives between two system calls of `open()`; a backlog of one means that one connection is served while the other waits;
* one foreign datagram, shorter, longer or other than its header says, before, between or behind own ones; one foreign call on the bus;
* a bus socket that holds one of three messages: the others wait in the outgoing queue;
* two faults: one while another has left something in the stream;
* three objects under each name and two slots: a server, one that is killed half way and its successor, and a client that loses one token or both;
* four iterations with a channel of two: the channel fills, and a gap can be at the start, in the middle or at the end.

`last_id_` wraps after 2^32 messages; no handler compares ids, so the wrap changes no control
flow there, and the real world benchmark ends long before.

### Fairness

The reading loop calls again whatever the last call returned, so the actions of the reading
process are weakly fair together. A `sem_wait`, `write`, `send` or `mq_send` that can go
on returns in the end, so the steps inside `write()` are weakly fair. On the bus so are the daemon's steps, a flush that
has room, and the `close()` inside an `open()` that fails. The loops of `Benchmarks` are weakly fair as a whole, without the
failures of calls that could also succeed or wait (`ClientLoop`, `ServerLoop`), and `ReadMessage` is strongly fair: a `read()` that is called again and
again does not fail for ever. Nothing else is fair: no process has to start a
`write()`, open, close, exit, be killed or be interrupted, and no call has to fail. The stream
model makes no promise that a piece is longer than one cell.

`CHECK_DEADLOCK FALSE` is set where the system really may stop: the processes of all runs but `ring` and `file`
may have ended.

## 4. Proofs

A theorem without a hypothesis holds for every value of the constants that the named assumption admits.

### The ring in shared memory

For every number of slots, size of a slot, set of objects and bound on ids
(`RingAssumption`, `ObjectAssumption`: a slot exists, sizes are natural numbers, the objects are objects of
the wire format), `SharedMemoryProofs` proves of `SharedMemory!Spec`:

* `TypeCorrect`, `TokensConservedAlways`, `SlotExclusionAlways`, `InOrderAlways`, `NothingLostAlways`;
* `AwaitedDataIsThereAlways` (a `read()` after a successful `await_data()` finds data) and
  `WriteIsHonestAlways` (`write()` returns true only for the message it published);
* `NoTokenInventedAlways`, of the specification with restarts;
* `Refinement`: the ring implements `Channel`.

None of the invariants is inductive. Order depends on what is in the slots; the slots
are right because writer and reader never work on the same one; that
depends on the semaphores, and these say something about slots only through the distance of the two offsets.
`IInv` puts this together:

* `Counts` - the number of pending messages is what semaphore "r" and the reader hold, the rest of
  the slots is what "w" and the writer hold, and the writer's offset is that many places
  ahead of the reader's;
* `RingContents` - the slots in that distance hold the pending messages, and the slot being written a prefix of the writer's buffer;
* `WriteBuffer`, `ReadBuffer` - the private buffers hold the message being
  written, and the copied part of the slot being read.

`NextIInv` has a lemma per action that moves a message (`SerializeStep`, `WriteCopyStep`,
`WritePublishStep`, `ReadCopyStep`, `ReadReleaseStep`, `ReadDecodeStep`) and two for
the groups that move tokens only (`TokenStep`) or nothing (`QuietStep`). The refinement maps
a message to received when its slot is given back.

`DataObjectsProofs!RoundTrip` is the fact about the wire format that all handlers rest on: any
buffer that starts with an object's cells decodes to that object. `HeldObject` states it for a slot, and
`WireFacts` says where the cells of a message are when header and body are one run. For the handlers
that read a message in pieces, `CutAt` and `Carries` say that a run of cells is the wire forms of given messages, one behind
the other; `CutGrows`, `CutMessage`, `CutJoins`, `CutNext` and `CutFront` say what writing and reading make of that.

### The ring in a file

`SharedFileProofs` proves in two layers, for every number and size of slots and every number of failed calls
(`FileAssumption`). Whatever fails, also `flush()`:

* `FileTypeCorrect`, `InStepAlways`: no failed call loses a token or moves one `offset_` without the other;
* by `FileInv`, which adds to these that every slot, every buffered write of the stream and `buffer_` hold a
  whole message or nothing that deserializes. So `read()` never returns a mixture.

Which message it returns is right only under `FlushWorks` (`"flush"` is not in the constant `Faults`), for the
reason that the run `file_flush` shows. With it, and with any of the other calls failing, `DeliveryInv` holds: the pending messages are
in the slots between the two offsets. From it follow `InOrderAlways`, `NothingLostAlways` and `Refinement`, which is
the same claim as for the ring in memory: the file implements `Channel`.

### open() and close()

`SharedMemoryProofs` proves of `OpenSpec` `OpenTypeCorrect`, `PairedShareObjectsAlways` and `TokensAccountedAlways`
for both kinds of ring, any number of slots and any number of runs (`OpenAssumption`).
`OpenInv` follows the three names through every system call: a name leads to its newest object or to nothing
(`Latest`), a serving process owns its names (`ServerHolds`), and whoever has the newest "r" has the "w"
created after it (`Generation`), because the server removes both before it creates one. Without that last part
`TokensAccounted` is not inductive: a client could post the tokens of an old ring into a new one. `Losses` says that a semaphore that
is still to be created has lost nothing.

`TokensAccounted` is an equation: slots free, filled, in somebody's hands and lost make up the ring. How many are lost is not bounded,
neither in the model nor in the code: each client killed between `sem_wait` and `sem_post` takes one, and a client that opened in the middle of a
restart, with the old "r" and the new "w", takes one with every `write()`. The liveness property `SlotComesBack` is therefore stated for a
ring that has a token left.

`PairedShareObjects` includes that the memory is sized, and speaks of clients that open after the server's `open()` returned. For the others it does not
hold: the run `ring_open_restart` shows it.

### The stream socket

A socket has no message boundaries, and no cell of the stream says where one is. `StreamSocketProofs` proves, for every size of
`buffer_`, socket and backlog and any number of processes (`StreamAssumption`):

* `StreamTypeCorrect`: no header, however it was cut, makes `read()` write behind `buffer_`;
* `StreamInOrder`, and `StreamDrained` (`accept()` drops nothing that was not read).

`InOrder` says nothing about cells, so `StreamInv` has for every connection of the server (`Unread`) that what `read()` has
taken of a message, followed by what is in the socket, is cut (`CutAt`, with the ends of the messages) into the wire forms of
exactly the messages that were sent and not read, and a `Partial` one: the beginning of a message that `write()`
accepted. While `send()` is at work the rest of that message is in `outbox`. Then

* a `recv()` moves cells from one side of the concatenation to the other (`MovedCells`), and changes nothing;
* `send()` lengthens the partial message (`CutGrows`), and its last piece makes it a message (`CutMessage`);
* the third cell in front is the size of a message that was sent, and says whether all of it is there
  (`InFront`): when `read()` has that many cells, they are the next message (`Decoded`, `CutNext`), and at the end
  of the stream less than that means that all messages were read (`RecvEndStep`). This is why dropping the
  connection is safe.

### The pipe

`FifoProofs` proves `FifoTypes` and `FifoOrder` for every capacity, size of a message and number of pipes and processes
(`FifoAssumption`). `read()` takes a header and a body with two system calls, and trusts each to give everything it asks for.
What keeps that right is not in either call. `PipeInv` says of every pipe ever made that what was read from it is a prefix of
what was written into it, and `Unread` of the one that the reading process has (or is about to open, `Live`) that its cells,
behind the header that the loop may hold, are cut into exactly the messages that were written and not read. A
reading process that is killed in its body leaves a pipe for which that is false; the proof shows that no process gets that pipe:
every run of `open()` removes the path and makes another, and `Live` is about that one only.

### The message queue

`QueueProofs` proves `QueueTypeCorrect`, `QueueInOrder`, `FreshStartAlways` and `LateWriterIsHeardAlways`
for every size of queue and message and any number of processes (`QueueAssumption`). A queue outlives its processes and its path, so
`QueueInv` keeps an `Account` of each queue ever made: it holds what was sent to it and not yet received.
`SameRun` says where the path leads from the `mq_unlink` of a reading process on: to nothing, or to a queue whose messages are all
of this run, which is also the queue of each writing process that opened since. `QueueInOrder` includes that the assertion of `read()` never fails.

### The bus

`QueueProofs` proves `DBusTypes` and `DBusOrder` of `BusSpec` for any number of reading and writing processes
(`DBusAssumption`). `DBusTypes` has the arbitration: who is in its reading loop is the head of the queue for the name, in which
no process is twice. For order, a message crosses the outgoing queue, the socket, the daemon, the inbox and the incoming queue, and each can lose
its content with a process. The invariant `DBusInv` takes these as two sequences, `Ahead(c)` (in front of the daemon) and `Due(s)` (behind it),
which what moves inside one side (`Transmit`, `Fetch`) leaves as they are. `Flow(c)` relates the numbers in them and in
the history of each reading process:

* `GoodLane`, `GoodRead` - what is ahead of the daemon is as it was written, rising, without a gap and up to the newest while
  the process lives; what was read is as it was written, without a gap, and older than all that is ahead;
* `GoodLine` - for the process that owns the name, what it has read, what is due and what is ahead follow each other without a gap.
  It is claimed of a process in its reading loop (`Alive`) only: the daemon gives messages to the owner, a process that
  lost the name never reads again, and one that gets it now has read nothing (`NamesInv`).

Lemmas on sets of numbers and on queues (`NumbersAppend`, `NumbersTail`, `GaplessJoin`, `LaneWrites`, `LaneRoutes`, `LineGets`,
`LineReads`) carry the argument without a state; one lemma per action applies them.

### The datagram socket

`DatagramSocketProofs` is about a handler whose `buffer_` also holds what strangers sent, for
every size of buffer and queue, set of objects and set of foreign datagrams (`DatagramAssumption`):

* `DatagramTypeCorrect`; with it, that over unix sockets the open socket is the one that has the path;
* `RoundTripAlways`: a datagram of a writing process decodes to the object it was written for, whatever lay in `buffer_` before;
* `OnlyStrangersAbort`: the assertion of `read()` fails in no run without a foreign datagram;
* `DecodedFromBodyAlways`: no content of a datagram makes `deserialize_data_object` use a cell behind the
  stated size, and what it accepts serializes to the same cells.

The invariant `DatagramInv` adds to the types that a datagram in the queue that is not a stranger's is the
`Wire` form of an object that fits, that one taken last decodes to it, and that a socket with an
address has a reading process.

Over UDP datagrams may get lost, and foreign ones lie between own ones, so order needs more:
`OrderInv` says that a datagram waits in the socket or was returned and never both, that those waiting come after those returned
and in order (`SocketInv`), and that over a unix socket everything that a writing process sent after a datagram that arrived has arrived too
(`Arrived`), which is why there is no gap. From it follows `DatagramInOrder`.

### Loops and quantiles

`BenchmarksProofs!QuartersInterpolate`: for any number of samples the quartiles come from two neighbours
inside the vector. `BenchmarksProofs` proves, for every number of iterations, size of the handler and number
of retries (`BenchmarkAssumption`), `LoopTypeCorrect`, `SuccessIsCompleteAlways`, `MissesAreLossesAlways` and
`QuantilesInRangeAlways`. What a run reports depends on the messages that are still under way, so `LoopInv` says of these:

* `Between` - they are in order, newer than what was read and older than what is written next;
* `Unbroken` - without losses they are everything between the two, until a `read()` that fails ends the run;
* `Counted`, `AtItsPlace` - the counters say how many messages were read or skipped, and a loop that ended
  has them at its limit; the throughput benchmark has its start time from the second message on.

### What is only model-checked

The liveness properties: `KeepsMoving` of each handler and `BusKeepsMoving`, `NameReturns`, `SlotComesBack`, `EveryMessageRead`,
`ReadingEnds` and `ShutdownEnds` (fairness and `ENABLED` are out of the prover's reach), and the three
violations. Every invariant that a passing run checks is a theorem, and so is `ImplementsChannel`, for the ring in memory and
for the one in the file under the hypothesis `FlushWorks`, that the instance of `file` satisfies.

## 5. Findings

* `ring_new_writer`: a replaced writer starts at `offset_` 0 while the reader goes on where it
  was. `write()` returns true for messages that are not read in their place.
* `file_flush`: the result of `flush()` is not looked at. `write()` publishes the slot and
  returns true, and the reader gets older content, of the slot or of its own buffer.
* `ring_open_restart`: the client's `mmap` does not look at the size of the memory. A server that is killed or fails between `shm_open` and
  `ftruncate` leaves an object without one, and the semaphores that the client then finds may be those of the next server, or still
  those of the one before: `open()` returns true, and `write()` has nothing to copy to.

Stated as an exception: the throughput benchmark takes its start time from the second message (`throughput.cpp:55`). With one message received `run_server`
returns true without one, and `get_total_time()`, "only valid if benchmark completed successfully" (`throughput.hpp:32`), counts from the epoch.
`SuccessIsComplete` asks for a start time from two messages on.

Seen while reading, without a property: `run_real_world` passes the literal 5 instead of its parameter
`threshold` to the benchmark (`main.cpp:281`) and prints the parameter; `add_square` of `stats.hpp:54`
takes unsigned samples as `int`; `get_throughput()` multiplies in 32 bits (`throughput.hpp:41`).

## 6. Not modelled

Every handler, the wire format and the loops of the program are modelled. Not modelled:

* durations, and with them the means and deviations of `stats.hpp`, which are floating point and decide nothing;
* the deadlines of the real world client: `misses_` on the writing side counts late messages, which depends
  on durations only, and the client sends them all the same;
* `build_address()`: formatting of an address, whose failure is part of the `open()` that fails;
* two servers that open the same path at once: each `remove()`s and unlinks what the other has made, and no
  document says what should happen;
* `open()` of a handler object that was closed before: the program opens each object once. It would keep `offset_` and
  `last_id_`, which for the ring is the case of `ring_new_writer`;
* printing, logging, argument parsing, reading the trace file, evaluation scripts, build files.
