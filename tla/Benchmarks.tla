----------------------------- MODULE Benchmarks -----------------------------
(***************************************************************************)
(* The loops of the program: run_client in one process and run_server in   *)
(* the other, over a handler that is a bounded channel.  Four kinds are    *)
(* the benchmarks (src/benchmark), which differ in how they count and when *)
(* they give up.  The fifth, "normal", is the endless pair of loops in     *)
(* src/main.cpp, which a main thread stops when a key is pressed.  A       *)
(* handler may lose messages (UDP), and may report that the other side has *)
(* closed (stream sockets); the others go on waiting.                      *)
(*                                                                         *)
(* A message is its id, 1 for the first write() of the process; the        *)
(* timestamp in its header grows with the id and is represented by it.     *)
(* How long calls take, and the deadlines of the real world client, are    *)
(* left out.  setup() succeeded; cleanup() and close() follow the loop at  *)
(* once and are part of its last step.                                     *)
(***************************************************************************)
EXTENDS Naturals, Sequences, Statistics

CONSTANTS
  Kinds,        \* the kinds of program to run
  ITERATIONS,   \* bound on iterations_, the number of data points or messages
  CAPACITY,     \* messages that the handler holds
  MAX_RETRIES   \* max_retries of the throughput benchmark (2 in the code)

ASSUME BenchmarkAssumption ==
  /\ Kinds \subseteq {"normal", "latency", "execution", "throughput", "realworld"}
  /\ ITERATIONS \in Nat \ {0} /\ CAPACITY \in Nat \ {0} /\ MAX_RETRIES \in Nat

VARIABLES
  kind,        \* the kind of program
  handler,     \* over which sort of handler
  iterations,  \* iterations_ (for "normal" a bound on the messages)
  channel,     \* the messages in the handler
  stop,        \* the sides whose main thread has set stop
  cpc,         \* run_client: "run", in a call of "write", or how it ended
  i,           \* its loop variable
  spc,         \* run_server: in a call of "await" or "read", or how it ended
  connected,   \* the server has not yet dropped the client's connection
  retry,       \* timeouts of await_data() in this iteration
  count,       \* i - 1 (latency, execution), received_ (throughput), i (realworld)
  misses,      \* misses_ of the real world benchmark
  start_time,  \* start_time_ of the throughput benchmark
  taken        \* history: the messages that read() returned

setup == <<kind, handler, iterations>>
cvars == <<cpc, i>>
svars == <<spc, connected, retry, count, misses, start_time, taken>>
vars  == <<setup, channel, stop, cvars, svars>>

\* A handler that neither loses messages nor notices the end of the other side,
\* one that may lose a message that write() accepted, and one whose read()
\* returns CONNECTION_CLOSED when the writing process is gone.
Handlers == {"plain", "lossy", "connected"}

Lossy == handler = "lossy"
ReportsEnd == handler = "connected"

Results   == {"success", "failure"}
Ended     == Results \cup {"stopped", "killed"}
Benchmark == kind # "normal"

ClientGone == cpc \in Ended
ServerGone == spc \in Ended

TypeOK ==
  /\ kind \in Kinds /\ handler \in Handlers /\ iterations \in 1..ITERATIONS
  /\ channel \in Seq(1..iterations) /\ Len(channel) <= CAPACITY
  /\ stop \subseteq {"client", "server"}
  /\ cpc \in {"run", "write"} \cup Ended
  /\ i \in 1..(iterations + 1)
  /\ spc \in {"await", "read"} \cup Ended
  /\ connected \in BOOLEAN
  /\ retry \in 0..(MAX_RETRIES + 1)
  /\ count \in 0..iterations /\ misses \in 0..iterations
  /\ start_time \in 0..iterations
  /\ taken \in Seq(1..iterations)

Init ==
  /\ kind \in Kinds /\ handler \in Handlers /\ iterations \in 1..ITERATIONS
  /\ channel = << >> /\ stop = {}
  /\ cpc = "run" /\ i = 1
  /\ spc = "await" /\ connected = TRUE
  /\ retry = 0 /\ count = 0 /\ misses = 0 /\ start_time = 0
  /\ taken = << >>

-----------------------------------------------------------------------------
(* main(), kind "normal": std::cin.get() returned, stop = true.  The main  *)
(* thread then joins the thread of the loop.                               *)

Stop(side) ==
  /\ ~Benchmark
  /\ side \notin stop /\ stop' = stop \cup {side}
  /\ ~(side = "client" /\ ClientGone) /\ ~(side = "server" /\ ServerGone)
  /\ UNCHANGED <<setup, channel, cvars, svars>>

-----------------------------------------------------------------------------
(* run_client: write() once per iteration. *)

\* The loop goes on: i <= iterations_, or !stop.
Call ==
  /\ cpc = "run" /\ i <= iterations /\ "client" \notin stop
  /\ cpc' = "write"
  /\ UNCHANGED <<setup, channel, stop, i, svars>>

\* write() returns true: when the handler has room, or has lost the message.
Write ==
  /\ cpc = "write" /\ cpc' = "run"
  /\ \/ Len(channel) < CAPACITY /\ channel' = Append(channel, i)
     \/ Lossy /\ UNCHANGED channel
  /\ i' = i + 1
  /\ UNCHANGED <<setup, stop, svars>>

\* write() of any handler returns false, for any reason: the data does not fit, a
\* call fails, nobody has the socket.  That ends a benchmark and is only reported by
\* the loop in main.cpp; the id of the message may be used up.
WriteFails ==
  /\ cpc = "write"
  /\ \/ Benchmark /\ cpc' = "failure" /\ UNCHANGED i
     \/ ~Benchmark /\ cpc' = "run" /\ i' \in {i, i + 1}
  /\ UNCHANGED <<setup, channel, stop, svars>>

\* The loop is over.
ClientReturns ==
  /\ cpc = "run"
  /\ \/ Benchmark /\ i > iterations /\ cpc' = "success"
     \/ "client" \in stop /\ cpc' = "stopped"
  /\ UNCHANGED <<setup, channel, stop, i, svars>>

\* The process is killed in the middle.
ClientKilled ==
  /\ ~ClientGone
  /\ cpc' = "killed"
  /\ UNCHANGED <<setup, channel, stop, i, svars>>

\* A write() that cannot go on: the other side has closed its socket, and send()
\* ends the process with SIGPIPE or write() returns false.
WriteToClosed == cpc = "write" /\ ReportsEnd /\ ServerGone /\ (WriteFails \/ ClientKilled)

-----------------------------------------------------------------------------
(* run_server *)

\* Mutant: the loop ends one message early.
EnoughEarly(n) == n + 1 >= iterations

\* The loop condition of the benchmarks: i <= iterations_, received_ <
\* iterations_, i < data_.size()
Enough(n) == Benchmark /\ n >= iterations

\* Mutant: the endless loop does not look at stop.
LoopForEver(next) == next

\* The loop in main.cpp looks at stop after every call but a successful
\* await_data().
Loop(next) == IF "server" \in stop THEN "stopped" ELSE next

\* The end of the stream has been reached.
AtEnd == ReportsEnd /\ ClientGone /\ connected /\ channel = << >>

\* await_data() returns true.
AwaitData ==
  /\ spc = "await"
  /\ channel # << >> \/ AtEnd
  /\ spc' = "read" /\ retry' = 0
  /\ UNCHANGED <<setup, channel, stop, cvars, connected, count, misses, start_time, taken>>

\* Mutant: retry starts again with every timeout.
AwaitTimeoutForgetting ==
  /\ spc = "await"
  /\ channel = << >> /\ ~AtEnd
  /\ retry' = 1 /\ spc' = Loop("await")
  /\ UNCHANGED <<setup, channel, stop, cvars, connected, count, misses, start_time, taken>>

\* await_data() returns false.  Only the throughput benchmark gives up, once it
\* has received something; for the others the number of timeouts is no matter.
AwaitTimeout ==
  LET gives_up == kind = "throughput" /\ count > 0 /\ retry + 1 > MAX_RETRIES IN
  /\ spc = "await"
  /\ channel = << >> /\ ~AtEnd
  /\ retry' = IF retry > MAX_RETRIES THEN retry ELSE retry + 1
  /\ spc' = IF gives_up THEN "success" ELSE Loop("await")
  /\ UNCHANGED <<setup, channel, stop, cvars, connected, count, misses, start_time, taken>>

\* Mutant: misses_ counts the message itself.
CountSelf(id) == misses + (id - count)

\* misses_ += header.get_id() - i - 1
CountMisses(id) == misses + (id - count - 1)

\* read() returns a message.
ReadMessage ==
  /\ spc = "read" /\ channel # << >>
  /\ LET id == Head(channel) IN
       /\ count' = IF kind = "realworld" THEN id ELSE count + 1
       /\ misses' = IF kind = "realworld" THEN CountMisses(id) ELSE misses
       /\ start_time' = IF kind = "throughput" /\ count = 1 THEN id ELSE start_time
       /\ taken' = Append(taken, id)
  /\ channel' = Tail(channel)
  /\ spc' = IF Enough(count') THEN "success" ELSE Loop("read")
  /\ UNCHANGED <<setup, stop, cvars, connected, retry>>

\* NO_DATA_AVAILABLE is not a real error.
ReadNoData ==
  /\ spc = "read" /\ channel = << >> /\ ~AtEnd
  /\ spc' = Loop("await")
  /\ UNCHANGED <<setup, channel, stop, cvars, connected, retry, count, misses, start_time, taken>>

\* CONNECTION_CLOSED ends a benchmark; the loop in main.cpp calls accept(),
\* which drops the connection and finds no other.
ReadError ==
  /\ spc = "read" /\ AtEnd
  /\ \/ Benchmark /\ spc' = "failure" /\ UNCHANGED connected
     \/ ~Benchmark /\ spc' = Loop("await") /\ connected' = FALSE
  /\ UNCHANGED <<setup, channel, stop, cvars, retry, count, misses, start_time, taken>>

\* Any other error, READ_ERROR or one of the INVALID_*, with or without a message
\* taken from the handler.  It ends a benchmark and is only reported in main.cpp.
ReadFails ==
  /\ spc = "read"
  /\ \/ UNCHANGED channel
     \/ channel # << >> /\ channel' = Tail(channel)
  /\ spc' = IF Benchmark THEN "failure" ELSE Loop("await")
  /\ UNCHANGED <<setup, stop, cvars, connected, retry, count, misses, start_time, taken>>

ServerKilled ==
  /\ ~ServerGone
  /\ spc' = "killed"
  /\ UNCHANGED <<setup, channel, stop, cvars, connected, retry, count, misses, start_time, taken>>

-----------------------------------------------------------------------------
\* What a loop does as long as no call fails without need.
ClientLoop == Call \/ Write \/ WriteToClosed \/ ClientReturns
ServerLoop == AwaitData \/ AwaitTimeout \/ ReadMessage \/ ReadNoData \/ ReadError

ClientNext == Call \/ Write \/ WriteFails \/ ClientReturns

Next ==
  \/ ClientNext \/ ServerLoop \/ ReadFails
  \/ ClientKilled \/ ServerKilled
  \/ \E side \in {"client", "server"} : Stop(side)

Spec == Init /\ [][Next]_vars

\* Both loops run on.  No call has to fail that could succeed or wait, read() does not
\* fail every time, and nobody has to kill a process or to press a key.
FairSpec == Spec /\ WF_vars(ClientLoop) /\ WF_vars(ServerLoop) /\ SF_vars(ReadMessage)

-----------------------------------------------------------------------------
(* Properties *)

GaveUp == kind = "throughput" /\ retry > MAX_RETRIES

\* run_server returns true only with every message, in order and none twice,
\* unless the handler lost some or the throughput benchmark gave up; and then with a
\* start time, if there was more than one message.  (With one there is none.)
SuccessIsComplete ==
  spc = "success" =>
    /\ ~Lossy /\ ~GaveUp => taken = [k \in 1..iterations |-> k]
    /\ kind = "throughput" /\ count > 1 => start_time # 0

\* When the real world benchmark ends, misses_ is the number of messages that
\* never came, although ids are all it sees.
MissesAreLosses ==
  kind = "realworld" /\ spc = "success" => Len(taken) + misses = iterations

\* The samples of a successful run, of either side, are enough for the
\* quantiles that run_latency and run_execution_time then compute.
QuantilesInRange ==
  \A k \in Quarters :
    /\ kind \in {"latency", "execution"} /\ spc = "success" => Interpolates(count, k)
    /\ kind = "execution" /\ cpc = "success" => Interpolates(i - 1, k)

\* Over a handler that loses nothing the reading benchmark ends, unless the writing
\* process was killed or gave up after a failed write(): then the reader waits for
\* the missing messages for ever, but for a stream socket, which tells it.
ServerEnds ==
  Benchmark ~> (ServerGone \/ Lossy \/ (cpc \in {"killed", "failure"} /\ ~ReportsEnd))

\* Once it has received a message, the throughput benchmark ends, whatever is
\* lost after it, and also when the writing process is gone.
ThroughputEnds == (kind = "throughput" /\ count > 0) ~> ServerGone

\* The real world benchmark ends when the last message of the trace arrives,
\* whatever was lost before it.
RealWorldEnds ==
  (kind = "realworld" /\ \E k \in 1..Len(channel) : channel[k] = iterations) ~> ServerGone

ReadingEnds == ServerEnds /\ ThroughputEnds /\ RealWorldEnds

\* A write() that nothing will ever end: the handler is full, the other process
\* has closed it, and the handler does not tell.
StuckInWrite ==
  cpc = "write" /\ Len(channel) = CAPACITY /\ ServerGone /\ handler = "plain"

\* After a key was pressed t.join() returns: for the reader always, for the
\* writer unless it is in a write() that waits for a reader that is gone.
ShutdownEnds ==
  /\ ("server" \in stop) ~> ServerGone
  /\ ("client" \in stop) ~> (ClientGone \/ StuckInWrite)

=============================================================================
