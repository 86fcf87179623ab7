-------------------------- MODULE BenchmarksProofs --------------------------
(***************************************************************************)
(* Theorems about the loops of the program, for every number of            *)
(* iterations, size of the handler and number of retries.                  *)
(*                                                                         *)
(* What a run reports depends on which messages are still in the handler:  *)
(* they are newer than everything read and older than what is written      *)
(* next, and without losses they are all that is between the two.          *)
(***************************************************************************)
EXTENDS Benchmarks, TLAPS

\* The messages in the handler come in order, after those that were read and
\* before the next one to write.
Between ==
  /\ count < i
  /\ \A k \in 1..Len(channel) : count < channel[k] /\ channel[k] < i
  /\ \A j, k \in 1..Len(channel) : j < k => channel[j] < channel[k]

\* A benchmark over a handler that loses nothing: no id is left out, until a read()
\* that fails ends it.
Unbroken ==
  Benchmark /\ ~Lossy /\ spc # "failure" =>
    /\ count = Len(taken) /\ \A k \in 1..Len(taken) : taken[k] = k
    /\ i = count + Len(channel) + 1
    /\ \A k \in 1..Len(channel) : channel[k] = count + k

\* What the counters say about the messages that read() returned.
Counted ==
  /\ IF kind = "realworld" THEN misses + Len(taken) = count
     ELSE misses = 0 /\ count = Len(taken)
  /\ kind = "throughput" /\ count > 1 => start_time # 0

\* Where the two loops can be with these counters.
AtItsPlace ==
  /\ cpc = "write" => i <= iterations
  /\ cpc = "success" => i = iterations + 1
  /\ spc = "success" => Benchmark /\ (GaveUp \/ count = iterations)

LoopInv == TypeOK /\ Between /\ Unbroken /\ Counted /\ AtItsPlace

\* For any number of samples but 0, one and two included, quantile() takes its
\* three quarters from two equal or neighbouring indices inside the vector, with
\* a weight between 0 and 1 when they differ: what QuantilesInRange asks of a run.
THEOREM QuartersInterpolate ==
  ASSUME NEW n \in Nat \ {0}, NEW k \in Quarters
  PROVE  Interpolates(n, k)
<1>1. k \in {1, 2, 3}
  BY DEF Quarters
<1> QED BY <1>1 DEF Interpolates, Left, Right, Weight, Poi

LEMMA InitLoopInv == Init => LoopInv
<1> SUFFICES ASSUME Init PROVE LoopInv
  OBVIOUS
<1> USE BenchmarkAssumption DEF Init
<1>1. TypeOK
  BY DEF TypeOK, Ended, Results
<1>2. Between /\ Unbroken /\ Counted /\ AtItsPlace
  BY DEF Between, Unbroken, Counted, AtItsPlace
<1> QED BY <1>1, <1>2 DEF LoopInv

\* The steps of run_client and of the main threads that leave the handler alone.
LEMMA ClientStep ==
  ASSUME LoopInv,
         Call \/ WriteFails \/ ClientReturns \/ ClientKilled
           \/ \E side \in {"client", "server"} : Stop(side)
  PROVE  LoopInv'
<1> USE BenchmarkAssumption DEF LoopInv, setup, svars, cvars
<1>1. UNCHANGED <<setup, channel, svars>> /\ i' \in {i, i + 1}
  BY DEF Call, WriteFails, ClientReturns, ClientKilled, Stop
<1>2. i' = i + 1 => cpc = "write" /\ cpc' = "run" /\ ~Benchmark
  <2>1. i \in Nat
    BY DEF TypeOK
  <2> QED BY <2>1 DEF Call, WriteFails, ClientReturns, ClientKilled, Stop
<1>3. cpc' \in {"run", "write"} \cup Ended /\ stop' \subseteq {"client", "server"}
  BY DEF TypeOK, Call, WriteFails, ClientReturns, ClientKilled, Stop, Ended, Results
<1>4. /\ cpc' = "write" => i' <= iterations
      /\ cpc' = "success" => i' = iterations + 1
  BY DEF TypeOK, AtItsPlace, Call, WriteFails, ClientReturns, ClientKilled, Stop
<1>5. TypeOK'
  BY <1>1, <1>2, <1>3 DEF TypeOK, AtItsPlace
<1>6. Between'
  BY <1>1 DEF Between, TypeOK
<1>7. Unbroken'
  BY <1>1, <1>2 DEF Unbroken, Benchmark, Lossy
<1>8. Counted' /\ AtItsPlace'
  BY <1>1, <1>4 DEF Counted, AtItsPlace, GaveUp, Benchmark
<1> QED BY <1>5, <1>6, <1>7, <1>8

\* write() returns true, with the message in the handler or lost.
LEMMA WriteStep == ASSUME LoopInv, Write PROVE LoopInv'
<1> USE BenchmarkAssumption DEF LoopInv, setup, svars
<1>1. /\ UNCHANGED <<setup, stop, svars>> /\ cpc = "write" /\ cpc' = "run" /\ i' = i + 1
      /\ \/ channel' = Append(channel, i) /\ Len(channel) < CAPACITY
         \/ Lossy /\ channel' = channel
  BY DEF Write
<1>2. /\ channel \in Seq(1..iterations) /\ Len(channel) \in Nat
      /\ i \in 1..iterations /\ count \in Nat /\ iterations \in Nat
  BY <1>1 DEF TypeOK, AtItsPlace
<1>3. Counted' /\ AtItsPlace'
  BY <1>1 DEF Counted, AtItsPlace, GaveUp, Benchmark
<1>4. CASE channel' = Append(channel, i) /\ Len(channel) < CAPACITY
  <2>1. /\ channel' \in Seq(1..iterations) /\ Len(channel') = Len(channel) + 1
        /\ Len(channel) \in Nat /\ channel'[Len(channel) + 1] = i
        /\ \A k \in 1..Len(channel) : channel'[k] = channel[k]
    BY <1>2, <1>4
  <2>2. \A k \in 1..Len(channel') : k = Len(channel) + 1 \/ k \in 1..Len(channel)
    BY <2>1
  <2>3. \A k \in 1..Len(channel) : channel[k] \in 1..iterations
    BY <1>2
  <2>4. TypeOK'
    BY <1>1, <1>2, <1>4, <2>1 DEF TypeOK
  <2>5. Between'
    <3>1. count' < i'
      BY <1>1, <1>2 DEF Between
    <3>2. \A k \in 1..Len(channel') : count' < channel'[k] /\ channel'[k] < i'
      <4> SUFFICES ASSUME NEW k \in 1..Len(channel')
                   PROVE  count' < channel'[k] /\ channel'[k] < i'
        OBVIOUS
      <4>1. CASE k = Len(channel) + 1
        BY <1>1, <1>2, <2>1, <4>1 DEF Between
      <4>2. CASE k \in 1..Len(channel)
        BY <1>1, <1>2, <2>1, <2>3, <4>2 DEF Between
      <4> QED BY <2>2, <4>1, <4>2
    <3>3. \A j, k \in 1..Len(channel') : j < k => channel'[j] < channel'[k]
      <4> SUFFICES ASSUME NEW j \in 1..Len(channel'), NEW k \in 1..Len(channel'), j < k
                   PROVE  channel'[j] < channel'[k]
        OBVIOUS
      <4>1. j \in 1..Len(channel) /\ channel'[j] = channel[j] /\ channel[j] < i
        BY <1>2, <2>1, <2>2 DEF Between
      <4>2. CASE k = Len(channel) + 1
        BY <2>1, <4>1, <4>2
      <4>3. CASE k \in 1..Len(channel)
        BY <2>1, <4>1, <4>3 DEF Between
      <4> QED BY <2>2, <4>2, <4>3
    <3> QED BY <3>1, <3>2, <3>3 DEF Between
  <2>6. Unbroken'
    <3> SUFFICES ASSUME Benchmark, ~Lossy, spc # "failure"
                 PROVE  /\ count' = Len(taken') /\ \A k \in 1..Len(taken') : taken'[k] = k
                        /\ i' = count' + Len(channel') + 1
                        /\ \A k \in 1..Len(channel') : channel'[k] = count' + k
      BY <1>1 DEF Unbroken, Benchmark, Lossy
    <3>1. count' = count /\ taken' = taken /\ i = count + Len(channel) + 1
      BY <1>1 DEF Unbroken
    <3>2. \A k \in 1..Len(channel) : channel[k] = count + k
      BY DEF Unbroken
    <3>3. \A k \in 1..Len(channel') : channel'[k] = count' + k
      <4> SUFFICES ASSUME NEW k \in 1..Len(channel') PROVE channel'[k] = count' + k
        OBVIOUS
      <4>1. CASE k = Len(channel) + 1
        BY <1>2, <2>1, <3>1, <4>1
      <4>2. CASE k \in 1..Len(channel)
        BY <2>1, <3>1, <3>2, <4>2
      <4> QED BY <2>2, <4>1, <4>2
    <3> QED BY <1>1, <1>2, <2>1, <3>1, <3>3 DEF Unbroken
  <2> QED BY <1>3, <2>4, <2>5, <2>6
<1>5. CASE Lossy /\ channel' = channel
  <2>1. TypeOK'
    BY <1>1, <1>2, <1>5 DEF TypeOK
  <2>2. \A k \in 1..Len(channel) : channel[k] \in 1..iterations
    BY <1>2
  <2>3. Between'
    BY <1>1, <1>2, <1>5, <2>2 DEF Between
  <2>4. Unbroken'
    BY <1>1, <1>5 DEF Unbroken, Benchmark, Lossy
  <2> QED BY <1>3, <2>1, <2>3, <2>4
<1> QED BY <1>1, <1>4, <1>5

\* The steps of run_server that take no message.
LEMMA ServerStep ==
  ASSUME LoopInv, AwaitData \/ AwaitTimeout \/ ReadNoData \/ ReadError \/ ServerKilled
  PROVE  LoopInv'
<1> USE BenchmarkAssumption DEF LoopInv, setup, cvars
<1>1. UNCHANGED <<setup, channel, stop, cvars, count, misses, start_time, taken>>
  BY DEF AwaitData, AwaitTimeout, ReadNoData, ReadError, ServerKilled
<1>2. /\ spc' \in {"await", "read"} \cup Ended
      /\ connected' \in BOOLEAN /\ retry' \in 0..(MAX_RETRIES + 1)
  <2>1. CASE AwaitData
    BY <2>1 DEF TypeOK, AwaitData
  <2>2. CASE AwaitTimeout
    BY <2>2 DEF TypeOK, AwaitTimeout, Loop, Ended, Results
  <2>3. CASE ReadNoData
    BY <2>3 DEF TypeOK, ReadNoData, Loop, Ended, Results
  <2>4. CASE ReadError
    BY <2>4 DEF TypeOK, ReadError, Loop, Ended, Results
  <2>5. CASE ServerKilled
    BY <2>5 DEF TypeOK, ServerKilled, Ended
  <2> QED BY <2>1, <2>2, <2>3, <2>4, <2>5
<1>3. spc' = "success" => Benchmark' /\ GaveUp'
  BY DEF TypeOK, Benchmark, AwaitData, AwaitTimeout, ReadNoData, ReadError, ServerKilled, Loop, GaveUp
<1>4. TypeOK'
  BY <1>1, <1>2 DEF TypeOK
<1>5. Between' /\ Unbroken' /\ Counted'
  <2>1. spc # "failure"
    BY DEF AwaitData, AwaitTimeout, ReadNoData, ReadError, ServerKilled, ServerGone, Ended, Results
  <2> QED BY <1>1, <2>1 DEF Between, Unbroken, Counted, Benchmark, Lossy
<1>6. AtItsPlace'
  BY <1>1, <1>3 DEF AtItsPlace
<1> QED BY <1>4, <1>5, <1>6

\* read() returns the oldest message.
LEMMA ReadStep == ASSUME LoopInv, ReadMessage PROVE LoopInv'
<1>0. PICK id : id = Head(channel)
  OBVIOUS
<1> USE BenchmarkAssumption DEF LoopInv, setup, cvars
<1>1. /\ UNCHANGED <<setup, stop, cvars, connected, retry>>
      /\ channel # << >> /\ channel' = Tail(channel) /\ taken' = Append(taken, id)
      /\ spc' = IF Enough(count') THEN "success" ELSE Loop("read")
      /\ count' = IF kind = "realworld" THEN id ELSE count + 1
      /\ misses' = IF kind = "realworld" THEN CountMisses(id) ELSE misses
      /\ start_time' \in {id, start_time}
  BY <1>0 DEF ReadMessage
<1>2. /\ channel \in Seq(1..iterations) /\ taken \in Seq(1..iterations)
      /\ i \in 1..(iterations + 1) /\ count \in Nat /\ misses \in Nat
      /\ iterations \in Nat \ {0} /\ Len(channel) \in Nat /\ Len(taken) \in Nat
  BY DEF TypeOK
<1>3. id = channel[1] /\ 1 \in 1..Len(channel) /\ id \in 1..iterations
  BY <1>0, <1>1, <1>2
<1>4. id > count /\ id < i
  BY <1>3 DEF Between
<1>5. /\ channel' \in Seq(1..iterations) /\ Len(channel') = Len(channel) - 1
      /\ \A k \in 1..Len(channel') : k + 1 \in 1..Len(channel) /\ channel'[k] = channel[k + 1]
  BY <1>1, <1>2
<1>6. /\ taken' \in Seq(1..iterations) /\ Len(taken') = Len(taken) + 1
      /\ \A k \in 1..Len(taken') :
           \/ k = Len(taken) + 1 /\ taken'[k] = id
           \/ k \in 1..Len(taken) /\ taken'[k] = taken[k]
  BY <1>1, <1>2, <1>3
<1>7. /\ count' \in Nat /\ count' <= id /\ count \in Nat /\ misses \in Nat /\ id \in Nat
      /\ Len(taken) \in Nat /\ Len(taken') = Len(taken) + 1
  BY <1>1, <1>2, <1>3, <1>4, <1>6
<1>8. kind = "throughput" => /\ count' = count + 1
                              /\ start_time' = IF count = 1 THEN id ELSE start_time
  BY <1>0 DEF ReadMessage
<1>9. Counted'
  <2>1. CASE kind = "realworld"
    <3>1. kind' = kind /\ count' = id /\ misses' = misses + (id - count - 1)
      BY <1>1, <2>1 DEF CountMisses
    <3>2. misses + Len(taken) = count
      BY <2>1 DEF Counted
    <3>3. misses' + Len(taken') = count'
      BY <1>7, <3>1, <3>2
    <3> QED BY <2>1, <3>1, <3>3 DEF Counted
  <2>2. CASE kind # "realworld"
    <3>1. misses' = 0 /\ count' = Len(taken')
      BY <1>1, <1>2, <1>6, <2>2 DEF Counted
    <3>2. kind = "throughput" /\ count' > 1 => start_time' # 0
      BY <1>2, <1>3, <1>8 DEF Counted
    <3> QED BY <1>1, <2>2, <3>1, <3>2 DEF Counted
  <2> QED BY <2>1, <2>2
<1>10. misses' \in 0..iterations
  <2>1. misses' \in Int
    BY <1>1, <1>2, <1>3 DEF CountMisses
  <2>2. CASE kind = "realworld"
    <3>1. misses' = misses + (id - count - 1) /\ misses + Len(taken) = count
      BY <1>1, <2>2 DEF CountMisses, Counted
    <3>2. misses' <= id /\ misses' >= 0
      BY <1>4, <1>7, <3>1
    <3> QED BY <1>2, <1>3, <1>7, <2>1, <3>2
  <2>3. CASE kind # "realworld"
    BY <1>1, <2>3 DEF TypeOK
  <2> QED BY <2>2, <2>3
<1>11. Between'
  <2>1. count' < i'
    BY <1>1, <1>2, <1>3, <1>4, <1>7
  <2>2. \A k \in 1..Len(channel') : count' < channel'[k] /\ channel'[k] < i'
    <3> SUFFICES ASSUME NEW k \in 1..Len(channel')
                 PROVE  count' < channel'[k] /\ channel'[k] < i'
      OBVIOUS
    <3>1. k \in Nat \ {0} /\ k + 1 \in 1..Len(channel) /\ channel'[k] = channel[k + 1]
      BY <1>5
    <3>2. channel[1] < channel[k + 1] /\ channel[k + 1] < i
      BY <1>3, <3>1 DEF Between
    <3>3. channel[k + 1] \in Nat
      BY <1>2, <3>1
    <3>4. i' = i /\ id = channel[1]
      BY <1>1, <1>3
    <3> QED BY <1>7, <3>1, <3>2, <3>3, <3>4
  <2>3. \A j, k \in 1..Len(channel') : j < k => channel'[j] < channel'[k]
    BY <1>5 DEF Between
  <2> QED BY <2>1, <2>2, <2>3 DEF Between
<1>12. Unbroken'
  <2>0. spc = "read"
    BY DEF ReadMessage
  <2> SUFFICES ASSUME Benchmark, ~Lossy
               PROVE  /\ count' = Len(taken') /\ \A k \in 1..Len(taken') : taken'[k] = k
                      /\ i' = count' + Len(channel') + 1
                      /\ \A k \in 1..Len(channel') : channel'[k] = count' + k
    BY <1>1 DEF Unbroken, Benchmark, Lossy
  <2>1. id = count + 1 /\ count' = count + 1 /\ count = Len(taken)
    BY <1>1, <1>2, <1>3, <2>0 DEF Unbroken
  <2>2. \A k \in 1..Len(taken') : taken'[k] = k
    BY <1>6, <2>0, <2>1 DEF Unbroken
  <2>3. i' = count' + Len(channel') + 1
    BY <1>1, <1>2, <1>5, <2>0, <2>1 DEF Unbroken
  <2>4. \A k \in 1..Len(channel') : channel'[k] = count' + k
    BY <1>2, <1>5, <2>0, <2>1 DEF Unbroken
  <2> QED BY <1>6, <2>1, <2>2, <2>3, <2>4
<1>13. spc' \in {"await", "read"} \cup Ended
  BY <1>1 DEF Loop, Ended, Results
<1>14. TypeOK'
  BY <1>1, <1>2, <1>3, <1>5, <1>6, <1>7, <1>10, <1>13 DEF TypeOK
<1>15. AtItsPlace'
  <2>1. spc' = "success" => Benchmark' /\ count' = iterations'
    BY <1>1, <1>2, <1>3, <1>7 DEF Enough, Loop, Benchmark
  <2> QED BY <1>1, <2>1 DEF AtItsPlace
<1> QED BY <1>9, <1>11, <1>12, <1>14, <1>15

\* read() fails, and may have taken the oldest message with it.
LEMMA ReadFailsStep == ASSUME LoopInv, ReadFails PROVE LoopInv'
<1> USE BenchmarkAssumption DEF LoopInv, setup, cvars
<1>1. /\ UNCHANGED <<setup, stop, cvars, connected, retry, count, misses, start_time, taken>>
      /\ \/ channel' = channel
         \/ channel # << >> /\ channel' = Tail(channel)
      /\ spc' \in {"await", "stopped", "failure"} /\ (Benchmark => spc' = "failure")
  BY DEF ReadFails, Loop
<1>2. channel \in Seq(1..iterations) /\ Len(channel) \in Nat
  BY DEF TypeOK
<1>3. /\ channel' \in Seq(1..iterations) /\ Len(channel') <= Len(channel)
      /\ \/ channel' = channel
         \/ \A k \in 1..Len(channel') : k + 1 \in 1..Len(channel) /\ channel'[k] = channel[k + 1]
  BY <1>1, <1>2
<1>4. TypeOK'
  BY <1>1, <1>2, <1>3 DEF TypeOK, Ended, Results
<1>5. Between'
  <2>1. CASE channel' = channel
    BY <1>1, <2>1 DEF Between
  <2>2. CASE \A k \in 1..Len(channel') : k + 1 \in 1..Len(channel) /\ channel'[k] = channel[k + 1]
    BY <1>1, <1>2, <1>3, <2>2 DEF Between
  <2> QED BY <1>3, <2>1, <2>2
<1>6. Unbroken' /\ Counted' /\ AtItsPlace'
  BY <1>1 DEF Unbroken, Counted, AtItsPlace, Benchmark, Lossy
<1> QED BY <1>4, <1>5, <1>6

LEMMA NextLoopInv == LoopInv /\ [Next]_vars => LoopInv'
<1> SUFFICES ASSUME LoopInv, [Next]_vars PROVE LoopInv'
  OBVIOUS
<1>1. CASE Call \/ WriteFails \/ ClientReturns \/ ClientKilled
             \/ \E side \in {"client", "server"} : Stop(side)
  BY <1>1, ClientStep
<1>2. CASE Write
  BY <1>2, WriteStep
<1>3. CASE AwaitData \/ AwaitTimeout \/ ReadNoData \/ ReadError \/ ServerKilled
  BY <1>3, ServerStep
<1>4. CASE ReadMessage
  BY <1>4, ReadStep
<1>5. CASE ReadFails
  BY <1>5, ReadFailsStep
<1>6. CASE UNCHANGED vars
  BY <1>6 DEF vars, setup, cvars, svars, LoopInv, TypeOK, Between, Unbroken, Counted,
              AtItsPlace, Benchmark, Lossy, GaveUp
<1> QED BY <1>1, <1>2, <1>3, <1>4, <1>5, <1>6 DEF Next, ClientNext, ServerLoop

\* The inductive invariant of the two loops holds in every run of every kind.
THEOREM LoopInvariance == Spec => []LoopInv
<1> QED BY InitLoopInv, NextLoopInv, PTL DEF Spec

\* Type correctness: above all the counters of run_server and the loop variable
\* of run_client stay within iterations_, and misses_ does not wrap below 0.
THEOREM LoopTypeCorrect == Spec => []TypeOK
<1>1. LoopInv => TypeOK
  BY DEF LoopInv
<1> QED BY <1>1, LoopInvariance, PTL

\* run_server of a benchmark returns true only with every message, in order and
\* none twice, unless the handler loses some or the throughput benchmark gave up; and
\* the throughput benchmark has its start time, if it got more than one message.
THEOREM SuccessIsCompleteAlways == Spec => []SuccessIsComplete
<1>1. LoopInv => SuccessIsComplete
  <2> SUFFICES ASSUME LoopInv, spc = "success", ~Lossy, ~GaveUp
               PROVE  taken = [k \in 1..iterations |-> k]
    BY DEF SuccessIsComplete, LoopInv, Counted
  <2>1. count = iterations /\ taken \in Seq(1..iterations) /\ iterations \in Nat
    BY DEF LoopInv, AtItsPlace, TypeOK
  <2>2. Benchmark
    BY DEF LoopInv, AtItsPlace
  <2>3. Len(taken) = iterations /\ \A k \in 1..Len(taken) : taken[k] = k
    BY <2>1, <2>2 DEF LoopInv, Unbroken
  <2> QED BY <2>1, <2>3
<1> QED BY <1>1, LoopInvariance, PTL

\* When the real world benchmark ends, misses_ is the number of messages that
\* never came, whatever the handler lost.
THEOREM MissesAreLossesAlways == Spec => []MissesAreLosses
<1>1. LoopInv => MissesAreLosses
  BY DEF LoopInv, TypeOK, Counted, AtItsPlace, GaveUp, MissesAreLosses
<1> QED BY <1>1, LoopInvariance, PTL

\* After a successful latency or execution time benchmark the samples are enough
\* for the quantiles that main.cpp prints: no index leaves the vector.
THEOREM QuantilesInRangeAlways == Spec => []QuantilesInRange
<1>1. LoopInv => QuantilesInRange
  <2> SUFFICES ASSUME LoopInv, NEW k \in Quarters
               PROVE  /\ kind \in {"latency", "execution"} /\ spc = "success" => Interpolates(count, k)
                      /\ kind = "execution" /\ cpc = "success" => Interpolates(i - 1, k)
    BY DEF QuantilesInRange
  <2>1. iterations \in Nat \ {0}
    BY BenchmarkAssumption DEF LoopInv, TypeOK
  <2>2. kind \in {"latency", "execution"} /\ spc = "success" => count = iterations
    BY DEF LoopInv, AtItsPlace, GaveUp
  <2>3. cpc = "success" => i - 1 = iterations
    BY <2>1 DEF LoopInv, AtItsPlace
  <2> QED BY <2>1, <2>2, <2>3, QuartersInterpolate
<1> QED BY <1>1, LoopInvariance, PTL
=============================================================================
