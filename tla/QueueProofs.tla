---------------------------- MODULE QueueProofs -----------------------------
(***************************************************************************)
(* Proofs about the two handlers whose messages wait in a queue that       *)
(* somebody else keeps: the kernel for MessageQueue, the daemon for DBus.  *)
(* They hold for every size of the queues and of a message, all objects,   *)
(* and any number of reading and writing processes.                        *)
(*                                                                         *)
(* The order of MessageQueue rests on an account of each queue, which      *)
(* outlives the processes: it holds what was sent to it and not yet        *)
(* received.  That a reading process starts afresh rests on where the path *)
(* leads while it is open: to a queue that nobody used before its run,     *)
(* which is also the one that a writing process of the same run has        *)
(* opened.                                                                 *)
(*                                                                         *)
(* In DBus a message passes five queues of three processes and the name    *)
(* changes hands.  A message of writing process c is in Ahead(c) until the *)
(* daemon takes it from the socket, and in Due(s) until reading process s  *)
(* takes it from its connection.  What the socket or the connection moves  *)
(* between the two queues of one side changes neither of these sequences.  *)
(* The numbers of the messages that s has read, that are due at s and that *)
(* are ahead of the daemon follow each other without a gap (GoodLine), as  *)
(* long as s owns the name; a process that does not own it will never read *)
(* again.                                                                  *)
(***************************************************************************)
EXTENDS MessageQueue, DBus, DataObjectsProofs, FiniteSetTheorems

-----------------------------------------------------------------------------
(* MessageQueue: the inductive invariant. *)

Item == [cells : Seq(Nat), run : Nat]

\* A handle is open exactly between open() and close(), and the reading process
\* has the queue that the path leads to.
Handles ==
  /\ wqd # 0 <=> wpc # "closed"
  /\ rqd # 0 <=> rpc \in {"await", "read"}
  /\ rqd # 0 => path = rqd
  /\ made <= writers + runs - (IF rpc = "open" THEN 1 ELSE 0)

\* What write() has got ready for mq_send.
Prepared ==
  wpc = "send" => last_id > 0 /\ wobj \in Objects /\ Fits(wobj, BODY_SIZE)

\* A queue holds what was sent to it and not yet received.
Account(q) ==
  /\ queues[q] \in Seq(Item)
  /\ Len(sent[q]) = Len(received[q]) + Len(queues[q])
  /\ \A k \in 1..Len(queues[q]) :
       LET m == sent[q][Len(received[q]) + k] IN
       queues[q][k].cells = Wire(m.id, m.obj)
  /\ \A i \in 1..Len(received[q]) : received[q][i] = sent[q][i]
  /\ \A i \in 1..Len(sent[q]) : Fits(sent[q][i].obj, BODY_SIZE)
  /\ q > made => queues[q] = << >>

Fresh(q) == \A k \in 1..Len(queues[q]) : queues[q][k].run = runs

\* From its mq_unlink on, the path leads the reading process to a queue of its run.
SameRun ==
  rpc \in {"open", "await", "read"} =>
    /\ path # 0 => Fresh(path)
    /\ wqd # 0 /\ wrun = runs => wqd = path

QueueInv ==
  /\ TypeOK /\ Handles /\ Prepared /\ SameRun
  /\ DOMAIN queues = Queues /\ \A q \in Queues : Account(q)
  /\ ~aborted

-----------------------------------------------------------------------------
(* QueueInv is inductive. *)

USE QueueAssumption

LEMMA InitQueueInv == Init => QueueInv
<1> SUFFICES ASSUME Init PROVE QueueInv
  OBVIOUS
<1> USE DEF Init
<1>1. TypeOK
  <2>1. \A q \in Queues : Len(queues[q]) <= QUEUE_SIZE
    OBVIOUS
  <2>2. sent \in [Queues -> Seq(Message)] /\ received \in [Queues -> Seq(Message)]
    <3>1. << >> \in Seq(Message)
      OBVIOUS
    <3> QED BY <3>1
  <2>3. rbuf \in [BodyIx -> Nat]
    OBVIOUS
  <2>4. /\ path \in 0..made /\ made \in 0..(MAX_RUNS + MAX_WRITERS)
        /\ writers \in 0..MAX_WRITERS /\ wqd \in 0..made /\ wrun \in 0..runs
        /\ last_id \in 0..MAX_ID /\ runs \in 0..MAX_RUNS /\ rqd \in 0..made
    OBVIOUS
  <2>5. wret \in BOOLEAN /\ aborted \in BOOLEAN /\ wobj \in Objects \cup {Ping}
    OBVIOUS
  <2> HIDE DEF Init
  <2>6. Init => wpc = "closed" /\ rpc = "closed" /\ rret = "none"
    BY DEF Init
  <2> QED BY <2>1, <2>2, <2>3, <2>4, <2>5, <2>6 DEF TypeOK
<1>2. Handles /\ Prepared /\ SameRun
  BY DEF Handles, Prepared, SameRun
<1>3. \A q \in Queues : Account(q)
  BY DEF Account
<1> QED BY <1>1, <1>2, <1>3 DEF QueueInv

\* The queue that the next mq_open creates was never used.
LEMMA NewQueueIsEmpty ==
  ASSUME QueueInv, made < MAX_RUNS + MAX_WRITERS
  PROVE  queues[made + 1] = << >>
<1>1. made + 1 \in Queues /\ made + 1 > made
  BY DEF QueueInv, TypeOK, Queues
<1> QED BY <1>1 DEF QueueInv, Account

\* What the steps of open() and close() and the idle ones keep: the account of
\* every queue.
LEMMA AccountsKept ==
  ASSUME QueueInv, UNCHANGED <<queues, sent, received, aborted>>,
         made' \in {made, made + 1}
  PROVE  (DOMAIN queues = Queues /\ \A q \in Queues : Account(q))' /\ ~aborted'
<1>1. made \in Nat
  BY DEF QueueInv, TypeOK
<1>2. ASSUME NEW q \in Queues PROVE Account(q)'
  <2>1. Account(q) /\ q \in Nat
    BY DEF QueueInv, Queues
  <2>2. q > made' => q > made
    BY <1>1, <2>1
  <2> QED BY <2>1, <2>2 DEF Account
<1> QED BY <1>2 DEF QueueInv, Queues

\* open(), close() and the preparation of write() in a writing process.
LEMMA WriterStep ==
  ASSUME QueueInv,
         \/ WriterOpen \/ SendFails \/ WriterExit
         \/ \E obj \in Objects : WriteRefused(obj) \/ WriteSerialize(obj)
  PROVE  QueueInv'
<1> USE DEF WriterOpen, SendFails, WriterExit, WriteRefused, WriteSerialize, OpenOrCreate, rvars, QueueInv
<1>1. UNCHANGED <<queues, sent, received, aborted>> /\ made' \in {made, made + 1}
  OBVIOUS
<1>2. TypeOK'
  <2>1. made' \in 0..(MAX_RUNS + MAX_WRITERS) /\ path' \in 0..made' /\ wqd' \in 0..made'
    BY DEF TypeOK, Handles
  <2>2. rqd' \in 0..made' /\ wrun' \in 0..runs' /\ runs' \in 0..MAX_RUNS
    BY DEF TypeOK
  <2>3. writers' \in 0..MAX_WRITERS /\ last_id' \in 0..MAX_ID /\ wobj' \in Objects \cup {Ping}
    BY DEF TypeOK
  <2>4. UNCHANGED <<rpc, rbuf, rret, queues, sent, received, aborted>>
    OBVIOUS
  <2>5. wpc' \in {"closed", "idle", "send"} /\ wret' \in BOOLEAN
    BY DEF TypeOK
  <2> HIDE DEF WriterOpen, SendFails, WriterExit, WriteRefused, WriteSerialize
  <2> QED BY <2>1, <2>2, <2>3, <2>4, <2>5 DEF TypeOK
<1>3. Handles'
  BY DEF TypeOK, Handles
<1>4. Prepared'
  BY DEF TypeOK, Prepared
<1>5. SameRun'
  <2>1. CASE UNCHANGED path
    BY <2>1 DEF TypeOK, Handles, SameRun, Fresh
  <2>2. CASE path' = made + 1 /\ path = 0 /\ WriterOpen
    <3>1. queues[path'] = << >>
      BY <2>2, NewQueueIsEmpty DEF TypeOK, Handles
    <3> QED BY <2>2, <3>1 DEF TypeOK, Handles, SameRun, Fresh
  <2> QED BY <2>1, <2>2
<1> QED BY <1>1, <1>2, <1>3, <1>4, <1>5, AccountsKept

\* open(), close() and the end of a reading process, await_data() and a read()
\* that finds nothing.
LEMMA ReaderStepKeeps ==
  ASSUME QueueInv,
         \/ ReaderUnlinkOld \/ ReaderOpen \/ ReaderOpenFails \/ ReaderClose \/ ReaderUnlink
         \/ ReaderKilled \/ Await \/ ReadNoData \/ UNCHANGED vars
  PROVE  QueueInv'
<1> USE DEF ReaderUnlinkOld, ReaderOpen, ReaderOpenFails, ReaderClose, ReaderUnlink, ReaderKilled,
            Await, ReadNoData, OpenStep, ReaderStep, FreshHandler, SameHandler, OpenOrCreate,
            vars, wvars, rvars, QueueInv
<1>1. UNCHANGED <<queues, sent, received, aborted>> /\ made' \in {made, made + 1}
  OBVIOUS
<1>2. TypeOK'
  BY SMTT(30) DEF TypeOK, Handles, CommunicationError
<1>3. Handles'
  BY DEF TypeOK, Handles
<1>4. Prepared'
  BY DEF TypeOK, Prepared
<1>5. SameRun'
  <2>1. CASE ReaderOpen /\ path = 0
    <3>1. queues[path'] = << >>
      BY <2>1, NewQueueIsEmpty DEF TypeOK, Handles
    <3> QED BY <2>1, <3>1 DEF TypeOK, Handles, SameRun, Fresh
  <2>2. CASE ReaderOpen /\ path # 0
    BY <2>2, SMTT(30) DEF TypeOK, Handles, SameRun, Fresh
  <2>3. CASE ~ReaderOpen
    BY <2>3, SMTT(30) DEF TypeOK, Handles, SameRun, Fresh
  <2> QED BY <2>1, <2>2, <2>3
<1> QED BY <1>1, <1>2, <1>3, <1>4, <1>5, AccountsKept

\* mq_send adds its message at the end of the queue.
LEMMA SendStep ==
  ASSUME QueueInv, Send
  PROVE  QueueInv'
<1> DEFINE m == [id |-> last_id, obj |-> wobj]
           e == [cells |-> Wire(last_id, wobj), run |-> runs]
<1>1. /\ wpc = "send" /\ wpc' = "idle" /\ wobj' = Ping /\ wret' = TRUE
      /\ Len(queues[wqd]) < QUEUE_SIZE
      /\ queues' = [queues EXCEPT ![wqd] = Append(@, e)]
      /\ sent' = [sent EXCEPT ![wqd] = Append(@, m)]
      /\ UNCHANGED <<path, made, writers, wqd, wrun, last_id, rvars>>
  BY DEF Send
<1>2. /\ wqd \in Queues /\ wqd <= made
      /\ last_id \in 1..MAX_ID /\ wobj \in Objects /\ Fits(wobj, BODY_SIZE)
      /\ runs \in Nat /\ made \in Nat
  BY <1>1 DEF QueueInv, TypeOK, Handles, Prepared, Queues
<1>3. e \in Item /\ m \in Message
  <2>1. Wire(last_id, wobj) \in Seq(Nat)
    BY <1>2, WireFacts
  <2> QED BY <1>2, <2>1 DEF Item, Message
<1>4. /\ DOMAIN queues = Queues /\ \A q \in Queues : Account(q)
      /\ sent \in [Queues -> Seq(Message)]
  BY DEF QueueInv, TypeOK
<1>5. ASSUME NEW q \in Queues, q # wqd
      PROVE  queues'[q] = queues[q] /\ sent'[q] = sent[q]
  BY <1>1, <1>4, <1>5
<1>6. queues'[wqd] = Append(queues[wqd], e) /\ sent'[wqd] = Append(sent[wqd], m)
  BY <1>1, <1>2, <1>4
<1> HIDE DEF m, e
<1>7. Account(wqd)'
  <2> DEFINE s == sent[wqd]
             r == received[wqd]
             c == queues[wqd]
  <2>1. /\ s \in Seq(Message) /\ c \in Seq(Item)
        /\ Len(r) \in Nat /\ Len(s) \in Nat /\ Len(c) \in Nat
        /\ Len(s) = Len(r) + Len(c)
        /\ \A k \in 1..Len(c) : c[k].cells = Wire(s[Len(r) + k].id, s[Len(r) + k].obj)
        /\ \A i \in 1..Len(r) : r[i] = s[i]
        /\ \A i \in 1..Len(s) : Fits(s[i].obj, BODY_SIZE)
    BY <1>2, <1>4 DEF Account, QueueInv, TypeOK
  <2>2. received'[wqd] = r /\ ~(wqd > made')
    <3>1. received' = received /\ made' = made
      BY <1>1 DEF rvars
    <3>2. ~(wqd > made)
      BY <1>2 DEF Queues
    <3> QED BY <3>1, <3>2
  <2>3. e.cells = Wire(m.id, m.obj) /\ Fits(m.obj, BODY_SIZE)
    BY <1>2 DEF e, m
  <2> HIDE DEF s, r, c
  <2>4. /\ Append(c, e) \in Seq(Item) /\ Append(s, m) \in Seq(Message)
        /\ Len(Append(c, e)) = Len(c) + 1 /\ Len(Append(s, m)) = Len(s) + 1
        /\ Append(c, e)[Len(c) + 1] = e /\ Append(s, m)[Len(s) + 1] = m
        /\ \A k \in 1..Len(c) : Append(c, e)[k] = c[k]
        /\ \A k \in 1..Len(s) : Append(s, m)[k] = s[k]
    BY <1>3, <2>1, AppendProperties
  <2>5. ASSUME NEW k \in 1..(Len(c) + 1)
        PROVE  Append(c, e)[k].cells = Wire(Append(s, m)[Len(r) + k].id, Append(s, m)[Len(r) + k].obj)
    <3>1. CASE k = Len(c) + 1
      <4>1. Len(r) + k = Len(s) + 1
        BY <2>1, <3>1
      <4> QED BY <2>3, <2>4, <3>1, <4>1
    <3>2. CASE k \in 1..Len(c)
      <4>1. Len(r) + k \in 1..Len(s)
        BY <2>1, <3>2
      <4> QED BY <2>1, <2>4, <3>2, <4>1
    <3>3. k = Len(c) + 1 \/ k \in 1..Len(c)
      BY <2>1
    <3> QED BY <3>1, <3>2, <3>3
  <2>6. \A i \in 1..Len(r) : r[i] = Append(s, m)[i]
    BY <2>1, <2>4
  <2>7. \A i \in 1..(Len(s) + 1) : Fits(Append(s, m)[i].obj, BODY_SIZE)
    BY <2>1, <2>3, <2>4
  <2>8. queues'[wqd] = Append(c, e) /\ sent'[wqd] = Append(s, m)
    BY <1>6 DEF c, s
  <2>9. Len(sent'[wqd]) = Len(r) + Len(queues'[wqd])
    BY <2>1, <2>4, <2>8
  <2>10. wqd' = wqd
    BY <1>1
  <2> DEFINE C == Append(c, e)
             S == Append(s, m)
  <2>11. /\ queues'[wqd] = C /\ sent'[wqd] = S /\ C \in Seq(Item)
         /\ Len(S) = Len(r) + Len(C) /\ Len(C) = Len(c) + 1 /\ Len(S) = Len(s) + 1
         /\ \A k \in 1..(Len(c) + 1) : C[k].cells = Wire(S[Len(r) + k].id, S[Len(r) + k].obj)
         /\ \A i \in 1..Len(r) : r[i] = S[i]
         /\ \A i \in 1..(Len(s) + 1) : Fits(S[i].obj, BODY_SIZE)
    BY <2>4, <2>5, <2>6, <2>7, <2>8, <2>9
  <2> HIDE DEF C, S
  <2> QED BY ONLY <2>2, <2>10, <2>11 DEF Account
<1>8. ASSUME NEW q \in Queues PROVE Account(q)'
  <2>1. CASE q = wqd
    BY <1>1, <1>7, <2>1
  <2>2. CASE q # wqd
    BY <1>1, <1>4, <1>5, <2>2 DEF Account, rvars
  <2> QED BY <2>1, <2>2
<1>9. TypeOK'
  <2>1. \A q \in Queues : Len(queues'[q]) <= QUEUE_SIZE
    <3>1. Len(queues'[wqd]) <= QUEUE_SIZE
      BY <1>1, <1>2, <1>3, <1>4, <1>6 DEF Account
    <3> QED BY <1>5, <3>1 DEF QueueInv, TypeOK
  <2>2. sent' \in [Queues -> Seq(Message)]
    BY <1>1, <1>2, <1>3, <1>4
  <2>3. wobj' \in Objects \cup {Ping} /\ wpc' \in {"closed", "idle", "send"} /\ wret' \in BOOLEAN
    BY <1>1
  <2> QED BY <1>1, <2>1, <2>2, <2>3 DEF QueueInv, TypeOK, rvars
<1>10. Handles' /\ Prepared'
  BY <1>1 DEF QueueInv, Handles, Prepared, rvars
<1>11. SameRun'
  <2>1. ASSUME Fresh(path), path \in Queues PROVE Fresh(path)'
    <3>1. CASE path = wqd
      <4>1. \A k \in 1..Len(queues'[wqd]) : queues'[wqd][k].run = runs
        BY <1>2, <1>3, <1>4, <1>6, <2>1, <3>1 DEF Fresh, Account, e
      <4> QED BY <1>1, <3>1, <4>1 DEF Fresh, rvars
    <3>2. CASE path # wqd
      BY <1>1, <1>5, <2>1, <3>2 DEF Fresh, rvars
    <3> QED BY <3>1, <3>2
  <2>2. path # 0 => path \in Queues
    BY DEF QueueInv, TypeOK, Queues
  <2> QED BY <1>1, <2>1, <2>2 DEF QueueInv, SameRun, rvars
<1>12. DOMAIN queues' = Queues /\ ~aborted'
  BY <1>1, <1>4 DEF QueueInv, rvars
<1> QED BY <1>8, <1>9, <1>10, <1>11, <1>12 DEF QueueInv, Queues

\* mq_receive takes the first message, and what read() makes of it is the message
\* that was sent, whatever buffer_ held.
LEMMA ReceiveStep ==
  ASSUME QueueInv, Receive
  PROVE  QueueInv'
<1> DEFINE s == sent[rqd]
           r == received[rqd]
           c == queues[rqd]
           m == s[Len(r) + 1]
           size == SerializedSize(m.obj)
           body == SubSeq(Head(c).cells, HEADER_SIZE + 1, Len(Head(c).cells))
           object == deserialize_data_object(Head(c).cells[2], rbuf', Head(c).cells[3])
<1>1. /\ rpc = "read" /\ c # << >>
      /\ queues' = [queues EXCEPT ![rqd] = Tail(@)]
      /\ rbuf' = Overlay(rbuf, body)
      /\ aborted' = (aborted \/ Head(c).cells[3] # Len(body))
      /\ \/ IsError(object)
         \/ /\ ReaderStep("read", "read") /\ rret' = "message"
            /\ received' = [received EXCEPT ![rqd] =
                              Append(@, [id |-> Head(c).cells[1], obj |-> object])]
  BY DEF Receive
<1>2. /\ rqd \in Queues /\ path = rqd
      /\ ~aborted /\ made \in Nat /\ rqd <= made
      /\ Account(rqd)
      /\ s \in Seq(Message) /\ r \in Seq(Message) /\ c \in Seq(Item)
      /\ Len(s) \in Nat /\ Len(r) \in Nat /\ Len(c) \in Nat \ {0}
      /\ Len(s) = Len(r) + Len(c)
  <2>1. rqd \in Queues /\ path = rqd /\ ~aborted /\ made \in Nat /\ rqd <= made
    BY <1>1 DEF QueueInv, TypeOK, Handles, Queues
  <2>2. Account(rqd) /\ s \in Seq(Message) /\ r \in Seq(Message)
    BY <2>1 DEF QueueInv, TypeOK
  <2>3. c \in Seq(Item) /\ Len(s) = Len(r) + Len(c)
    BY <2>2 DEF Account
  <2> HIDE DEF s, r, c
  <2>4. Len(s) \in Nat /\ Len(r) \in Nat /\ Len(c) \in Nat \ {0}
    <3>1. c # << >>
      BY <1>1 DEF c
    <3> QED BY ONLY <2>2, <2>3, <3>1
  <2> QED BY <2>1, <2>2, <2>3, <2>4
<1>3. /\ Len(r) + 1 \in 1..Len(s)
      /\ m \in Message /\ Fits(m.obj, BODY_SIZE)
      /\ Head(c) = c[1] /\ c[1].cells = Wire(m.id, m.obj)
  <2>1. /\ \A k \in 1..Len(c) : c[k].cells = Wire(s[Len(r) + k].id, s[Len(r) + k].obj)
        /\ \A i \in 1..Len(s) : Fits(s[i].obj, BODY_SIZE)
    BY <1>2 DEF Account
  <2> HIDE DEF s, r, c
  <2>2. Len(r) + 1 \in 1..Len(s) /\ 1 \in 1..Len(c)
    BY <1>2
  <2>3. m \in Message /\ Fits(m.obj, BODY_SIZE) /\ c[1].cells = Wire(m.id, m.obj)
    BY <1>2, <2>1, <2>2
  <2>4. Head(c) = c[1]
    BY <1>2
  <2> QED BY <2>2, <2>3, <2>4
<1>4. /\ Head(c).cells[1] = m.id /\ Head(c).cells[2] = m.obj.type /\ Head(c).cells[3] = size
      /\ Len(body) = size /\ body \in Seq(Nat)
      /\ \A k \in 1..size : body[k] = Serialize(m.obj)[k]
  <2> DEFINE w == Wire(m.id, m.obj)
  <2> HIDE DEF s, r, c, m
  <2>1. m.obj \in DataObject /\ m.id \in Nat
    BY <1>3 DEF Message
  <2>2. /\ w \in Seq(Nat) /\ size \in Nat /\ Len(w) = HEADER_SIZE + size
        /\ w[1] = m.id /\ w[2] = m.obj.type /\ w[3] = size
        /\ \A k \in 1..size : w[HEADER_SIZE + k] = Serialize(m.obj)[k]
    <3>1. PICK id, obj : id = m.id /\ obj = m.obj
      OBVIOUS
    <3>2. id \in Nat /\ obj \in DataObject /\ w = Wire(id, obj) /\ size = SerializedSize(obj)
      BY <2>1, <3>1
    <3> HIDE DEF w, size
    <3>3. /\ w \in Seq(Nat) /\ size \in Nat /\ Len(w) = HEADER_SIZE + size
          /\ w[1] = id /\ w[2] = obj.type /\ w[3] = size
          /\ \A k \in 1..size : w[HEADER_SIZE + k] = Serialize(obj)[k]
      BY ONLY <3>2, WireFacts
    <3> QED BY <3>1, <3>3
  <2>3. body = SubSeq(w, 4, 3 + size)
    <3>1. Head(c).cells = w
      BY <1>3
    <3> HIDE DEF w, size
    <3>2. HEADER_SIZE + 1 = 4 /\ Len(w) = 3 + size
      BY <2>2 DEF HEADER_SIZE
    <3> QED BY ONLY <3>1, <3>2 DEF body
  <2> HIDE DEF w, size
  <2>4. /\ SubSeq(w, 4, 3 + size) \in Seq(Nat)
        /\ Len(SubSeq(w, 4, 3 + size)) = size
        /\ \A k \in 1..size : SubSeq(w, 4, 3 + size)[k] = w[3 + k]
    <3>1. size \in Nat /\ 3 + size \in Int /\ \A i \in 4..(3 + size) : w[i] \in Nat
      BY <2>2 DEF HEADER_SIZE
    <3>2. /\ SubSeq(w, 4, 3 + size) \in Seq(Nat)
          /\ Len(SubSeq(w, 4, 3 + size)) = IF 4 <= 3 + size THEN (3 + size) - 4 + 1 ELSE 0
          /\ \A i \in 1..((3 + size) - 4 + 1) : SubSeq(w, 4, 3 + size)[i] = w[4 + i - 1]
      BY ONLY <3>1, SubSeqProperties
    <3> DEFINE cut == SubSeq(w, 4, 3 + size)
    <3> HIDE DEF cut
    <3> QED BY <3>1, <3>2 DEF cut
  <2> HIDE DEF body
  <2>5. Len(body) = size /\ body \in Seq(Nat) /\ \A k \in 1..size : body[k] = Serialize(m.obj)[k]
    BY <2>2, <2>3, <2>4 DEF HEADER_SIZE
  <2>6. Head(c).cells = w
    BY <1>3 DEF w
  <2> QED BY <2>2, <2>5, <2>6
<1>5. object = m.obj /\ ~IsError(object) /\ rbuf' \in [BodyIx -> Nat]
  <2> HIDE DEF s, r, c, m, body, size
  <2>1. m.obj \in DataObject /\ size <= BODY_SIZE
    BY <1>3 DEF Message, Fits, size
  <2>2. rbuf \in [1..BODY_SIZE -> Nat]
    BY DEF QueueInv, TypeOK, BodyIx
  <2>3. /\ Overlay(rbuf, body) \in [1..BODY_SIZE -> Nat]
        /\ \A k \in 1..Len(body) : Overlay(rbuf, body)[k] = body[k]
    <3>1. BODY_SIZE \in Nat /\ body \in Seq(Nat) /\ Len(body) <= BODY_SIZE
      BY <1>4, <2>1
    <3> QED BY ONLY <2>2, <3>1, OverlayFacts
  <2>4. rbuf' \in [BodyIx -> Nat]
    BY <1>1, <2>3 DEF BodyIx
  <2>5. \A k \in 1..SerializedSize(m.obj) : rbuf'[k] = Serialize(m.obj)[k]
    BY <1>1, <1>4, <2>3 DEF size
  <2>6. deserialize_data_object(m.obj.type, rbuf', SerializedSize(m.obj)) = m.obj
    BY <2>1, <2>5, RoundTrip
  <2>7. object = m.obj
    BY <1>4, <2>6 DEF size
  <2> QED BY <2>1, <2>4, <2>7, ObjectIsNoError
<1>6. /\ received' = [received EXCEPT ![rqd] = Append(@, m)]
      /\ rpc' = "read" /\ rret' = "message" /\ ~aborted'
      /\ UNCHANGED <<path, made, sent, wvars, runs, rqd>>
  <2>1. [id |-> Head(c).cells[1], obj |-> object] = m
    <3> HIDE DEF s, r, c, m, object
    <3> QED BY <1>3, <1>4, <1>5 DEF Message
  <2> HIDE DEF s, r, c, m, body, object, size
  <2> QED BY <1>1, <1>2, <1>4, <1>5, <2>1 DEF ReaderStep
<1> HIDE DEF s, r, c, m, body, object, size
<1>7. /\ queues'[rqd] = Tail(c) /\ received'[rqd] = Append(r, m)
      /\ \A q \in Queues : q # rqd => queues'[q] = queues[q] /\ received'[q] = received[q]
      /\ received' \in [Queues -> Seq(Message)]
      /\ DOMAIN queues' = Queues
  <2>1. DOMAIN queues = Queues /\ received \in [Queues -> Seq(Message)]
    BY DEF QueueInv, TypeOK
  <2>2. Append(r, m) \in Seq(Message)
    BY <1>2, <1>3, AppendProperties
  <2> QED BY <1>1, <1>2, <1>6, <2>1, <2>2 DEF c, r
<1>8. /\ Tail(c) \in Seq(Item) /\ Len(Tail(c)) = Len(c) - 1
      /\ \A k \in 1..(Len(c) - 1) : Tail(c)[k] = c[k + 1]
      /\ Len(Append(r, m)) = Len(r) + 1 /\ Append(r, m)[Len(r) + 1] = m
      /\ \A i \in 1..Len(r) : Append(r, m)[i] = r[i]
  BY <1>1, <1>2, <1>3, HeadTailProperties, AppendProperties
<1>9. Account(rqd)'
  <2>1. /\ \A k \in 1..Len(c) : c[k].cells = Wire(s[Len(r) + k].id, s[Len(r) + k].obj)
        /\ \A i \in 1..Len(r) : r[i] = s[i]
        /\ \A i \in 1..Len(s) : Fits(s[i].obj, BODY_SIZE)
    BY <1>2 DEF Account, c, s, r
  <2>2. sent'[rqd] = s /\ rqd' = rqd /\ made' = made
    BY <1>6 DEF s
  <2>3. \A k \in 1..Len(Tail(c)) :
          Tail(c)[k].cells = Wire(s[Len(r) + 1 + k].id, s[Len(r) + 1 + k].obj)
    <3> SUFFICES ASSUME NEW k \in 1..Len(Tail(c))
                 PROVE  Tail(c)[k].cells = Wire(s[Len(r) + 1 + k].id, s[Len(r) + 1 + k].obj)
      OBVIOUS
    <3>1. k + 1 \in 1..Len(c) /\ Tail(c)[k] = c[k + 1] /\ Len(r) + (k + 1) = Len(r) + 1 + k
      <4>1. Len(r) \in Nat /\ Len(c) \in Nat
        BY <1>2
      <4>2. k \in 1..(Len(c) - 1)
        BY <1>8
      <4>3. Tail(c)[k] = c[k + 1]
        BY ONLY <1>8, <4>2
      <4> QED BY ONLY <4>1, <4>2, <4>3
    <3> QED BY <2>1, <3>1
  <2>4. \A i \in 1..(Len(r) + 1) : Append(r, m)[i] = s[i]
    BY <1>2, <1>8, <2>1 DEF m
  <2>5. Len(s) = Len(r) + 1 + Len(Tail(c))
    BY <1>2, <1>8
  <2>6. ~(rqd > made)
    BY <1>2 DEF Queues
  <2>7. queues'[rqd] = Tail(c) /\ received'[rqd] = Append(r, m)
    BY <1>7
  <2>8. Len(received'[rqd]) = Len(r) + 1
    BY <1>8, <2>7
  <2>9. Len(sent'[rqd]) = Len(received'[rqd]) + Len(queues'[rqd])
    BY <2>2, <2>5, <2>7, <2>8
  <2>10. \A k \in 1..Len(queues'[rqd]) :
           queues'[rqd][k].cells = Wire(sent'[rqd][Len(received'[rqd]) + k].id,
                                        sent'[rqd][Len(received'[rqd]) + k].obj)
    BY <2>2, <2>3, <2>7, <2>8
  <2>11. \A i \in 1..Len(received'[rqd]) : received'[rqd][i] = sent'[rqd][i]
    BY <2>2, <2>4, <2>7, <2>8
  <2> QED BY <1>8, <2>1, <2>2, <2>6, <2>7, <2>9, <2>10, <2>11 DEF Account
<1>10. ASSUME NEW q \in Queues PROVE Account(q)'
  <2>1. CASE q = rqd
    BY <1>6, <1>9, <2>1
  <2>2. CASE q # rqd
    <3>1. UNCHANGED <<queues[q], received[q], sent, made>> /\ Account(q)
      BY <1>6, <1>7, <2>2 DEF QueueInv
    <3> QED BY <3>1 DEF Account
  <2> QED BY <2>1, <2>2
<1>11. TypeOK'
  <2>1. \A q \in Queues : Len(queues'[q]) <= QUEUE_SIZE
    <3>1. Len(c) <= QUEUE_SIZE
      BY <1>2 DEF QueueInv, TypeOK, c
    <3>2. Len(queues'[rqd]) <= QUEUE_SIZE
      BY <1>2, <1>7, <1>8, <3>1
    <3> QED BY <1>7, <3>2 DEF QueueInv, TypeOK
  <2>2. rpc' \in {"closed", "open", "await", "read", "unlink"}
        /\ rret' \in {"none", "timeout", "ready", "message"} \cup CommunicationError
    BY <1>6
  <2>3. aborted' \in BOOLEAN
    BY <1>1
  <2> QED BY <1>5, <1>6, <1>7, <2>1, <2>2, <2>3 DEF QueueInv, TypeOK, wvars
<1>12. Handles' /\ Prepared'
  BY <1>1, <1>6 DEF QueueInv, Handles, Prepared, wvars
<1>13. SameRun'
  <2>1. Fresh(rqd)
    BY <1>1, <1>2 DEF QueueInv, SameRun, Queues
  <2>2. \A k \in 1..Len(Tail(c)) : Tail(c)[k].run = runs
    BY <1>2, <1>8, <2>1 DEF Fresh, c
  <2>3. Fresh(path)'
    BY <1>2, <1>6, <1>7, <2>2 DEF Fresh
  <2> QED BY <1>1, <1>6, <2>3 DEF QueueInv, SameRun, wvars
<1> QED BY <1>6, <1>7, <1>10, <1>11, <1>12, <1>13 DEF QueueInv, Queues

LEMMA NextQueueInv == QueueInv /\ [Next]_vars => QueueInv'
<1> SUFFICES ASSUME QueueInv, [Next]_vars PROVE QueueInv'
  OBVIOUS
<1>1. CASE Send
  BY <1>1, SendStep
<1>2. CASE Receive
  BY <1>2, ReceiveStep
<1>3. CASE \/ WriterOpen \/ SendFails \/ WriterExit
           \/ \E obj \in Objects : WriteRefused(obj) \/ WriteSerialize(obj)
  BY <1>3, WriterStep
<1>4. CASE \/ ReaderUnlinkOld \/ ReaderOpen \/ ReaderOpenFails \/ ReaderClose \/ ReaderUnlink
           \/ ReaderKilled \/ Await \/ ReadNoData \/ UNCHANGED vars
  BY <1>4, ReaderStepKeeps
<1> QED BY <1>1, <1>2, <1>3, <1>4 DEF Next, WriterNext, ReaderNext, ReaderReads

-----------------------------------------------------------------------------
(* What the invariant says about the program. *)

\* Each queue holds what was sent to it and not yet received, whoever comes, goes
\* or is killed, and the path leads the reading process to a queue of its own run.
THEOREM QueueInvariance == Spec => []QueueInv
BY InitQueueInv, NextQueueInv, PTL DEF Spec

\* Every variable keeps its type; no queue holds more than mq_maxmsg messages.
THEOREM QueueTypeCorrect == Spec => []TypeOK
BY QueueInvariance, PTL DEF QueueInv

\* From each queue read() returns the messages sent to it, whole and in order, and
\* its assert() never fails.
THEOREM QueueInOrder == Spec => []InOrder
<1>1. QueueInv => InOrder
  <2> SUFFICES ASSUME QueueInv PROVE InOrder
    OBVIOUS
  <2>1. ASSUME NEW q \in Queues
        PROVE  Len(received[q]) <= Len(sent[q]) /\ \A i \in 1..Len(received[q]) : received[q][i] = sent[q][i]
    <3>1. Account(q) /\ received[q] \in Seq(Message) /\ queues[q] \in Seq(Item)
      BY DEF QueueInv, TypeOK, Account
    <3>2. Len(received[q]) \in Nat /\ Len(queues[q]) \in Nat
      BY <3>1
    <3>3. Len(sent[q]) = Len(received[q]) + Len(queues[q])
      BY <3>1 DEF Account
    <3>4. Len(received[q]) <= Len(sent[q])
      <4>1. \A a, b \in Nat : a <= a + b
        OBVIOUS
      <4>2. Len(received[q]) <= Len(received[q]) + Len(queues[q])
        BY <3>2, <4>1, Zenon
      <4> QED BY <3>3, <4>2, Zenon
    <3>5. \A i \in 1..Len(received[q]) : received[q][i] = sent[q][i]
      BY <3>1 DEF Account
    <3> QED BY <3>4, <3>5
  <2> QED BY <2>1 DEF InOrder, QueueInv
<1> QED BY <1>1, QueueInvariance, PTL

\* No reading process gets a message that was sent before it opened the queue.
THEOREM FreshStartAlways == Spec => []FreshStart
<1>1. QueueInv => FreshStart
  BY DEF QueueInv, Handles, SameRun, Fresh, FreshStart
<1> QED BY <1>1, QueueInvariance, PTL

\* A writing process that opens between mq_unlink and mq_open of the reading
\* process, or later in its run, has the same queue.
THEOREM LateWriterIsHeardAlways == Spec => []LateWriterIsHeard
<1>1. QueueInv => LateWriterIsHeard
  BY DEF QueueInv, Handles, SameRun, LateWriterIsHeard
<1> QED BY <1>1, QueueInvariance, PTL

HIDE QueueAssumption

-----------------------------------------------------------------------------
(* DBus: numbers in queues. *)

Calls == {Call(c, n, id, obj) : c \in Clients, n \in Nat, id \in Nat, obj \in DataObject}
BusItem  == {Signal, BadCall} \cup Calls

\* What read() returned, and of which call.
Receipt == [from : Clients, n : Nat, id : Nat, obj : DataObject]

IsOf(x, c) == x.kind = "call" /\ x.from = c

\* The numbers of the calls of writing process c in a queue, and of those read.
Numbers(q, c) == {n \in Nat : \E k \in 1..Len(q) : IsOf(q[k], c) /\ q[k].n = n}
ReadOf(r, c)  == {n \in Nat : \E k \in 1..Len(r) : r[k].from = c /\ r[k].n = n}

Rising(q, c) ==
  \A i, k \in 1..Len(q) : i < k /\ IsOf(q[i], c) /\ IsOf(q[k], c) => q[i].n < q[k].n
RisingRead(r, c) ==
  \A i, k \in 1..Len(r) : i < k /\ r[i].from = c /\ r[k].from = c => r[i].n < r[k].n

Below(A, B) == \A a \in A, b \in B : a < b
Gapless(A)  == \A a, b \in A : \A n \in a..b : n \in A

LEMMA CallFacts ==
  ASSUME NEW c \in Clients, NEW n \in Nat, NEW id \in Nat, NEW obj \in DataObject
  PROVE  /\ Call(c, n, id, obj) \in BusItem
         /\ IsOf(Call(c, n, id, obj), c) /\ Call(c, n, id, obj).n = n
         /\ \A d : IsOf(Call(c, n, id, obj), d) => d = c
<1>1. Call(c, n, id, obj) \in BusItem
  BY DEF BusItem, Calls
<1>2. /\ Call(c, n, id, obj).kind = "call" /\ Call(c, n, id, obj).from = c
      /\ Call(c, n, id, obj).n = n
  BY DEF Call
<1> QED BY <1>1, <1>2 DEF IsOf

LEMMA ItemFacts ==
  ASSUME NEW x \in BusItem
  PROVE  /\ x.kind = "call" => /\ x.from \in Clients /\ x.n \in Nat
                               /\ x.id \in Nat
                               /\ \E obj \in DataObject : x = Call(x.from, x.n, x.id, obj)
         /\ x \in {Signal, BadCall} => x.kind # "call"
<1>1. Signal.kind # "call" /\ BadCall.kind # "call"
  BY DEF Signal, BadCall
<1>2. CASE x \in Calls
  <2>1. PICK c \in Clients, n \in Nat, id \in Nat, obj \in DataObject : x = Call(c, n, id, obj)
    BY <1>2 DEF Calls
  <2>2. x.from = c /\ x.n = n /\ x.id = id /\ x.kind = "call"
    BY <2>1 DEF Call
  <2> QED BY <1>1, <2>1, <2>2
<1> QED BY <1>1, <1>2 DEF BusItem

LEMMA NumbersAppend ==
  ASSUME NEW q \in Seq(BusItem), NEW x \in BusItem, NEW c
  PROVE  /\ ~IsOf(x, c) => Numbers(Append(q, x), c) = Numbers(q, c)
         /\ IsOf(x, c) => Numbers(Append(q, x), c) = Numbers(q, c) \cup {x.n}
         /\ Rising(q, c) /\ (IsOf(x, c) => \A n \in Numbers(q, c) : n < x.n)
              => Rising(Append(q, x), c)
<1> DEFINE p == Append(q, x)
<1>1. /\ Len(q) \in Nat /\ Len(p) = Len(q) + 1
      /\ \A k \in 1..Len(q) : p[k] = q[k]
      /\ p[Len(q) + 1] = x
  OBVIOUS
<1>2. \A k \in 1..Len(q) : q[k] \in BusItem
  OBVIOUS
<1>3. \A k : k \in 1..Len(p) <=> (k \in 1..Len(q) \/ k = Len(q) + 1)
  BY <1>1
<1>4. IsOf(x, c) => x.n \in Nat
  BY ItemFacts DEF IsOf
<1>5. \A k \in 1..Len(q) : IsOf(q[k], c) => q[k].n \in Numbers(q, c)
  BY <1>2, ItemFacts DEF IsOf, Numbers
<1> HIDE DEF p
<1>6. ~IsOf(x, c) => Numbers(p, c) = Numbers(q, c)
  BY <1>1, <1>3 DEF Numbers
<1>7. IsOf(x, c) => Numbers(p, c) = Numbers(q, c) \cup {x.n}
  BY <1>1, <1>3, <1>4 DEF Numbers
<1>8. ASSUME Rising(q, c), IsOf(x, c) => \A n \in Numbers(q, c) : n < x.n,
             NEW i \in 1..Len(p), NEW k \in 1..Len(p), i < k, IsOf(p[i], c), IsOf(p[k], c)
      PROVE  p[i].n < p[k].n
  <2>1. i \in 1..Len(q)
    BY <1>1, <1>8
  <2>2. CASE k \in 1..Len(q)
    BY <1>1, <1>8, <2>1, <2>2 DEF Rising
  <2>3. CASE k = Len(q) + 1
    BY <1>1, <1>5, <1>8, <2>1, <2>3
  <2> QED BY <1>3, <2>2, <2>3
<1>9. Rising(q, c) /\ (IsOf(x, c) => \A n \in Numbers(q, c) : n < x.n) => Rising(p, c)
  BY <1>8 DEF Rising
<1> QED BY <1>6, <1>7, <1>9 DEF p

LEMMA NumbersTail ==
  ASSUME NEW q \in Seq(BusItem), q # << >>, NEW c, Rising(q, c)
  PROVE  /\ Tail(q) \in Seq(BusItem) /\ Head(q) \in BusItem
         /\ Rising(Tail(q), c)
         /\ ~IsOf(Head(q), c) => Numbers(Tail(q), c) = Numbers(q, c)
         /\ IsOf(Head(q), c) => /\ Numbers(Tail(q), c) = Numbers(q, c) \ {Head(q).n}
                                /\ Head(q).n \in Numbers(q, c)
                                /\ \A n \in Numbers(q, c) : Head(q).n <= n
<1> DEFINE p == Tail(q)
<1> DEFINE h == Head(q)
<1>1. /\ p \in Seq(BusItem) /\ h \in BusItem /\ Len(q) \in Nat /\ Len(q) > 0
      /\ Len(p) = Len(q) - 1 /\ h = q[1]
      /\ \A k \in 1..(Len(q) - 1) : p[k] = q[k + 1]
  OBVIOUS
<1> HIDE DEF p, h
<1>2. \A k \in 1..Len(p) : k + 1 \in 1..Len(q) /\ p[k] = q[k + 1] /\ 1 < k + 1
  BY <1>1
<1>3. \A k \in 1..Len(q) : k = 1 \/ (k - 1 \in 1..Len(p) /\ q[k] = p[k - 1] /\ 1 < k)
  <2> SUFFICES ASSUME NEW k \in 1..Len(q), k # 1
               PROVE  k - 1 \in 1..Len(p) /\ q[k] = p[k - 1] /\ 1 < k
    OBVIOUS
  <2>1. k - 1 \in 1..(Len(q) - 1) /\ (k - 1) + 1 = k /\ 1 < k
    BY <1>1
  <2> QED BY <1>1, <2>1
<1>4. Rising(p, c)
  <2> SUFFICES ASSUME NEW i \in 1..Len(p), NEW k \in 1..Len(p), i < k,
                      IsOf(p[i], c), IsOf(p[k], c)
               PROVE  p[i].n < p[k].n
    BY DEF Rising
  <2>1. i + 1 < k + 1
    OBVIOUS
  <2>2. /\ i + 1 \in 1..Len(q) /\ k + 1 \in 1..Len(q)
        /\ p[i] = q[i + 1] /\ p[k] = q[k + 1]
    BY <1>2
  <2> QED BY <2>1, <2>2 DEF Rising
<1>5. 1 \in 1..Len(q) /\ (IsOf(h, c) => h.n \in Nat)
  BY <1>1, ItemFacts DEF IsOf
<1>6. ASSUME ~IsOf(h, c)
      PROVE  Numbers(p, c) = Numbers(q, c)
  <2>1. \A k \in 1..Len(p) : k + 1 \in 1..Len(q) /\ p[k] = q[k + 1]
    BY <1>2
  <2>2. \A k \in 1..Len(q) : IsOf(q[k], c) => k - 1 \in 1..Len(p) /\ q[k] = p[k - 1]
    BY <1>1, <1>3, <1>6
  <2> QED BY ONLY <2>1, <2>2 DEF Numbers
<1>7. ASSUME IsOf(h, c)
      PROVE  /\ Numbers(p, c) = Numbers(q, c) \ {h.n}
             /\ h.n \in Numbers(q, c) /\ \A n \in Numbers(q, c) : h.n <= n
  <2>1. h.n \in Numbers(q, c)
    BY <1>1, <1>5, <1>7 DEF Numbers
  <2>2. \A n \in Numbers(p, c) : n \in Numbers(q, c) /\ h.n < n
    BY <1>1, <1>2, <1>5, <1>7 DEF Numbers, Rising
  <2>3. \A n \in Numbers(q, c) : n = h.n \/ n \in Numbers(p, c)
    BY <1>1, <1>3 DEF Numbers
  <2>4. h.n \in Nat /\ Numbers(p, c) \subseteq Nat
    BY <1>5, <1>7 DEF Numbers
  <2> QED BY <2>1, <2>2, <2>3, <2>4
<1> QED BY <1>1, <1>4, <1>6, <1>7 DEF p, h

LEMMA NumbersPrefix ==
  ASSUME NEW a \in Seq(BusItem), NEW b \in Seq(BusItem), NEW c
  PROVE  /\ Numbers(a, c) \subseteq Numbers(a \o b, c)
         /\ Rising(a \o b, c) =>
              /\ Rising(a, c)
              /\ \A n \in Numbers(a, c), m \in Numbers(a \o b, c) :
                   m \notin Numbers(a, c) => n < m
<1> DEFINE p == a \o b
<1>1. /\ Len(a) \in Nat /\ Len(b) \in Nat /\ Len(p) = Len(a) + Len(b)
      /\ \A k \in 1..Len(a) : k \in 1..Len(p) /\ p[k] = a[k]
  OBVIOUS
<1> HIDE DEF p
<1>2. Numbers(a, c) \subseteq Numbers(p, c)
  BY <1>1 DEF Numbers
<1>3. Rising(p, c) => Rising(a, c)
  BY <1>1 DEF Rising
<1>4. ASSUME Rising(p, c), NEW n \in Numbers(a, c), NEW m \in Numbers(p, c), m \notin Numbers(a, c)
      PROVE  n < m
  <2>1. PICK i \in 1..Len(a) : IsOf(a[i], c) /\ a[i].n = n
    BY DEF Numbers
  <2>2. PICK k \in 1..Len(p) : IsOf(p[k], c) /\ p[k].n = m
    BY DEF Numbers
  <2>3. k \notin 1..Len(a)
    BY <1>1, <1>4, <2>2 DEF Numbers
  <2>4. i \in 1..Len(p) /\ p[i] = a[i] /\ i < k
    BY <1>1, <2>3
  <2> QED BY <1>4, <2>1, <2>2, <2>4 DEF Rising
<1> QED BY <1>2, <1>3, <1>4 DEF p

\* x and y are two parts of q, of which x joins a.
Moved(S, a, q, x, y) ==
  x \in Seq(S) /\ y \in Seq(S) /\ a \o x \in Seq(S) /\ (a \o x) \o y = a \o q

\* What moves from the front of a queue to the end of the queue before it changes
\* nothing for the two of them together.
LEMMA MovedFront ==
  ASSUME NEW S, NEW a \in Seq(S), NEW q \in Seq(S), NEW k \in 0..Len(q),
         NEW x, x = SubSeq(q, 1, k), NEW y, y = SubSeq(q, k + 1, Len(q))
  PROVE  Moved(S, a, q, x, y)
<1>1. Len(q) \in Nat /\ \A i \in 1..Len(q) : q[i] \in S
  OBVIOUS
<1>2. x \in Seq(S)
  <2>1. 1 \in Int /\ k \in Int /\ \A i \in 1..k : q[i] \in S
    BY <1>1
  <2> QED BY ONLY <2>1, x = SubSeq(q, 1, k), SubSeqProperties
<1>3. y \in Seq(S)
  <2>1. k + 1 \in Int /\ Len(q) \in Int /\ \A i \in (k + 1)..Len(q) : q[i] \in S
    BY <1>1
  <2> QED BY ONLY <2>1, y = SubSeq(q, k + 1, Len(q)), SubSeqProperties
<1>4. x \o y = q
  <2>1. /\ 1 \in 1..(Len(q) + 1) /\ k \in (1 - 1)..Len(q) /\ Len(q) \in k..Len(q)
    BY <1>1
  <2>2. SubSeq(q, 1, k) \o SubSeq(q, k + 1, Len(q)) = SubSeq(q, 1, Len(q))
    BY ONLY q \in Seq(S), <2>1, ConcatAdjacentSubSeq
  <2>3. SubSeq(q, 1, Len(q)) = q
    BY ONLY q \in Seq(S), SubSeqFull
  <2> QED BY <2>2, <2>3
<1>5. a \o x \in Seq(S)
  BY <1>2
<1>6. (a \o x) \o y = a \o (x \o y)
  BY ONLY a \in Seq(S), <1>2, <1>3, ConcatAssociative, SMTT(30)
<1> QED BY <1>2, <1>3, <1>4, <1>5, <1>6 DEF Moved

-----------------------------------------------------------------------------
(* What has to hold of the queues on the way of writing process c, as a    *)
(* relation between their contents, what it sent (msgs) and where it is.   *)

\* A call is what write() made of the object with its number.
Faithful(x, c, msgs) ==
  x.n \in 1..Len(msgs) /\ x = Call(c, x.n, msgs[x.n].id, msgs[x.n].obj)

TrueTo(q, c, msgs) == \A k \in 1..Len(q) : IsOf(q[k], c) => Faithful(q[k], c, msgs)

\* As long as c may write, the numbers go on to the one it wrote last.
Newest(A, pc, msgs) == pc = "idle" /\ A # {} => Len(msgs) \in A

\* p is what is ahead of the daemon.
GoodLane(p, c, msgs, pc) ==
  /\ \A k \in 1..Len(p) : IsOf(p[k], c)
  /\ TrueTo(p, c, msgs) /\ Rising(p, c)
  /\ Gapless(Numbers(p, c)) /\ Newest(Numbers(p, c), pc, msgs)
  /\ pc = "new" => msgs = << >>

\* r is what a reading process has read.
GoodRead(r, p, c, msgs) ==
  /\ \A k \in 1..Len(r) : r[k].from = c =>
       r[k].n \in 1..Len(msgs) /\ msgs[r[k].n] = [id |-> r[k].id, obj |-> r[k].obj]
  /\ RisingRead(r, c) /\ Gapless(ReadOf(r, c))
  /\ Below(ReadOf(r, c), Numbers(p, c))

\* q is what is due at the reading process that owns the name.
GoodLine(r, q, p, c, msgs, pc) ==
  /\ TrueTo(q, c, msgs) /\ Rising(q, c)
  /\ Below(ReadOf(r, c), Numbers(q, c))
  /\ Below(Numbers(q, c), Numbers(p, c))
  /\ Gapless(ReadOf(r, c) \cup Numbers(q, c) \cup Numbers(p, c))
  /\ Newest(ReadOf(r, c) \cup Numbers(q, c) \cup Numbers(p, c), pc, msgs)

LEMMA SentNumbers ==
  ASSUME NEW q, NEW r, NEW p, NEW c, NEW msgs \in Seq(SentMessage)
  PROVE  /\ TrueTo(q, c, msgs) => Numbers(q, c) \subseteq 1..Len(msgs)
         /\ GoodRead(r, p, c, msgs) => ReadOf(r, c) \subseteq 1..Len(msgs)
BY DEF TrueTo, Faithful, Numbers, GoodRead, ReadOf

\* A list that grew still says the same of what was sent before.
LEMMA GrownTrue ==
  ASSUME NEW q, NEW c, NEW msgs \in Seq(SentMessage), NEW m \in SentMessage, TrueTo(q, c, msgs)
  PROVE  TrueTo(q, c, Append(msgs, m))
<1>1. /\ Len(msgs) \in Nat /\ Len(Append(msgs, m)) = Len(msgs) + 1
      /\ \A k \in 1..Len(msgs) : Append(msgs, m)[k] = msgs[k]
  OBVIOUS
<1>2. 1..Len(msgs) \subseteq 1..Len(Append(msgs, m))
  BY <1>1
<1> QED BY <1>1, <1>2 DEF TrueTo, Faithful

-----------------------------------------------------------------------------
(* What a step does to them *)

LEMMA LaneOpens ==
  ASSUME NEW p, NEW c, NEW msgs \in Seq(SentMessage), NEW pc, GoodLane(p, c, msgs, "new")
  PROVE  /\ pc # "new" => GoodLane(p, c, msgs, pc)
         /\ \A r, q : GoodRead(r, p, c, msgs) /\ GoodLine(r, q, p, c, msgs, "new")
                        => GoodLine(r, q, p, c, msgs, pc)
<1>1. 1..Len(msgs) = {}
  BY DEF GoodLane
<1>2. Numbers(p, c) = {}
  BY <1>1, SentNumbers DEF GoodLane
<1>3. \A r, q : GoodRead(r, p, c, msgs) /\ GoodLine(r, q, p, c, msgs, "new")
                  => ReadOf(r, c) = {} /\ Numbers(q, c) = {}
  BY <1>1, SentNumbers DEF GoodLine
<1> QED BY <1>2, <1>3 DEF GoodLane, GoodLine, Newest

LEMMA LaneStops ==
  ASSUME NEW p, NEW c, NEW msgs, NEW from, NEW pc, pc \notin {"new", "idle"},
         GoodLane(p, c, msgs, from)
  PROVE  /\ GoodLane(p, c, msgs, pc)
         /\ \A r, q : GoodLine(r, q, p, c, msgs, from) => GoodLine(r, q, p, c, msgs, pc)
BY DEF GoodLane, GoodLine, Newest

\* A number above the newest one joins.
LEMMA GaplessJoin ==
  ASSUME NEW l \in Nat, NEW A, A \subseteq 1..l, Gapless(A), A # {} => l \in A
  PROVE  Gapless(A \cup {l + 1})
<1> SUFFICES ASSUME NEW a \in A \cup {l + 1}, NEW b \in A \cup {l + 1}, NEW n \in a..b
             PROVE  n \in A \cup {l + 1}
  BY DEF Gapless
<1>1. a \in Nat /\ b \in Nat /\ n \in Nat /\ a <= n /\ n <= b /\ b <= l + 1
  OBVIOUS
<1>2. CASE b \in A /\ a \in A
  BY <1>2 DEF Gapless
<1>3. CASE b = l + 1 /\ a \in A
  <2>1. CASE n = l + 1
    BY <2>1
  <2>2. CASE n # l + 1
    <3>1. l \in A /\ n \in a..l
      BY <1>1, <1>3, <2>2
    <3> QED BY <1>3, <3>1 DEF Gapless
  <2> QED BY <2>1, <2>2
<1>4. CASE a = l + 1
  <2>1. n = l + 1
    BY <1>1, <1>4
  <2> QED BY <2>1
<1> QED BY <1>2, <1>3, <1>4

\* write() puts a call with the next number behind everything.
LEMMA LaneWrites ==
  ASSUME NEW p \in Seq(BusItem), NEW c \in Clients, NEW msgs \in Seq(SentMessage),
         NEW id \in Nat, NEW obj \in DataObject, NEW x, NEW m,
         m = [id |-> id, obj |-> obj], x = Call(c, Len(msgs) + 1, id, obj),
         GoodLane(p, c, msgs, "idle")
  PROVE  /\ GoodLane(Append(p, x), c, Append(msgs, m), "idle")
         /\ \A r : GoodRead(r, p, c, msgs) => GoodRead(r, Append(p, x), c, Append(msgs, m))
         /\ \A r, q : GoodRead(r, p, c, msgs) /\ GoodLine(r, q, p, c, msgs, "idle")
                        => GoodLine(r, q, Append(p, x), c, Append(msgs, m), "idle")
<1> DEFINE l == Len(msgs)
<1> DEFINE msgs2 == Append(msgs, m)
<1> DEFINE p2 == Append(p, x)
<1>1. /\ l \in Nat /\ m \in SentMessage /\ msgs2 \in Seq(SentMessage) /\ Len(msgs2) = l + 1
      /\ msgs2[l + 1] = m /\ \A k \in 1..l : k \in 1..(l + 1) /\ msgs2[k] = msgs[k]
  BY DEF SentMessage
<1>2. x \in BusItem /\ IsOf(x, c) /\ x.n = l + 1
  BY <1>1, CallFacts
<1>3. Faithful(x, c, msgs2)
  <2>1. m.id = id /\ m.obj = obj
    OBVIOUS
  <2>2. x.n \in 1..Len(msgs2) /\ msgs2[x.n] = m
    BY <1>1, <1>2
  <2> QED BY <1>2, <2>1, <2>2 DEF Faithful
<1>4. /\ p2 \in Seq(BusItem) /\ Len(p) \in Nat /\ Len(p2) = Len(p) + 1
      /\ p2[Len(p) + 1] = x /\ \A k \in 1..Len(p) : p2[k] = p[k]
  BY <1>2
<1>5. Numbers(p, c) \subseteq 1..l
  BY SentNumbers DEF GoodLane
<1>6. Numbers(p2, c) = Numbers(p, c) \cup {l + 1}
  BY <1>2, NumbersAppend
<1>7. Rising(p2, c)
  <2>1. \A n \in Numbers(p, c) : n < x.n
    BY <1>1, <1>2, <1>5
  <2> QED BY <1>2, <2>1, NumbersAppend DEF GoodLane
<1>8. TrueTo(p, c, msgs2)
  BY <1>1, GrownTrue DEF GoodLane
<1> HIDE DEF l, msgs2, p2
<1>9. \A k : k \in 1..Len(p2) <=> (k \in 1..Len(p) \/ k = Len(p) + 1)
  BY <1>4
<1>10. TrueTo(p2, c, msgs2)
  BY <1>3, <1>4, <1>8, <1>9 DEF TrueTo
<1>11. Gapless(Numbers(p2, c))
  <2>1. Numbers(p, c) # {} => l \in Numbers(p, c)
    BY DEF GoodLane, Newest, l
  <2> QED BY <1>1, <1>5, <1>6, <2>1, GaplessJoin DEF GoodLane
<1>12. \A k \in 1..Len(p2) : IsOf(p2[k], c)
  BY <1>2, <1>4, <1>9 DEF GoodLane
<1>13. GoodLane(p2, c, msgs2, "idle")
  <2>1. Newest(Numbers(p2, c), "idle", msgs2)
    BY <1>1, <1>6 DEF Newest
  <2> QED BY <1>7, <1>10, <1>11, <1>12, <2>1 DEF GoodLane
<1>14. ASSUME NEW r, GoodRead(r, p, c, msgs)
       PROVE  GoodRead(r, p2, c, msgs2)
  <2>1. ReadOf(r, c) \subseteq 1..l
    BY <1>14, SentNumbers DEF l
  <2>2. Below(ReadOf(r, c), Numbers(p2, c))
    BY <1>1, <1>6, <1>14, <2>1 DEF Below, GoodRead
  <2>3. \A k \in 1..Len(r) : r[k].from = c =>
          r[k].n \in 1..Len(msgs2) /\ msgs2[r[k].n] = [id |-> r[k].id, obj |-> r[k].obj]
    BY <1>1, <1>14 DEF GoodRead, l
  <2> QED BY <1>14, <2>2, <2>3 DEF GoodRead
<1>15. ASSUME NEW r, NEW q, GoodRead(r, p, c, msgs), GoodLine(r, q, p, c, msgs, "idle")
       PROVE  GoodLine(r, q, p2, c, msgs2, "idle")
  <2> DEFINE A == ReadOf(r, c) \cup Numbers(q, c) \cup Numbers(p, c)
  <2>1. ReadOf(r, c) \subseteq 1..l /\ Numbers(q, c) \subseteq 1..l
    BY <1>15, SentNumbers DEF l, GoodLine
  <2>2. A \subseteq 1..l /\ Gapless(A) /\ (A # {} => l \in A)
    BY <1>5, <1>15, <2>1 DEF GoodLine, Newest, l
  <2>3. ReadOf(r, c) \cup Numbers(q, c) \cup Numbers(p2, c) = A \cup {l + 1}
    BY <1>6
  <2> HIDE DEF A
  <2>4. Gapless(A \cup {l + 1})
    BY <1>1, <2>2, GaplessJoin
  <2>5. Newest(A \cup {l + 1}, "idle", msgs2)
    BY <1>1 DEF Newest
  <2>6. TrueTo(q, c, msgs2)
    BY <1>1, <1>15, GrownTrue DEF GoodLine, msgs2
  <2>7. Below(Numbers(q, c), Numbers(p2, c))
    BY <1>1, <1>6, <1>15, <2>1 DEF Below, GoodLine
  <2> QED BY <1>15, <2>3, <2>4, <2>5, <2>6, <2>7 DEF GoodLine
<1> QED BY <1>13, <1>14, <1>15 DEF p2, msgs2

\* What is left of the queue of a process that was killed is lost.
LEMMA LaneCut ==
  ASSUME NEW a \in Seq(BusItem), NEW b \in Seq(BusItem), NEW c, NEW msgs \in Seq(SentMessage),
         NEW from, NEW pc, pc \notin {"new", "idle"}, GoodLane(a \o b, c, msgs, from)
  PROVE  /\ GoodLane(a, c, msgs, pc)
         /\ \A r : GoodRead(r, a \o b, c, msgs) => GoodRead(r, a, c, msgs)
         /\ \A r, q : GoodRead(r, a \o b, c, msgs) /\ GoodLine(r, q, a \o b, c, msgs, from)
                        => GoodLine(r, q, a, c, msgs, pc)
<1> DEFINE p == a \o b
<1>1. \A k \in 1..Len(a) : k \in 1..Len(p) /\ p[k] = a[k]
  OBVIOUS
<1>2. /\ Numbers(a, c) \subseteq Numbers(p, c) /\ Rising(a, c)
      /\ \A n \in Numbers(a, c), m \in Numbers(p, c) : m \notin Numbers(a, c) => n < m
  BY NumbersPrefix DEF GoodLane
<1>3. GoodLane(p, c, msgs, from)
  OBVIOUS
<1> HIDE DEF p
<1>4. Numbers(p, c) \subseteq 1..Len(msgs)
  BY <1>3, SentNumbers DEF GoodLane
<1>5. Gapless(Numbers(a, c))
  <2> SUFFICES ASSUME NEW i \in Numbers(a, c), NEW j \in Numbers(a, c), NEW n \in i..j
               PROVE  n \in Numbers(a, c)
    BY DEF Gapless
  <2>1. n \in Numbers(p, c)
    BY <1>2, <1>3 DEF GoodLane, Gapless
  <2>2. i \in Nat /\ j \in Nat /\ n \in Nat /\ ~(j < n)
    BY <1>2, <1>4
  <2> QED BY <1>2, <2>1, <2>2
<1>6. GoodLane(a, c, msgs, pc)
  <2>1. TrueTo(a, c, msgs) /\ \A k \in 1..Len(a) : IsOf(a[k], c)
    BY <1>1, <1>3 DEF GoodLane, TrueTo
  <2> QED BY <1>2, <1>5, <2>1 DEF GoodLane, Newest
<1>7. ASSUME NEW r, GoodRead(r, p, c, msgs)
      PROVE  GoodRead(r, a, c, msgs)
  BY <1>2, <1>7 DEF GoodRead, Below
<1>8. ASSUME NEW r, NEW q, GoodRead(r, p, c, msgs), GoodLine(r, q, p, c, msgs, from)
      PROVE  GoodLine(r, q, a, c, msgs, pc)
  <2> DEFINE D == ReadOf(r, c) \cup Numbers(q, c)
  <2>1. D \subseteq 1..Len(msgs)
    BY <1>8, SentNumbers DEF GoodLine
  <2>2. Below(D, Numbers(p, c)) /\ Gapless(D \cup Numbers(p, c))
    BY <1>8 DEF GoodRead, GoodLine, Below
  <2> HIDE DEF D
  <2>3. Gapless(D \cup Numbers(a, c))
    <3> SUFFICES ASSUME NEW i \in D \cup Numbers(a, c), NEW j \in D \cup Numbers(a, c),
                        NEW n \in i..j
                 PROVE  n \in D \cup Numbers(a, c)
      BY DEF Gapless
    <3>1. n \in D \cup Numbers(p, c)
      BY <1>2, <2>2 DEF Gapless
    <3>2. i \in Nat /\ j \in Nat /\ n \in Nat /\ ~(j < n)
      BY <1>2, <1>4, <2>1
    <3> QED BY <1>2, <2>2, <3>1, <3>2 DEF Below
  <2>4. Below(Numbers(q, c), Numbers(a, c))
    BY <1>2, <1>8 DEF GoodLine, Below
  <2> QED BY <1>8, <2>3, <2>4 DEF GoodLine, Newest, D
<1> QED BY <1>6, <1>7, <1>8 DEF p

\* The daemon takes the first message from the socket and hands it to the owner.
LEMMA LaneRoutes ==
  ASSUME NEW p \in Seq(BusItem), p # << >>, NEW c, NEW msgs \in Seq(SentMessage), NEW pc,
         NEW h, h = Head(p), NEW p2, p2 = Tail(p), GoodLane(p, c, msgs, pc)
  PROVE  /\ h \in BusItem /\ IsOf(h, c)
         /\ GoodLane(p2, c, msgs, pc)
         /\ \A r : GoodRead(r, p, c, msgs) => GoodRead(r, p2, c, msgs) /\ h.n \notin ReadOf(r, c)
         /\ \A r : \A q \in Seq(BusItem) :
              GoodRead(r, p, c, msgs) /\ GoodLine(r, q, p, c, msgs, pc)
                => GoodLine(r, Append(q, h), p2, c, msgs, pc)
<1>1. /\ Len(p) \in Nat /\ Len(p) > 0 /\ h = p[1] /\ h \in BusItem /\ Len(p2) = Len(p) - 1
      /\ \A k \in 1..(Len(p) - 1) : p2[k] = p[k + 1]
  OBVIOUS
<1>2. \A k \in 1..Len(p2) : k + 1 \in 1..Len(p) /\ p2[k] = p[k + 1]
  BY <1>1
<1>3. IsOf(h, c) /\ Faithful(h, c, msgs)
  BY <1>1 DEF GoodLane, TrueTo
<1>4. /\ p2 \in Seq(BusItem) /\ Rising(p2, c)
      /\ Numbers(p2, c) = Numbers(p, c) \ {h.n}
      /\ h.n \in Numbers(p, c) /\ \A n \in Numbers(p, c) : h.n <= n
  BY <1>3, NumbersTail DEF GoodLane
<1>5. Numbers(p, c) \subseteq 1..Len(msgs) /\ Len(msgs) \in Nat
  <2>1. TrueTo(p, c, msgs)
    BY DEF GoodLane
  <2>2. Numbers(p, c) \subseteq 1..Len(msgs)
    BY <2>1, SentNumbers
  <2> QED BY <2>2
<1>6. GoodLane(p2, c, msgs, pc)
  <2>1. \A k \in 1..Len(p2) : IsOf(p2[k], c)
    BY <1>2 DEF GoodLane
  <2>2. TrueTo(p2, c, msgs)
    BY <1>2 DEF GoodLane, TrueTo
  <2>3. Gapless(Numbers(p2, c))
    <3> SUFFICES ASSUME NEW i \in Numbers(p2, c), NEW j \in Numbers(p2, c), NEW n \in i..j
                 PROVE  n \in Numbers(p2, c)
      BY DEF Gapless
    <3>1. n \in Numbers(p, c)
      BY <1>4 DEF GoodLane, Gapless
    <3>2. i \in Nat /\ j \in Nat /\ n \in Nat /\ i <= n /\ h.n \in Nat /\ h.n <= i /\ i # h.n
      BY <1>4, <1>5
    <3> QED BY <1>4, <3>1, <3>2
  <2>4. Newest(Numbers(p2, c), pc, msgs)
    <3> SUFFICES ASSUME pc = "idle", NEW i \in Numbers(p2, c)
                 PROVE  Len(msgs) \in Numbers(p2, c)
      BY DEF Newest
    <3>1. Len(msgs) \in Numbers(p, c)
      BY <1>4 DEF GoodLane, Newest
    <3>2. i \in Nat /\ h.n \in Nat /\ h.n <= i /\ i # h.n /\ i <= Len(msgs)
      BY <1>4, <1>5
    <3> QED BY <1>4, <1>5, <3>1, <3>2
  <2> QED BY <1>4, <2>1, <2>2, <2>3, <2>4 DEF GoodLane
<1>7. ASSUME NEW r, GoodRead(r, p, c, msgs)
      PROVE  GoodRead(r, p2, c, msgs) /\ h.n \notin ReadOf(r, c)
  <2>1. Below(ReadOf(r, c), Numbers(p2, c))
    BY <1>4, <1>7 DEF GoodRead, Below
  <2>2. h.n \notin ReadOf(r, c)
    <3>1. ~(h.n < h.n)
      BY <1>4, <1>5
    <3> QED BY <1>4, <1>7, <3>1 DEF GoodRead, Below
  <2> QED BY <1>7, <2>1, <2>2 DEF GoodRead
<1>8. ASSUME NEW r, NEW q \in Seq(BusItem), GoodRead(r, p, c, msgs), GoodLine(r, q, p, c, msgs, pc)
      PROVE  GoodLine(r, Append(q, h), p2, c, msgs, pc)
  <2> DEFINE q2 == Append(q, h)
  <2>1. /\ Len(q) \in Nat /\ Len(q2) = Len(q) + 1 /\ q2[Len(q) + 1] = h
        /\ \A k \in 1..Len(q) : q2[k] = q[k]
    OBVIOUS
  <2>2. \A k : k \in 1..Len(q2) <=> (k \in 1..Len(q) \/ k = Len(q) + 1)
    BY <2>1
  <2>3. \A n \in Numbers(q, c) : n < h.n
    BY <1>4, <1>8 DEF GoodLine, Below
  <2>4. Numbers(q2, c) = Numbers(q, c) \cup {h.n} /\ Rising(q2, c)
    BY <1>1, <1>3, <1>8, <2>3, NumbersAppend DEF GoodLine
  <2> HIDE DEF q2
  <2>5. TrueTo(q2, c, msgs)
    BY <1>3, <1>8, <2>1, <2>2 DEF GoodLine, TrueTo
  <2>6. Below(ReadOf(r, c), Numbers(q2, c))
    BY <1>4, <1>8, <2>4 DEF GoodLine, GoodRead, Below
  <2>7. Below(Numbers(q2, c), Numbers(p2, c))
    <3> SUFFICES ASSUME NEW i \in Numbers(q2, c), NEW j \in Numbers(p2, c)
                 PROVE  i < j
      BY DEF Below
    <3>1. CASE i \in Numbers(q, c)
      BY <1>4, <1>8, <3>1 DEF GoodLine, Below
    <3>2. CASE i = h.n
      <4>1. j \in Nat /\ h.n \in Nat /\ h.n <= j /\ j # h.n
        BY <1>4, <1>5
      <4> QED BY <3>2, <4>1
    <3> QED BY <2>4, <3>1, <3>2
  <2>8. ReadOf(r, c) \cup Numbers(q2, c) \cup Numbers(p2, c)
          = ReadOf(r, c) \cup Numbers(q, c) \cup Numbers(p, c)
    BY <1>4, <2>4
  <2>9. GoodLine(r, q2, p2, c, msgs, pc)
    BY <1>8, <2>4, <2>5, <2>6, <2>7, <2>8 DEF GoodLine
  <2> QED BY <2>9 DEF q2
<1> QED BY <1>1, <1>3, <1>6, <1>7, <1>8

\* Something that is not of c arrives.
LEMMA LineGets ==
  ASSUME NEW r, NEW q \in Seq(BusItem), NEW p, NEW c, NEW msgs, NEW pc,
         NEW x \in BusItem, ~IsOf(x, c), GoodLine(r, q, p, c, msgs, pc)
  PROVE  GoodLine(r, Append(q, x), p, c, msgs, pc)
<1> DEFINE q2 == Append(q, x)
<1>1. /\ Len(q) \in Nat /\ Len(q2) = Len(q) + 1 /\ q2[Len(q) + 1] = x
      /\ \A k \in 1..Len(q) : q2[k] = q[k]
  OBVIOUS
<1>2. \A k : k \in 1..Len(q2) <=> (k \in 1..Len(q) \/ k = Len(q) + 1)
  BY <1>1
<1>3. Numbers(q2, c) = Numbers(q, c) /\ Rising(q2, c)
  BY NumbersAppend DEF GoodLine
<1> HIDE DEF q2
<1>4. TrueTo(q2, c, msgs)
  BY <1>1, <1>2 DEF GoodLine, TrueTo
<1>5. GoodLine(r, q2, p, c, msgs, pc)
  BY <1>3, <1>4 DEF GoodLine
<1> QED BY <1>5 DEF q2

\* read() takes something that is not of c.
LEMMA LineSkips ==
  ASSUME NEW r, NEW q \in Seq(BusItem), q # << >>, NEW p, NEW c, NEW msgs, NEW pc,
         ~IsOf(Head(q), c), GoodLine(r, q, p, c, msgs, pc)
  PROVE  GoodLine(r, Tail(q), p, c, msgs, pc) /\ Numbers(Tail(q), c) = Numbers(q, c)
<1> DEFINE q2 == Tail(q)
<1>1. Len(q) \in Nat /\ Len(q2) = Len(q) - 1 /\ \A k \in 1..(Len(q) - 1) : q2[k] = q[k + 1]
  OBVIOUS
<1>2. \A k \in 1..Len(q2) : k + 1 \in 1..Len(q) /\ q2[k] = q[k + 1]
  BY <1>1
<1>3. Numbers(q2, c) = Numbers(q, c) /\ Rising(q2, c)
  BY NumbersTail DEF GoodLine
<1> HIDE DEF q2
<1>4. TrueTo(q2, c, msgs)
  BY <1>2 DEF GoodLine, TrueTo
<1>5. GoodLine(r, q2, p, c, msgs, pc)
  BY <1>3, <1>4 DEF GoodLine
<1> QED BY <1>3, <1>5 DEF q2

LEMMA ReadAppend ==
  ASSUME NEW r \in Seq(Receipt), NEW x \in Receipt, NEW c
  PROVE  /\ x.from # c => ReadOf(Append(r, x), c) = ReadOf(r, c)
         /\ x.from = c => ReadOf(Append(r, x), c) = ReadOf(r, c) \cup {x.n}
         /\ RisingRead(r, c) /\ (x.from = c => \A n \in ReadOf(r, c) : n < x.n)
              => RisingRead(Append(r, x), c)
<1> DEFINE p == Append(r, x)
<1>1. /\ Len(r) \in Nat /\ Len(p) = Len(r) + 1
      /\ \A k \in 1..Len(r) : p[k] = r[k]
      /\ p[Len(r) + 1] = x
  OBVIOUS
<1>2. x.n \in Nat /\ \A k \in 1..Len(r) : r[k].n \in Nat
  <2>1. \A k \in 1..Len(r) : r[k] \in Receipt
    OBVIOUS
  <2> QED BY <2>1 DEF Receipt
<1>3. \A k : k \in 1..Len(p) <=> (k \in 1..Len(r) \/ k = Len(r) + 1)
  BY <1>1
<1>5. \A k \in 1..Len(r) : r[k].from = c => r[k].n \in ReadOf(r, c)
  BY <1>2 DEF ReadOf
<1> HIDE DEF p
<1>6. x.from # c => ReadOf(p, c) = ReadOf(r, c)
  BY <1>1, <1>3 DEF ReadOf
<1>7. x.from = c => ReadOf(p, c) = ReadOf(r, c) \cup {x.n}
  BY <1>1, <1>2, <1>3 DEF ReadOf
<1>8. ASSUME RisingRead(r, c), x.from = c => \A n \in ReadOf(r, c) : n < x.n,
             NEW i \in 1..Len(p), NEW k \in 1..Len(p), i < k, p[i].from = c, p[k].from = c
      PROVE  p[i].n < p[k].n
  <2>1. i \in 1..Len(r)
    BY <1>1, <1>8
  <2>2. CASE k \in 1..Len(r)
    BY <1>1, <1>8, <2>1, <2>2 DEF RisingRead
  <2>3. CASE k = Len(r) + 1
    BY <1>1, <1>5, <1>8, <2>1, <2>3
  <2> QED BY <1>3, <2>2, <2>3
<1>9. RisingRead(r, c) /\ (x.from = c => \A n \in ReadOf(r, c) : n < x.n) => RisingRead(p, c)
  BY <1>8 DEF RisingRead
<1> QED BY <1>6, <1>7, <1>9 DEF p

\* read() decodes what write() made of an object to that object.
LEMMA CallDecodes ==
  ASSUME NEW x, NEW c \in Clients, NEW msgs \in Seq(SentMessage), Faithful(x, c, msgs)
  PROVE  LET body == deserialize_data_object(x.type, x.cells, Len(x.cells)) IN
         /\ ~IsError(body)
         /\ [from |-> x.from, n |-> x.n, id |-> x.id, obj |-> body] \in Receipt
         /\ msgs[x.n] = [id |-> x.id, obj |-> body]
<1>a. PICK m : m = msgs[x.n]
  OBVIOUS
<1>b. PICK id, obj : id = m.id /\ obj = m.obj
  OBVIOUS
<1>1. m \in SentMessage /\ x.n \in 1..Len(msgs) /\ x.n \in Nat
  BY <1>a DEF Faithful
<1>2. id \in Nat /\ obj \in DataObject /\ m = [id |-> id, obj |-> obj]
  BY <1>1, <1>b DEF SentMessage
<1>3. /\ x.from = c /\ x.id = id /\ x.type = obj.type /\ x.cells = Serialize(obj)
  <2>1. x = Call(c, x.n, id, obj)
    BY <1>a, <1>b DEF Faithful
  <2> QED BY <2>1 DEF Call
<1>4. deserialize_data_object(x.type, x.cells, Len(x.cells)) = obj
  <2>1. Len(Serialize(obj)) = SerializedSize(obj)
    BY <1>2, SerializeType
  <2>2. deserialize_data_object(obj.type, Serialize(obj), SerializedSize(obj)) = obj
    BY <1>2, RoundTrip
  <2> QED BY <1>3, <2>1, <2>2
<1>5. ~IsError(obj)
  BY <1>2, ObjectIsNoError
<1>6. [from |-> c, n |-> x.n, id |-> id, obj |-> obj] \in Receipt
  BY <1>1, <1>2 DEF Receipt
<1> QED BY <1>2, <1>3, <1>4, <1>5, <1>6, <1>a

\* What was read is what was sent under its number.
Whole(x, msgs) == msgs[x.n] = [id |-> x.id, obj |-> x.obj]

\* read() takes a call of c.
LEMMA LineReads ==
  ASSUME NEW r \in Seq(Receipt), NEW q \in Seq(BusItem), q # << >>, NEW p, NEW c,
         NEW msgs \in Seq(SentMessage), NEW pc, NEW h, h = Head(q), IsOf(h, c),
         NEW x \in Receipt, x.from = c, x.n = h.n, Whole(x, msgs),
         GoodLane(p, c, msgs, pc), GoodRead(r, p, c, msgs), GoodLine(r, q, p, c, msgs, pc)
  PROVE  /\ GoodRead(Append(r, x), p, c, msgs)
         /\ GoodLine(Append(r, x), Tail(q), p, c, msgs, pc)
         /\ ReadOf(Append(r, x), c) = ReadOf(r, c) \cup {h.n}
         /\ Numbers(Tail(q), c) = Numbers(q, c) \ {h.n} /\ h.n \in Numbers(q, c)
<1> DEFINE q2 == Tail(q)
<1> DEFINE r2 == Append(r, x)
<1>1. /\ Len(q) \in Nat /\ Len(q) > 0 /\ h = q[1] /\ Len(q2) = Len(q) - 1
      /\ \A k \in 1..(Len(q) - 1) : q2[k] = q[k + 1]
  OBVIOUS
<1>2. \A k \in 1..Len(q2) : k + 1 \in 1..Len(q) /\ q2[k] = q[k + 1]
  BY <1>1
<1>3. /\ Rising(q2, c) /\ Numbers(q2, c) = Numbers(q, c) \ {h.n}
      /\ h.n \in Numbers(q, c) /\ \A n \in Numbers(q, c) : h.n <= n
  BY NumbersTail DEF GoodLine
<1>4. /\ Numbers(q, c) \subseteq 1..Len(msgs) /\ ReadOf(r, c) \subseteq 1..Len(msgs)
      /\ Numbers(p, c) \subseteq 1..Len(msgs) /\ Len(msgs) \in Nat
  <2>1. TrueTo(q, c, msgs) /\ TrueTo(p, c, msgs) /\ GoodRead(r, p, c, msgs)
    BY DEF GoodLine, GoodLane
  <2> QED BY <2>1, SentNumbers
<1>5. \A n \in ReadOf(r, c) : n < x.n
  BY <1>3 DEF GoodLine, Below
<1>6. ReadOf(r2, c) = ReadOf(r, c) \cup {h.n} /\ RisingRead(r2, c)
  BY <1>5, ReadAppend DEF GoodRead
<1>7. /\ Len(r) \in Nat /\ Len(r2) = Len(r) + 1 /\ r2[Len(r) + 1] = x
      /\ \A k \in 1..Len(r) : r2[k] = r[k]
  OBVIOUS
<1>8. \A k : k \in 1..Len(r2) <=> (k \in 1..Len(r) \/ k = Len(r) + 1)
  BY <1>7
<1> HIDE DEF q2, r2
<1>9. \A k \in 1..Len(r2) : r2[k].from = c =>
        r2[k].n \in 1..Len(msgs) /\ msgs[r2[k].n] = [id |-> r2[k].id, obj |-> r2[k].obj]
  <2>1. x.n \in 1..Len(msgs)
    BY <1>3, <1>4
  <2> QED BY <1>7, <1>8, <2>1 DEF GoodRead, Whole
<1>10. \A a \in ReadOf(r, c), b \in Numbers(q, c) : a < b
  BY DEF GoodLine, Below
<1>11. /\ \A a \in ReadOf(r, c), b \in Numbers(p, c) : a < b
       /\ \A a \in Numbers(q, c), b \in Numbers(p, c) : a < b
  BY DEF GoodLine, GoodRead, Below
<1>12. Gapless(ReadOf(r2, c))
  <2> SUFFICES ASSUME NEW i \in ReadOf(r2, c), NEW j \in ReadOf(r2, c), NEW n \in i..j
               PROVE  n \in ReadOf(r2, c)
    BY DEF Gapless
  <2>1. n \in ReadOf(r, c) \cup Numbers(q, c) \cup Numbers(p, c)
    BY <1>3, <1>6 DEF GoodLine, Gapless
  <2>2. i \in Nat /\ j \in Nat /\ n \in Nat /\ ~(j < n) /\ j <= h.n /\ h.n \in Nat
    <3>1. \A b \in ReadOf(r2, c) : b \in Nat /\ b <= h.n
      BY <1>3, <1>4, <1>6, <1>10
    <3> QED BY <1>3, <1>4, <3>1
  <2>3. n \notin Numbers(p, c)
    BY <1>3, <1>11, <2>2
  <2>4. CASE n \in Numbers(q, c)
    <3>1. h.n <= n /\ n <= h.n
      BY <1>3, <2>2, <2>4
    <3>2. n = h.n
      BY <2>2, <3>1
    <3> QED BY <1>6, <3>2
  <2> QED BY <1>6, <2>1, <2>3, <2>4
<1>13. Below(ReadOf(r2, c), Numbers(p, c))
  BY <1>3, <1>6, <1>11 DEF Below
<1>14. GoodRead(r2, p, c, msgs)
  BY <1>6, <1>9, <1>12, <1>13 DEF GoodRead
<1>15. TrueTo(q2, c, msgs)
  BY <1>2 DEF GoodLine, TrueTo
<1>16. Below(ReadOf(r2, c), Numbers(q2, c))
  <2> SUFFICES ASSUME NEW i \in ReadOf(r2, c), NEW j \in Numbers(q2, c)
               PROVE  i < j
    BY DEF Below
  <2>1. j \in Nat /\ h.n \in Nat /\ h.n <= j /\ j # h.n
    BY <1>3, <1>4
  <2>2. CASE i = h.n
    BY <2>1, <2>2
  <2>3. CASE i \in ReadOf(r, c)
    BY <1>3, <1>10, <2>3
  <2> QED BY <1>6, <2>2, <2>3
<1>17. Below(Numbers(q2, c), Numbers(p, c))
  BY <1>3, <1>11 DEF Below
<1>18. ReadOf(r2, c) \cup Numbers(q2, c) \cup Numbers(p, c)
         = ReadOf(r, c) \cup Numbers(q, c) \cup Numbers(p, c)
  BY <1>3, <1>6
<1>19. GoodLine(r2, q2, p, c, msgs, pc)
  BY <1>3, <1>15, <1>16, <1>17, <1>18 DEF GoodLine
<1> QED BY <1>3, <1>6, <1>14, <1>19 DEF q2, r2

-----------------------------------------------------------------------------
(* The invariant *)

Alive(s) == spc[s] \in {"await", "read"}

\* What writing process c wrote and the daemon did not take yet, and what the daemon
\* sent to reading process s and read() did not pop yet.
Ahead(c) == socket[c] \o outgoing[c]
Due(s)   == incoming[s] \o inbox[s]

Basics ==
  /\ spc \in [Servers -> {"new", "release", "await", "read", "dead", "gone"}]
  /\ cpc \in [Clients -> {"new", "idle", "flush", "gone"}]
  /\ last_ids \in [Clients -> 0..MAX_LAST_ID]
  /\ foreign \in 0..MAX_FOREIGN
  /\ written \in [Clients -> Seq(SentMessage)]

Carriers ==
  /\ socket \in [Clients -> Seq(BusItem)] /\ outgoing \in [Clients -> Seq(BusItem)]
  /\ inbox \in [Servers -> Seq(BusItem)] /\ incoming \in [Servers -> Seq(BusItem)]
  /\ reads \in [Servers -> Seq(Receipt)]
  /\ \A c \in Clients : Len(socket[c]) <= SOCKET_SIZE

\* The queue for the name is made of different processes that asked for it and did
\* not leave; who reads is its head.
NamesInv ==
  /\ names \in Seq(Servers)
  /\ \A i, j \in 1..Len(names) : names[i] = names[j] => i = j
  /\ \A i \in 1..Len(names) : spc[names[i]] \in {"await", "read", "release", "dead"}
  /\ \A s \in Servers : Alive(s) => names # << >> /\ names[1] = s
  /\ \A s \in Servers : spc[s] = "new" => reads[s] = << >>

Flow(c) ==
  /\ GoodLane(Ahead(c), c, written[c], cpc[c])
  /\ \A s \in Servers :
       /\ GoodRead(reads[s], Ahead(c), c, written[c])
       /\ Alive(s) => GoodLine(reads[s], Due(s), Ahead(c), c, written[c], cpc[c])
       /\ \A t \in Servers : t # s =>
            /\ ReadOf(reads[t], c) \cap ReadOf(reads[s], c) = {}
            /\ Alive(s) => ReadOf(reads[t], c) \cap Numbers(Due(s), c) = {}

DBusInv == Basics /\ Carriers /\ NamesInv /\ \A c \in Clients : Flow(c)

\* A queue of different processes is as long as the set of its members is large.
LEMMA DifferentMembers ==
  ASSUME NEW S, NEW q \in Seq(S), \A i, j \in 1..Len(q) : q[i] = q[j] => i = j
  PROVE  Members(q) \subseteq S /\ Len(q) = Cardinality(Members(q))
<1>1. Len(q) \in Nat /\ DOMAIN q = 1..Len(q) /\ q \in [1..Len(q) -> S]
  OBVIOUS
<1>2. Members(q) = {q[k] : k \in 1..Len(q)}
  BY <1>1 DEF Members
<1>3. q \in Bijection(1..Len(q), Members(q))
  BY <1>1, <1>2 DEF Bijection, Injection, Surjection, IsInjective
<1>4. ExistsBijection(1..Len(q), Members(q))
  BY <1>3 DEF ExistsBijection
<1>5. Cardinality(Members(q)) = Len(q)
  BY ONLY <1>1, <1>4, FS_CountingElements
<1> QED BY <1>1, <1>2, <1>5

LEMMA InvTypes == DBusInv => BusTypeOK
<1> SUFFICES ASSUME DBusInv PROVE BusTypeOK
  OBVIOUS
<1>1. Members(names) \subseteq Servers /\ Len(names) = Cardinality(Members(names))
  BY DifferentMembers DEF DBusInv, NamesInv
<1>2. \A s \in Servers : spc[s] \in {"await", "read"} => names # << >> /\ Head(names) = s
  BY DEF DBusInv, NamesInv, Alive
<1> QED BY <1>1, <1>2 DEF DBusInv, Basics, Carriers, BusTypeOK

\* The numbers read of one process, rising and without a gap, are a slice.
LEMMA RisingSlice ==
  ASSUME NEW r \in Seq(Receipt), NEW c, RisingRead(r, c), Gapless(ReadOf(r, c))
  PROVE  Slice(r, c)
<1> SUFFICES ASSUME NEW k \in DOMAIN r, NEW i \in 1..(k - 1), r[i].from = c, r[k].from = c
             PROVE  /\ r[i].n < r[k].n
                    /\ \A n \in r[i].n..r[k].n : \E j \in i..k : r[j].from = c /\ r[j].n = n
  BY DEF Slice
<1>1. Len(r) \in Nat /\ k \in 1..Len(r) /\ i \in 1..Len(r) /\ i < k
  OBVIOUS
<1>2. \A j \in 1..Len(r) : r[j].n \in Nat
  <2>1. \A j \in 1..Len(r) : r[j] \in Receipt
    OBVIOUS
  <2> QED BY <2>1 DEF Receipt
<1>3. r[i].n < r[k].n
  BY <1>1 DEF RisingRead
<1>4. ASSUME NEW n \in r[i].n..r[k].n
      PROVE  \E j \in i..k : r[j].from = c /\ r[j].n = n
  <2>1. r[i].n \in ReadOf(r, c) /\ r[k].n \in ReadOf(r, c)
    BY <1>1, <1>2 DEF ReadOf
  <2>2. n \in ReadOf(r, c)
    BY <2>1 DEF Gapless
  <2>3. PICK j \in 1..Len(r) : r[j].from = c /\ r[j].n = n
    BY <2>2 DEF ReadOf
  <2>4. ~(j < i)
    <3> SUFFICES ASSUME j < i PROVE FALSE
      OBVIOUS
    <3>1. r[j].n < r[i].n
      BY <1>1, <2>3 DEF RisingRead
    <3> QED BY <1>1, <1>2, <2>3, <3>1
  <2>5. ~(k < j)
    <3> SUFFICES ASSUME k < j PROVE FALSE
      OBVIOUS
    <3>1. r[k].n < r[j].n
      BY <1>1, <2>3 DEF RisingRead
    <3> QED BY <1>1, <1>2, <2>3, <3>1
  <2>6. j \in i..k
    BY <1>1, <2>4, <2>5
  <2> QED BY <2>3, <2>6
<1> QED BY <1>3, <1>4

LEMMA InvOrder == DBusInv => BusInOrder
<1> SUFFICES ASSUME DBusInv PROVE BusInOrder
  OBVIOUS
<1>1. ASSUME NEW s \in Servers
      PROVE  /\ reads[s] \in Seq(Receipt) /\ DOMAIN reads[s] = 1..Len(reads[s])
             /\ \A k \in DOMAIN reads[s] :
                  /\ reads[s][k] \in Receipt
                  /\ reads[s][k].from \in Clients /\ reads[s][k].n \in Nat
  <2>1. reads[s] \in Seq(Receipt)
    BY DEF DBusInv, Carriers
  <2>2. \A k \in DOMAIN reads[s] : reads[s][k] \in Receipt
    BY <2>1
  <2> QED BY <2>1, <2>2 DEF Receipt
<1>2. ASSUME NEW s \in Servers, NEW k \in DOMAIN reads[s]
      PROVE  LET m == reads[s][k] IN
             m.n \in DOMAIN written[m.from] /\ written[m.from][m.n] = [id |-> m.id, obj |-> m.obj]
  <2> DEFINE c == reads[s][k].from
  <2>1. c \in Clients
    BY <1>1
  <2>2. GoodRead(reads[s], Ahead(c), c, written[c])
    BY <2>1 DEF DBusInv, Flow
  <2>3. written[c] \in Seq(SentMessage)
    BY <2>1 DEF DBusInv, Basics
  <2> QED BY <1>1, <2>2, <2>3 DEF GoodRead
<1>3. ASSUME NEW s \in Servers, NEW c \in Clients
      PROVE  Slice(reads[s], c)
  BY <1>1, RisingSlice DEF DBusInv, Flow, GoodRead
<1>4. ASSUME NEW s \in Servers, NEW t \in Servers, s # t,
             NEW i \in DOMAIN reads[s], NEW k \in DOMAIN reads[t],
             reads[s][i].from = reads[t][k].from, reads[s][i].n = reads[t][k].n
      PROVE  FALSE
  <2> DEFINE c == reads[s][i].from
  <2>1. c \in Clients
    BY <1>1
  <2>2. ReadOf(reads[t], c) \cap ReadOf(reads[s], c) = {}
    BY <1>4, <2>1 DEF DBusInv, Flow
  <2>3. reads[s][i].n \in ReadOf(reads[s], c) /\ reads[s][i].n \in ReadOf(reads[t], c)
    BY <1>1, <1>4 DEF ReadOf
  <2> QED BY <2>2, <2>3
<1> QED BY <1>2, <1>3, <1>4 DEF BusInOrder

-----------------------------------------------------------------------------
(* The writing processes *)

\* Nothing that concerns writing process c changed for a process that reads on.
LEMMA SameFlow ==
  ASSUME NEW c \in Clients, Flow(c),
         Ahead(c)' = Ahead(c), written'[c] = written[c], cpc'[c] = cpc[c],
         \A s \in Servers : /\ reads'[s] = reads[s]
                            /\ Alive(s)' => Alive(s) /\ Due(s)' = Due(s)
  PROVE  Flow(c)'
BY DEF Flow

\* The lane, and each line it is a part of, is as good after a step as before.
Survives(p, c, msgs, from, p2, msgs2, to) ==
  /\ GoodLane(p2, c, msgs2, to)
  /\ \A r : GoodRead(r, p, c, msgs) => GoodRead(r, p2, c, msgs2)
  /\ \A r, q : GoodRead(r, p, c, msgs) /\ GoodLine(r, q, p, c, msgs, from)
                 => GoodLine(r, q, p2, c, msgs2, to)

\* A step keeps the types of what belongs to the writing processes, and all but that
\* of c.
Touches(c) ==
  /\ last_ids' \in [Clients -> 0..MAX_LAST_ID] /\ written' \in [Clients -> Seq(SentMessage)]
  /\ socket' \in [Clients -> Seq(BusItem)] /\ outgoing' \in [Clients -> Seq(BusItem)]
  /\ \A d \in Clients : Len(socket'[d]) <= SOCKET_SIZE
  /\ \A d \in Clients : d # c =>
       socket'[d] = socket[d] /\ outgoing'[d] = outgoing[d] /\ written'[d] = written[d]

\* A step of writing process c that its lane, and each line it is a part of, survives.
LEMMA ClientPart ==
  ASSUME NEW c \in Clients, NEW from, NEW to \in {"new", "idle", "flush", "gone"},
         DBusInv, ClientStep(c, from, to),
         Touches(c), Survives(Ahead(c), c, written[c], from, Ahead(c)', written'[c], to)
  PROVE  DBusInv'
<1>1. /\ cpc[c] = from /\ cpc' = [cpc EXCEPT ![c] = to]
      /\ names' = names /\ inbox' = inbox /\ incoming' = incoming /\ spc' = spc
      /\ reads' = reads /\ foreign' = foreign
  BY DEF ClientStep, svars
<1>2. cpc'[c] = to /\ \A d \in Clients : d # c => cpc'[d] = cpc[d]
  BY <1>1 DEF DBusInv, Basics
<1>3. Basics'
  BY <1>1 DEF DBusInv, Basics, Touches
<1>4. Carriers'
  BY <1>1 DEF DBusInv, Carriers, Touches
<1>5. NamesInv'
  BY <1>1 DEF DBusInv, NamesInv, Alive
<1>6. \A s \in Servers : /\ reads'[s] = reads[s] /\ Due(s)' = Due(s)
                         /\ Alive(s)' <=> Alive(s)
  BY <1>1 DEF Due, Alive
<1>7. ASSUME NEW d \in Clients
      PROVE  Flow(d)'
  <2>1. Flow(d)
    BY DEF DBusInv
  <2>2. CASE d = c
    <3>a. PICK p : p = Ahead(c)
      OBVIOUS
    <3>b. PICK p2 : p2 = Ahead(c)'
      OBVIOUS
    <3>c. PICK msgs : msgs = written[c]
      OBVIOUS
    <3>d. PICK msgs2 : msgs2 = written'[c]
      OBVIOUS
    <3>1. /\ Ahead(d)' = p2 /\ written'[d] = msgs2 /\ cpc'[d] = to
          /\ Ahead(d) = p /\ written[d] = msgs /\ cpc[d] = from
      BY <1>1, <1>2, <2>2, <3>a, <3>b, <3>c, <3>d
    <3>2. /\ GoodLane(p2, c, msgs2, to)
          /\ \A r : GoodRead(r, p, c, msgs) => GoodRead(r, p2, c, msgs2)
          /\ \A r, q : GoodRead(r, p, c, msgs) /\ GoodLine(r, q, p, c, msgs, from)
                         => GoodLine(r, q, p2, c, msgs2, to)
      BY <3>a, <3>b, <3>c, <3>d DEF Survives
    <3>4. GoodLane(Ahead(d)', d, written'[d], cpc'[d])
      BY <2>2, <3>1, <3>2
    <3>3. ASSUME NEW s \in Servers
          PROVE  /\ GoodRead(reads'[s], Ahead(d)', d, written'[d])
                 /\ Alive(s)' => GoodLine(reads'[s], Due(s)', Ahead(d)', d, written'[d], cpc'[d])
                 /\ \A t \in Servers : t # s =>
                      /\ ReadOf(reads'[t], d) \cap ReadOf(reads'[s], d) = {}
                      /\ Alive(s)' => ReadOf(reads'[t], d) \cap Numbers(Due(s)', d) = {}
      <4>1. /\ GoodRead(reads[s], p, c, msgs)
            /\ Alive(s) => GoodLine(reads[s], Due(s), p, c, msgs, from)
            /\ \A t \in Servers : t # s =>
                 /\ ReadOf(reads[t], c) \cap ReadOf(reads[s], c) = {}
                 /\ Alive(s) => ReadOf(reads[t], c) \cap Numbers(Due(s), c) = {}
        BY <2>1, <2>2, <3>1 DEF Flow
      <4>2. GoodRead(reads'[s], p2, c, msgs2)
        BY <1>6, <3>2, <4>1
      <4>3. Alive(s) => GoodLine(reads[s], Due(s), p2, c, msgs2, to)
        BY <3>2, <4>1
      <4> QED BY <1>6, <2>2, <3>1, <4>1, <4>2, <4>3
    <3> QED BY <3>3, <3>4 DEF Flow
  <2>3. CASE d # c
    <3>1. Ahead(d)' = Ahead(d) /\ written'[d] = written[d] /\ cpc'[d] = cpc[d]
      BY <1>2, <2>3 DEF Ahead, Touches
    <3> QED BY <1>6, <2>1, <3>1, SameFlow
  <2> QED BY <2>2, <2>3
<1> QED BY <1>3, <1>4, <1>5, <1>7 DEF DBusInv

\* What the invariant says of one writing process.
LEMMA ClientFacts ==
  ASSUME NEW c \in Clients, DBusInv
  PROVE  /\ written[c] \in Seq(SentMessage)
         /\ socket[c] \in Seq(BusItem) /\ outgoing[c] \in Seq(BusItem)
         /\ Ahead(c) \in Seq(BusItem) /\ GoodLane(Ahead(c), c, written[c], cpc[c])
         /\ last_ids \in [Clients -> 0..MAX_LAST_ID] /\ written \in [Clients -> Seq(SentMessage)]
         /\ socket \in [Clients -> Seq(BusItem)] /\ outgoing \in [Clients -> Seq(BusItem)]
         /\ \A d \in Clients : Len(socket[d]) <= SOCKET_SIZE
<1>1. written[c] \in Seq(SentMessage) /\ socket[c] \in Seq(BusItem) /\ outgoing[c] \in Seq(BusItem)
  BY DEF DBusInv, Basics, Carriers
<1>2. Ahead(c) \in Seq(BusItem)
  BY <1>1 DEF Ahead
<1>3. GoodLane(Ahead(c), c, written[c], cpc[c])
  BY DEF DBusInv, Flow
<1> QED BY <1>1, <1>2, <1>3 DEF DBusInv, Basics, Carriers

LEMMA ClientOpenStep ==
  ASSUME NEW c \in Clients, DBusInv, ClientOpen(c)
  PROVE  DBusInv'
<1>1. PICK to \in {"idle", "gone"} : ClientStep(c, "new", to)
  BY DEF ClientOpen
<1>2. outgoing' = outgoing /\ socket' = socket /\ last_ids' = last_ids /\ written' = written
  BY DEF ClientOpen
<1>a. PICK p : p = Ahead(c)
  OBVIOUS
<1>b. PICK msgs : msgs = written[c]
  OBVIOUS
<1>3. cpc[c] = "new"
  BY <1>1 DEF ClientStep
<1>4. GoodLane(p, c, msgs, "new") /\ msgs \in Seq(SentMessage)
  BY <1>3, <1>a, <1>b, ClientFacts
<1>5. /\ GoodLane(p, c, msgs, to)
      /\ \A r, q : GoodRead(r, p, c, msgs) /\ GoodLine(r, q, p, c, msgs, "new")
                     => GoodLine(r, q, p, c, msgs, to)
  BY <1>4, LaneOpens
<1>6. Ahead(c)' = p /\ written'[c] = msgs
  BY <1>2, <1>a, <1>b DEF Ahead
<1>7. Touches(c)
  BY <1>2, ClientFacts DEF Touches
<1>8. Survives(p, c, msgs, "new", p, msgs, to)
  BY <1>5 DEF Survives
<1>9. Survives(Ahead(c), c, written[c], "new", Ahead(c)', written'[c], to)
  BY <1>6, <1>8, <1>a, <1>b
<1> QED BY <1>1, <1>7, <1>9, ClientPart

\* The socket takes the front of the outgoing queue.
LEMMA TransmitFacts ==
  ASSUME NEW c \in Clients, DBusInv, NEW q \in Seq(BusItem), Transmit(c, q)
  PROVE  /\ socket' \in [Clients -> Seq(BusItem)] /\ outgoing' \in [Clients -> Seq(BusItem)]
         /\ \A d \in Clients : Len(socket'[d]) <= SOCKET_SIZE
         /\ \A d \in Clients : d # c => socket'[d] = socket[d] /\ outgoing'[d] = outgoing[d]
         /\ Ahead(c)' = socket[c] \o q
<1>1. PICK k \in 0..Len(q) :
        /\ Len(socket[c]) + k <= SOCKET_SIZE
        /\ socket' = [socket EXCEPT ![c] = @ \o SubSeq(q, 1, k)]
        /\ outgoing' = [outgoing EXCEPT ![c] = SubSeq(q, k + 1, Len(q))]
  BY DEF Transmit
<1>a. PICK a : a = socket[c]
  OBVIOUS
<1>b. PICK x : x = SubSeq(q, 1, k)
  OBVIOUS
<1>c. PICK y : y = SubSeq(q, k + 1, Len(q))
  OBVIOUS
<1>2. /\ socket \in [Clients -> Seq(BusItem)] /\ outgoing \in [Clients -> Seq(BusItem)]
      /\ \A d \in Clients : Len(socket[d]) <= SOCKET_SIZE
      /\ a \in Seq(BusItem)
  BY <1>a, ClientFacts
<1>3. x \in Seq(BusItem) /\ y \in Seq(BusItem) /\ a \o x \in Seq(BusItem) /\ (a \o x) \o y = a \o q
  <2>1. Moved(BusItem, a, q, x, y)
    BY <1>2, <1>b, <1>c, MovedFront
  <2> QED BY <2>1 DEF Moved
<1>4. Len(a \o x) <= SOCKET_SIZE
  <2>1. Len(x) = k /\ Len(q) \in Nat
    <3>1. 1 \in Int /\ k \in Nat /\ \A i \in 1..k : q[i] \in BusItem
      OBVIOUS
    <3>2. Len(SubSeq(q, 1, k)) = IF 1 <= k THEN k - 1 + 1 ELSE 0
      BY ONLY <3>1, SubSeqProperties
    <3> QED BY <1>b, <3>1, <3>2
  <2>2. Len(a \o x) = Len(a) + Len(x)
    BY <1>2, <1>3
  <2> QED BY <1>1, <1>a, <2>1, <2>2
<1>5. socket' = [socket EXCEPT ![c] = a \o x] /\ outgoing' = [outgoing EXCEPT ![c] = y]
  BY <1>1, <1>a, <1>b, <1>c
<1>6. socket'[c] = a \o x /\ outgoing'[c] = y
  BY <1>2, <1>5
<1>7. Ahead(c)' = (a \o x) \o y
  BY <1>6 DEF Ahead
<1>8. \A d \in Clients : d # c => socket'[d] = socket[d] /\ outgoing'[d] = outgoing[d]
  BY <1>2, <1>5
<1>9. \A d \in Clients : Len(socket'[d]) <= SOCKET_SIZE
  BY <1>2, <1>4, <1>6, <1>8
<1>10. socket' \in [Clients -> Seq(BusItem)] /\ outgoing' \in [Clients -> Seq(BusItem)]
  BY <1>2, <1>3, <1>5
<1> QED BY <1>3, <1>7, <1>8, <1>9, <1>10, <1>a

\* The objects are objects, and the bounds are numbers.
LEMMA Constants ==
  /\ BusObjects \subseteq DataObject
  /\ MAX_LAST_ID \in Nat /\ MAX_FOREIGN \in Nat /\ SOCKET_SIZE \in Nat
BY DBusAssumption

\* What joins the end of y joins the end of z.
Behind(a, y, z, x) == a \o y = Append(z, x)

LEMMA AppendedBehind ==
  ASSUME NEW S, NEW a \in Seq(S), NEW q \in Seq(S), NEW x \in S,
         NEW y, y = Append(q, x), NEW z, z = a \o q
  PROVE  Behind(a, y, z, x)
<1>a. PICK u : u = <<x>>
  OBVIOUS
<1>1. u \in Seq(S) /\ z \in Seq(S)
  BY <1>a
<1>2. y = q \o u
  BY <1>a
<1>3. Append(z, x) = z \o u
  BY <1>1, <1>a
<1>4. (a \o q) \o u = a \o (q \o u)
  BY ONLY a \in Seq(S), q \in Seq(S), <1>1, ConcatAssociative
<1> QED BY <1>2, <1>3, <1>4 DEF Behind

LEMMA WriteStep ==
  ASSUME NEW c \in Clients, NEW obj \in BusObjects, DBusInv, Write(c, obj)
  PROVE  DBusInv'
<1>a. PICK p : p = Ahead(c)
  OBVIOUS
<1>b. PICK msgs : msgs = written[c]
  OBVIOUS
<1>c. PICK id : id = last_ids'[c]
  OBVIOUS
<1>d. PICK m : m = [id |-> id, obj |-> obj]
  OBVIOUS
<1>e. PICK x : x = Call(c, Len(msgs) + 1, id, obj)
  OBVIOUS
<1>1. /\ ClientStep(c, "idle", "idle")
      /\ last_ids[c] < MAX_LAST_ID /\ last_ids' = [last_ids EXCEPT ![c] = @ + 1]
      /\ written' = [written EXCEPT ![c] = Append(@, [id |-> last_ids'[c], obj |-> obj])]
      /\ Transmit(c, Append(outgoing[c], Call(c, Len(written'[c]), last_ids'[c], obj)))
  BY DEF Write
<1>2. /\ last_ids \in [Clients -> 0..MAX_LAST_ID] /\ written \in [Clients -> Seq(SentMessage)]
      /\ outgoing[c] \in Seq(BusItem) /\ socket[c] \in Seq(BusItem)
      /\ p \in Seq(BusItem) /\ msgs \in Seq(SentMessage) /\ GoodLane(p, c, msgs, cpc[c])
  BY <1>a, <1>b, ClientFacts
<1>3. last_ids' \in [Clients -> 0..MAX_LAST_ID] /\ id \in Nat
  BY <1>1, <1>2, <1>c, Constants
<1>4. m \in SentMessage /\ obj \in DataObject
  BY <1>3, <1>d, Constants DEF SentMessage
<1>5. written' = [written EXCEPT ![c] = Append(msgs, m)]
  BY <1>1, <1>b, <1>c, <1>d
<1>6. /\ written'[c] = Append(msgs, m) /\ written' \in [Clients -> Seq(SentMessage)]
      /\ Len(written'[c]) = Len(msgs) + 1
      /\ \A d \in Clients : d # c => written'[d] = written[d]
  <2>1. Append(msgs, m) \in Seq(SentMessage) /\ Len(Append(msgs, m)) = Len(msgs) + 1
    BY <1>2, <1>4
  <2>2. written'[c] = Append(msgs, m)
    BY <1>2, <1>5
  <2> QED BY <1>2, <1>5, <2>1, <2>2
<1>7. x \in BusItem
  <2>1. Len(msgs) + 1 \in Nat
    BY <1>2
  <2> QED BY <1>3, <1>4, <1>e, <2>1, CallFacts
<1>f. PICK q : q = Append(outgoing[c], x)
  OBVIOUS
<1>8. q \in Seq(BusItem) /\ Transmit(c, q)
  <2>1. q \in Seq(BusItem)
    BY <1>2, <1>7, <1>f
  <2>2. x = Call(c, Len(written'[c]), last_ids'[c], obj)
    BY <1>6, <1>c, <1>e
  <2> QED BY <1>1, <1>f, <2>1, <2>2
<1>9. Touches(c) /\ Ahead(c)' = socket[c] \o q
  BY <1>3, <1>6, <1>8, TransmitFacts DEF Touches
<1>10. socket[c] \o q = Append(p, x)
  <2>a. PICK a : a = socket[c]
    OBVIOUS
  <2>b. PICK b : b = outgoing[c]
    OBVIOUS
  <2>1. a \in Seq(BusItem) /\ b \in Seq(BusItem) /\ q = Append(b, x) /\ p = a \o b
    BY <1>2, <1>a, <1>f, <2>a, <2>b DEF Ahead
  <2>2. Behind(a, q, p, x)
    BY <1>7, <2>1, AppendedBehind
  <2> QED BY <2>2, <2>a DEF Behind
<1>11. GoodLane(p, c, msgs, "idle")
  BY <1>1, <1>2 DEF ClientStep
<1>12. Survives(p, c, msgs, "idle", Append(p, x), Append(msgs, m), "idle")
  <2>1. /\ GoodLane(Append(p, x), c, Append(msgs, m), "idle")
        /\ \A r : GoodRead(r, p, c, msgs) => GoodRead(r, Append(p, x), c, Append(msgs, m))
        /\ \A r, q2 : GoodRead(r, p, c, msgs) /\ GoodLine(r, q2, p, c, msgs, "idle")
                       => GoodLine(r, q2, Append(p, x), c, Append(msgs, m), "idle")
    BY <1>2, <1>3, <1>4, <1>11, <1>d, <1>e, LaneWrites
  <2> QED BY <2>1 DEF Survives
<1>13. Survives(Ahead(c), c, written[c], "idle", Ahead(c)', written'[c], "idle")
  BY <1>6, <1>9, <1>10, <1>12, <1>a, <1>b
<1> QED BY <1>1, <1>9, <1>13, ClientPart

\* A step that leaves the queues and what was sent alone, and does not begin to write.
LEMMA ClientMoves ==
  ASSUME NEW c \in Clients, NEW from, NEW to \in {"idle", "flush", "gone"},
         DBusInv, ClientStep(c, from, to), to = "idle" => from = "idle",
         last_ids' \in [Clients -> 0..MAX_LAST_ID], written' = written,
         socket' \in [Clients -> Seq(BusItem)], outgoing' \in [Clients -> Seq(BusItem)],
         \A d \in Clients : Len(socket'[d]) <= SOCKET_SIZE,
         \A d \in Clients : d # c => socket'[d] = socket[d] /\ outgoing'[d] = outgoing[d],
         Ahead(c)' = Ahead(c)
  PROVE  DBusInv'
<1>a. PICK p : p = Ahead(c)
  OBVIOUS
<1>b. PICK msgs : msgs = written[c]
  OBVIOUS
<1>1. GoodLane(p, c, msgs, from)
  BY <1>a, <1>b, ClientFacts DEF ClientStep
<1>2. Survives(p, c, msgs, from, p, msgs, to)
  <2>1. CASE to = "idle"
    BY <1>1, <2>1 DEF Survives
  <2>2. CASE to # "idle"
    <3>1. /\ GoodLane(p, c, msgs, to)
          /\ \A r, q : GoodLine(r, q, p, c, msgs, from) => GoodLine(r, q, p, c, msgs, to)
      BY <1>1, <2>2, LaneStops
    <3> QED BY <3>1 DEF Survives
  <2> QED BY <2>1, <2>2
<1>3. Survives(Ahead(c), c, written[c], from, Ahead(c)', written'[c], to)
  BY <1>2, <1>a, <1>b
<1>4. Touches(c)
  BY ClientFacts DEF Touches
<1>5. to \in {"new", "idle", "flush", "gone"}
  OBVIOUS
<1> QED BY <1>3, <1>4, <1>5, ClientPart

LEMMA WriteTooLongStep ==
  ASSUME NEW c \in Clients, NEW obj \in BusObjects, DBusInv, WriteTooLong(c, obj)
  PROVE  DBusInv'
<1>1. /\ ClientStep(c, "idle", "idle") /\ Ahead(c)' = Ahead(c)
      /\ outgoing' = outgoing /\ socket' = socket /\ last_ids' = last_ids /\ written' = written
  BY DEF WriteTooLong, Ahead
<1> QED BY <1>1, ClientFacts, ClientMoves

LEMMA WriteOutOfMemoryStep ==
  ASSUME NEW c \in Clients, NEW obj \in BusObjects, DBusInv, WriteOutOfMemory(c, obj)
  PROVE  DBusInv'
<1>1. /\ ClientStep(c, "idle", "idle") /\ Ahead(c)' = Ahead(c)
      /\ outgoing' = outgoing /\ socket' = socket /\ written' = written
      /\ last_ids[c] < MAX_LAST_ID /\ last_ids' = [last_ids EXCEPT ![c] = @ + 1]
  BY DEF WriteOutOfMemory, Ahead
<1>2. last_ids' \in [Clients -> 0..MAX_LAST_ID]
  BY <1>1, ClientFacts, Constants
<1> QED BY <1>1, <1>2, ClientFacts, ClientMoves

LEMMA ClientCloseStep ==
  ASSUME NEW c \in Clients, DBusInv, ClientClose(c)
  PROVE  DBusInv'
<1>1. /\ ClientStep(c, "idle", "flush") /\ Ahead(c)' = Ahead(c)
      /\ outgoing' = outgoing /\ socket' = socket /\ last_ids' = last_ids /\ written' = written
  BY DEF ClientClose, Ahead
<1> QED BY <1>1, ClientFacts, ClientMoves

LEMMA CloseFlushStep ==
  ASSUME NEW c \in Clients, DBusInv, CloseFlush(c)
  PROVE  DBusInv'
<1>1. CASE outgoing[c] = << >>
  <2>1. /\ ClientStep(c, "flush", "gone") /\ Ahead(c)' = Ahead(c)
        /\ outgoing' = outgoing /\ socket' = socket /\ last_ids' = last_ids /\ written' = written
    BY <1>1 DEF CloseFlush, Ahead
  <2> QED BY <2>1, ClientFacts, ClientMoves
<1>2. CASE outgoing[c] # << >>
  <2>1. /\ ClientStep(c, "flush", "flush") /\ Transmit(c, outgoing[c])
        /\ last_ids' = last_ids /\ written' = written
    BY <1>2 DEF CloseFlush
  <2>2. /\ socket' \in [Clients -> Seq(BusItem)] /\ outgoing' \in [Clients -> Seq(BusItem)]
        /\ \A d \in Clients : Len(socket'[d]) <= SOCKET_SIZE
        /\ \A d \in Clients : d # c => socket'[d] = socket[d] /\ outgoing'[d] = outgoing[d]
        /\ Ahead(c)' = socket[c] \o outgoing[c]
    BY <2>1, ClientFacts, TransmitFacts
  <2>3. Ahead(c)' = Ahead(c)
    BY <2>2 DEF Ahead
  <2> QED BY <2>1, <2>2, <2>3, ClientFacts, ClientMoves
<1> QED BY <1>1, <1>2

LEMMA ClientKilledStep ==
  ASSUME NEW c \in Clients, DBusInv, ClientKilled(c)
  PROVE  DBusInv'
<1>1. PICK from \in {"idle", "flush"} : ClientStep(c, from, "gone")
  BY DEF ClientKilled
<1>2. /\ outgoing' = [outgoing EXCEPT ![c] = << >>]
      /\ socket' = socket /\ last_ids' = last_ids /\ written' = written
  BY DEF ClientKilled
<1>a. PICK a : a = socket[c]
  OBVIOUS
<1>b. PICK b : b = outgoing[c]
  OBVIOUS
<1>c. PICK msgs : msgs = written[c]
  OBVIOUS
<1>d. PICK p : p = a \o b
  OBVIOUS
<1>3. /\ a \in Seq(BusItem) /\ b \in Seq(BusItem) /\ msgs \in Seq(SentMessage)
      /\ p = Ahead(c) /\ GoodLane(p, c, msgs, from)
  BY <1>1, <1>a, <1>b, <1>c, <1>d, ClientFacts DEF Ahead, ClientStep
<1>4. outgoing' \in [Clients -> Seq(BusItem)] /\ outgoing'[c] = << >>
  BY <1>2, ClientFacts
<1>5. Ahead(c)' = a
  <2>1. Ahead(c)' = a \o << >>
    BY <1>2, <1>4, <1>a DEF Ahead
  <2> QED BY <1>3, <2>1
<1>6. Touches(c)
  BY <1>2, <1>4, ClientFacts DEF Touches
<1>7. Survives(p, c, msgs, from, a, msgs, "gone")
  <2>1. /\ GoodLane(a, c, msgs, "gone")
        /\ \A r : GoodRead(r, a \o b, c, msgs) => GoodRead(r, a, c, msgs)
        /\ \A r, q : GoodRead(r, a \o b, c, msgs) /\ GoodLine(r, q, a \o b, c, msgs, from)
                       => GoodLine(r, q, a, c, msgs, "gone")
    <3>1. /\ a \in Seq(BusItem) /\ b \in Seq(BusItem) /\ msgs \in Seq(SentMessage)
          /\ GoodLane(a \o b, c, msgs, from)
      BY <1>3, <1>d
    <3> QED BY ONLY <3>1, LaneCut
  <2> QED BY <2>1, <1>d DEF Survives
<1>8. Survives(Ahead(c), c, written[c], from, Ahead(c)', written'[c], "gone")
  BY <1>2, <1>3, <1>5, <1>7, <1>c
<1> QED BY <1>1, <1>6, <1>8, ClientPart

-----------------------------------------------------------------------------
(* The daemon *)

LEMMA ServerFacts ==
  ASSUME NEW s \in Servers, DBusInv
  PROVE  /\ incoming[s] \in Seq(BusItem) /\ inbox[s] \in Seq(BusItem) /\ Due(s) \in Seq(BusItem)
         /\ reads[s] \in Seq(Receipt)
         /\ inbox \in [Servers -> Seq(BusItem)] /\ incoming \in [Servers -> Seq(BusItem)]
         /\ reads \in [Servers -> Seq(Receipt)]
<1>1. incoming[s] \in Seq(BusItem) /\ inbox[s] \in Seq(BusItem)
  BY DEF DBusInv, Carriers
<1>2. Due(s) \in Seq(BusItem)
  BY <1>1 DEF Due
<1> QED BY <1>1, <1>2 DEF DBusInv, Carriers

\* What the daemon delivers goes behind everything that is due at the owner.
LEMMA DeliverFacts ==
  ASSUME DBusInv, NEW x \in BusItem, Deliver(x), incoming' = incoming
  PROVE  /\ inbox' \in [Servers -> Seq(BusItem)]
         /\ \A s \in Servers : Alive(s) => Due(s)' = Append(Due(s), x)
<1>1. inbox \in [Servers -> Seq(BusItem)] /\ incoming \in [Servers -> Seq(BusItem)]
  BY DEF DBusInv, Carriers
<1>2. CASE names = << >>
  <2>1. inbox' = inbox
    BY <1>2 DEF Deliver
  <2>2. \A s \in Servers : ~Alive(s)
    BY <1>2 DEF DBusInv, NamesInv
  <2> QED BY <1>1, <2>1, <2>2
<1>3. CASE names # << >>
  <2>a. PICK o : o = Head(names)
    OBVIOUS
  <2>1. o \in Servers /\ o = names[1]
    BY <1>3, <2>a DEF DBusInv, NamesInv
  <2>2. inbox' = [inbox EXCEPT ![o] = Append(@, x)]
    BY <1>3, <2>a DEF Deliver
  <2>3. Append(inbox[o], x) \in Seq(BusItem)
    BY <1>1, <2>1
  <2>4. inbox' \in [Servers -> Seq(BusItem)] /\ inbox'[o] = Append(inbox[o], x)
    BY <1>1, <2>1, <2>2, <2>3
  <2>5. ASSUME NEW s \in Servers, Alive(s)
        PROVE  Due(s)' = Append(Due(s), x)
    <3>1. s = o
      BY <2>1, <2>5 DEF DBusInv, NamesInv
    <3>a. PICK a : a = incoming[o]
      OBVIOUS
    <3>b. PICK b : b = inbox[o]
      OBVIOUS
    <3>c. PICK y : y = Append(b, x)
      OBVIOUS
    <3>d. PICK z : z = a \o b
      OBVIOUS
    <3>2. a \in Seq(BusItem) /\ b \in Seq(BusItem)
      BY <1>1, <2>1, <3>a, <3>b
    <3>3. Behind(a, y, z, x)
      BY <3>2, <3>c, <3>d, AppendedBehind
    <3>4. Due(s)' = a \o y /\ Due(s) = z
      BY <2>4, <3>1, <3>a, <3>b, <3>c, <3>d DEF Due
    <3> QED BY <3>3, <3>4 DEF Behind
  <2> QED BY <2>4, <2>5
<1> QED BY <1>2, <1>3

\* A message that is not of writing process c goes to the owner of the name.
LEMMA OtherFlow ==
  ASSUME NEW c \in Clients, DBusInv, NEW x \in BusItem, ~IsOf(x, c),
         Ahead(c)' = Ahead(c), written' = written, cpc' = cpc, reads' = reads, spc' = spc,
         \A s \in Servers : Alive(s) => Due(s)' = Append(Due(s), x)
  PROVE  Flow(c)'
<1>1. Flow(c)
  BY DEF DBusInv
<1>2. \A s \in Servers : Alive(s)' <=> Alive(s)
  BY DEF Alive
<1>3. ASSUME NEW s \in Servers, Alive(s)
      PROVE  /\ GoodLine(reads[s], Due(s)', Ahead(c), c, written[c], cpc[c])
             /\ Numbers(Due(s)', c) = Numbers(Due(s), c)
  <2>a. PICK q : q = Due(s)
    OBVIOUS
  <2>1. q \in Seq(BusItem) /\ GoodLine(reads[s], q, Ahead(c), c, written[c], cpc[c])
    BY <1>1, <1>3, <2>a, ServerFacts DEF Flow
  <2>2. GoodLine(reads[s], Append(q, x), Ahead(c), c, written[c], cpc[c])
    BY <2>1, LineGets
  <2>3. Numbers(Append(q, x), c) = Numbers(q, c)
    BY <2>1, NumbersAppend
  <2>4. Due(s)' = Append(q, x)
    BY <1>3, <2>a
  <2> QED BY <2>2, <2>3, <2>4, <2>a
<1> QED BY <1>1, <1>2, <1>3 DEF Flow

LEMMA RouteStep ==
  ASSUME NEW c \in Clients, DBusInv, Route(c)
  PROVE  DBusInv'
<1>1. /\ socket[c] # << >> /\ socket' = [socket EXCEPT ![c] = Tail(@)]
      /\ Deliver(Head(socket[c]))
      /\ names' = names /\ incoming' = incoming /\ spc' = spc /\ reads' = reads
      /\ cpc' = cpc /\ outgoing' = outgoing /\ last_ids' = last_ids /\ written' = written
      /\ foreign' = foreign
  BY DEF Route, cvars
<1>a. PICK a : a = socket[c]
  OBVIOUS
<1>b. PICK b : b = outgoing[c]
  OBVIOUS
<1>c. PICK h : h = Head(a)
  OBVIOUS
<1>d. PICK p : p = Ahead(c)
  OBVIOUS
<1>e. PICK p2 : p2 = Ahead(c)'
  OBVIOUS
<1>2. /\ socket \in [Clients -> Seq(BusItem)] /\ a \in Seq(BusItem) /\ b \in Seq(BusItem) /\ a # << >>
      /\ \A d \in Clients : Len(socket[d]) <= SOCKET_SIZE
      /\ p = a \o b
  BY <1>1, <1>a, <1>b, <1>d, ClientFacts DEF Ahead
<1>3. /\ socket'[c] = Tail(a) /\ socket' \in [Clients -> Seq(BusItem)]
      /\ \A d \in Clients : d # c => socket'[d] = socket[d]
  BY <1>1, <1>2, <1>a
<1>4. p2 = Tail(a) \o b
  BY <1>1, <1>3, <1>b, <1>e DEF Ahead
<1>5. p \in Seq(BusItem) /\ p # << >> /\ Head(p) = h /\ Tail(p) = p2
  <2>1. a \o b \in Seq(BusItem) /\ a \o b # << >> /\ Head(a \o b) = Head(a)
    BY <1>2
  <2>2. Tail(a \o b) = Tail(a) \o b
    BY <1>2
  <2> QED BY <1>2, <1>4, <1>c, <2>1, <2>2
<1>6. /\ written[c] \in Seq(SentMessage) /\ GoodLane(p, c, written[c], cpc[c])
  BY <1>d, ClientFacts
<1>7. /\ h \in BusItem /\ IsOf(h, c)
      /\ GoodLane(p2, c, written[c], cpc[c])
      /\ \A r : GoodRead(r, p, c, written[c])
                  => GoodRead(r, p2, c, written[c]) /\ h.n \notin ReadOf(r, c)
      /\ \A r : \A q \in Seq(BusItem) :
           GoodRead(r, p, c, written[c]) /\ GoodLine(r, q, p, c, written[c], cpc[c])
             => GoodLine(r, Append(q, h), p2, c, written[c], cpc[c])
  <2>a. PICK msgs : msgs = written[c]
    OBVIOUS
  <2>b. PICK pc : pc = cpc[c]
    OBVIOUS
  <2>1. msgs \in Seq(SentMessage) /\ GoodLane(p, c, msgs, pc) /\ h = Head(p) /\ p2 = Tail(p)
    BY <1>5, <1>6, <2>a, <2>b
  <2> QED BY <1>5, <2>1, <2>a, <2>b, LaneRoutes
<1>8. /\ inbox' \in [Servers -> Seq(BusItem)]
      /\ \A s \in Servers : Alive(s) => Due(s)' = Append(Due(s), h)
  BY <1>1, <1>7, <1>a, <1>c, DeliverFacts
<1>9. \A s \in Servers : Alive(s)' <=> Alive(s)
  BY <1>1 DEF Alive
<1>10. Flow(c)'
  <2>1. ASSUME NEW s \in Servers
        PROVE  /\ GoodRead(reads[s], p2, c, written[c]) /\ h.n \notin ReadOf(reads[s], c)
               /\ Alive(s) => GoodLine(reads[s], Due(s)', p2, c, written[c], cpc[c])
               /\ Alive(s) => Numbers(Due(s)', c) = Numbers(Due(s), c) \cup {h.n}
    <3>a. PICK q : q = Due(s)
      OBVIOUS
    <3>b. PICK r : r = reads[s]
      OBVIOUS
    <3>1. /\ GoodRead(r, p, c, written[c]) /\ q \in Seq(BusItem)
          /\ Alive(s) => GoodLine(r, q, p, c, written[c], cpc[c])
      BY <1>d, <3>a, <3>b, ServerFacts DEF DBusInv, Flow
    <3>2. GoodRead(r, p2, c, written[c]) /\ h.n \notin ReadOf(r, c)
      BY <1>7, <3>1
    <3>3. Alive(s) => GoodLine(r, Append(q, h), p2, c, written[c], cpc[c])
      BY <1>7, <3>1
    <3>4. Numbers(Append(q, h), c) = Numbers(q, c) \cup {h.n}
      BY <1>7, <3>1, NumbersAppend
    <3>5. Alive(s) => Due(s)' = Append(q, h)
      BY <1>8, <3>a
    <3> QED BY <3>2, <3>3, <3>4, <3>5, <3>a, <3>b
  <2>2. \A s, t \in Servers : t # s =>
          /\ ReadOf(reads[t], c) \cap ReadOf(reads[s], c) = {}
          /\ Alive(s) => ReadOf(reads[t], c) \cap Numbers(Due(s), c) = {}
    BY DEF DBusInv, Flow
  <2>3. \A s, t \in Servers : t # s =>
          (Alive(s) => ReadOf(reads[t], c) \cap Numbers(Due(s)', c) = {})
    BY <2>1, <2>2
  <2> QED BY <1>1, <1>7, <1>9, <1>e, <2>1, <2>2, <2>3 DEF Flow
<1>11. ASSUME NEW d \in Clients, d # c
       PROVE  Flow(d)'
  <2>1. ~IsOf(h, d)
    BY <1>7, <1>11 DEF IsOf
  <2>2. Ahead(d)' = Ahead(d)
    BY <1>1, <1>3, <1>11 DEF Ahead
  <2> QED BY <1>1, <1>7, <1>8, <2>1, <2>2, OtherFlow
<1>12. Basics'
  BY <1>1 DEF DBusInv, Basics
<1>13. Carriers'
  <2>1. Len(Tail(a)) <= SOCKET_SIZE
    BY <1>2, <1>a, Constants
  <2>2. \A d \in Clients : Len(socket'[d]) <= SOCKET_SIZE
    BY <1>2, <1>3, <2>1
  <2> QED BY <1>1, <1>3, <1>8, <2>2 DEF DBusInv, Carriers
<1>14. NamesInv'
  BY <1>1, <1>9 DEF DBusInv, NamesInv
<1> QED BY <1>10, <1>11, <1>12, <1>13, <1>14 DEF DBusInv

LEMMA StrangerStep ==
  ASSUME DBusInv, Stranger
  PROVE  DBusInv'
<1>1. /\ foreign < MAX_FOREIGN /\ foreign' = foreign + 1 /\ Deliver(BadCall)
      /\ names' = names /\ incoming' = incoming /\ spc' = spc /\ reads' = reads
      /\ cpc' = cpc /\ outgoing' = outgoing /\ last_ids' = last_ids /\ written' = written
      /\ socket' = socket
  BY DEF Stranger, cvars
<1>2. BadCall \in BusItem /\ \A c : ~IsOf(BadCall, c)
  BY ItemFacts DEF BusItem, IsOf
<1>3. /\ inbox' \in [Servers -> Seq(BusItem)]
      /\ \A s \in Servers : Alive(s) => Due(s)' = Append(Due(s), BadCall)
  BY <1>1, <1>2, DeliverFacts
<1>4. ASSUME NEW c \in Clients
      PROVE  Flow(c)'
  <2>1. Ahead(c)' = Ahead(c)
    BY <1>1 DEF Ahead
  <2> QED BY <1>1, <1>2, <1>3, <2>1, OtherFlow
<1>5. Basics'
  BY <1>1, Constants DEF DBusInv, Basics
<1>6. Carriers'
  BY <1>1, <1>3 DEF DBusInv, Carriers
<1>7. NamesInv'
  BY <1>1 DEF DBusInv, NamesInv, Alive
<1> QED BY <1>4, <1>5, <1>6, <1>7 DEF DBusInv

-----------------------------------------------------------------------------
(* The reading processes *)

\* A step of reading process s that the names, the queues and each flow survive.
LEMMA ServerPart ==
  ASSUME NEW s \in Servers, NEW from,
         NEW to \in {"new", "release", "await", "read", "dead", "gone"},
         DBusInv, ServerStep(s, from, to),
         inbox' \in [Servers -> Seq(BusItem)], incoming' \in [Servers -> Seq(BusItem)],
         reads' \in [Servers -> Seq(Receipt)],
         NamesInv', \A c \in Clients : Flow(c)'
  PROVE  DBusInv'
<1>1. /\ spc' = [spc EXCEPT ![s] = to] /\ socket' = socket /\ foreign' = foreign
      /\ cpc' = cpc /\ outgoing' = outgoing /\ last_ids' = last_ids /\ written' = written
  BY DEF ServerStep, cvars
<1>2. Basics'
  BY <1>1 DEF DBusInv, Basics
<1>3. Carriers'
  BY <1>1 DEF DBusInv, Carriers
<1> QED BY <1>2, <1>3 DEF DBusInv

LEMMA StepFacts ==
  ASSUME NEW s \in Servers, NEW from, NEW to, DBusInv, ServerStep(s, from, to)
  PROVE  /\ spc[s] = from /\ spc'[s] = to
         /\ \A t \in Servers : t # s => spc'[t] = spc[t] /\ (Alive(t)' <=> Alive(t))
         /\ Alive(s) <=> from \in {"await", "read"}
         /\ Alive(s)' <=> to \in {"await", "read"}
         /\ \A c \in Clients : Ahead(c)' = Ahead(c)
         /\ written' = written /\ cpc' = cpc
<1>1. /\ spc[s] = from /\ spc' = [spc EXCEPT ![s] = to] /\ socket' = socket
      /\ outgoing' = outgoing /\ written' = written /\ cpc' = cpc
  BY DEF ServerStep, cvars
<1>2. spc'[s] = to /\ \A t \in Servers : t # s => spc'[t] = spc[t]
  BY <1>1 DEF DBusInv, Basics
<1> QED BY <1>1, <1>2 DEF Alive, Ahead

\* Nobody reads anything, and who reads on has the same due.
LEMMA ServerMoves ==
  ASSUME NEW s \in Servers, NEW from, NEW to, DBusInv, ServerStep(s, from, to),
         reads' = reads,
         to \in {"await", "read"} => from \in {"await", "read"} /\ Due(s)' = Due(s),
         \A t \in Servers : t # s /\ Alive(t) => Due(t)' = Due(t)
  PROVE  \A c \in Clients : Flow(c)'
<1> SUFFICES ASSUME NEW c \in Clients
             PROVE  Flow(c)'
  OBVIOUS
<1>1. \A t \in Servers : reads'[t] = reads[t] /\ (Alive(t)' => Alive(t) /\ Due(t)' = Due(t))
  BY StepFacts
<1>2. Flow(c) /\ Ahead(c)' = Ahead(c) /\ written'[c] = written[c] /\ cpc'[c] = cpc[c]
  BY StepFacts DEF DBusInv
<1> QED BY <1>1, <1>2, SameFlow

\* The queue for the name stays as it is while s goes on, or is killed.
LEMMA SameNames ==
  ASSUME NEW s \in Servers, NEW from \in {"await", "read", "release"},
         NEW to \in {"await", "read", "dead"}, DBusInv, ServerStep(s, from, to),
         names' = names, to \in {"await", "read"} => from \in {"await", "read"},
         \A t \in Servers : t # s => reads'[t] = reads[t]
  PROVE  NamesInv'
<1>1. /\ names \in Seq(Servers)
      /\ \A i, j \in 1..Len(names) : names[i] = names[j] => i = j
      /\ \A i \in 1..Len(names) : spc[names[i]] \in {"await", "read", "release", "dead"}
      /\ \A t \in Servers : Alive(t) => names # << >> /\ names[1] = t
      /\ \A t \in Servers : spc[t] = "new" => reads[t] = << >>
  BY DEF DBusInv, NamesInv
<1>2. \A i \in 1..Len(names) : names[i] \in Servers
  BY <1>1
<1>3. \A i \in 1..Len(names) : spc'[names[i]] \in {"await", "read", "release", "dead"}
  BY <1>1, <1>2, StepFacts
<1>4. \A t \in Servers : Alive(t)' => names # << >> /\ names[1] = t
  BY <1>1, StepFacts
<1>5. \A t \in Servers : spc'[t] = "new" => reads'[t] = << >>
  <2>1. spc'[s] # "new" /\ \A t \in Servers : t # s => spc'[t] = spc[t]
    BY StepFacts
  <2> QED BY <1>1, <2>1
<1> QED BY <1>1, <1>3, <1>4, <1>5 DEF NamesInv

LEMMA ServerConnectFailsStep ==
  ASSUME NEW s \in Servers, DBusInv, ServerConnectFails(s)
  PROVE  DBusInv'
<1>1. /\ ServerStep(s, "new", "gone") /\ names' = names /\ inbox' = inbox
      /\ incoming' = incoming /\ reads' = reads
  BY DEF ServerConnectFails
<1>2. \A t \in Servers : Due(t)' = Due(t)
  BY <1>1 DEF Due
<1>3. \A c \in Clients : Flow(c)'
  BY <1>1, <1>2, ServerMoves
<1>4. NamesInv'
  <2>1. /\ names \in Seq(Servers)
        /\ \A i, j \in 1..Len(names) : names[i] = names[j] => i = j
        /\ \A i \in 1..Len(names) : spc[names[i]] \in {"await", "read", "release", "dead"}
        /\ \A t \in Servers : Alive(t) => names # << >> /\ names[1] = t
        /\ \A t \in Servers : spc[t] = "new" => reads[t] = << >>
    BY DEF DBusInv, NamesInv
  <2>2. /\ spc[s] = "new" /\ spc'[s] = "gone" /\ ~Alive(s)'
        /\ \A t \in Servers : t # s => spc'[t] = spc[t] /\ (Alive(t)' <=> Alive(t))
    BY <1>1, StepFacts
  <2>3. \A i \in 1..Len(names) : names[i] \in Servers /\ names[i] # s
    BY <2>1, <2>2
  <2>4. \A i \in 1..Len(names) : spc'[names[i]] \in {"await", "read", "release", "dead"}
    BY <2>1, <2>2, <2>3
  <2> QED BY <1>1, <2>1, <2>2, <2>4 DEF NamesInv
<1> QED BY <1>1, <1>3, <1>4, ServerFacts, ServerPart

\* Who asks for the name is not in the queue for it yet.
LEMMA JoinsNames ==
  ASSUME NEW s \in Servers, NEW to \in {"await", "release"}, DBusInv,
         ServerStep(s, "new", to), to = "await" => names = << >>,
         names' = Append(names, s), reads' = reads
  PROVE  NamesInv'
<1>1. /\ names \in Seq(Servers)
      /\ \A i, j \in 1..Len(names) : names[i] = names[j] => i = j
      /\ \A i \in 1..Len(names) : spc[names[i]] \in {"await", "read", "release", "dead"}
      /\ \A t \in Servers : Alive(t) => names # << >> /\ names[1] = t
      /\ \A t \in Servers : spc[t] = "new" => reads[t] = << >>
  BY DEF DBusInv, NamesInv
<1>2. /\ spc[s] = "new" /\ spc'[s] = to
      /\ \A t \in Servers : t # s => spc'[t] = spc[t] /\ (Alive(t)' <=> Alive(t))
      /\ Alive(s)' <=> to = "await"
  BY StepFacts
<1>3. \A i \in 1..Len(names) : names[i] \in Servers /\ names[i] # s
  BY <1>1, <1>2
<1>4. /\ names' \in Seq(Servers) /\ Len(names) \in Nat /\ Len(names') = Len(names) + 1
      /\ names'[Len(names) + 1] = s /\ \A i \in 1..Len(names) : names'[i] = names[i]
  BY <1>1
<1>5. \A i : i \in 1..Len(names') <=> (i \in 1..Len(names) \/ i = Len(names) + 1)
  BY <1>4
<1>6. \A i, j \in 1..Len(names') : names'[i] = names'[j] => i = j
  BY <1>1, <1>3, <1>4, <1>5
<1>7. \A i \in 1..Len(names') : spc'[names'[i]] \in {"await", "read", "release", "dead"}
  BY <1>1, <1>2, <1>3, <1>4, <1>5
<1>8. ASSUME NEW t \in Servers, Alive(t)'
      PROVE  names' # << >> /\ names'[1] = t
  <2>1. names' # << >>
    BY <1>4
  <2>2. CASE t = s
    <3>1. Len(names) = 0
      BY <1>2, <1>8, <2>2
    <3> QED BY <1>4, <2>1, <2>2, <3>1
  <2>3. CASE t # s
    <3>1. names # << >> /\ names[1] = t
      BY <1>1, <1>2, <1>8, <2>3
    <3>2. 1 \in 1..Len(names)
      BY <1>1, <3>1
    <3> QED BY <1>4, <2>1, <3>1, <3>2
  <2> QED BY <2>2, <2>3
<1>9. \A t \in Servers : spc'[t] = "new" => reads'[t] = << >>
  BY <1>1, <1>2
<1> QED BY <1>4, <1>6, <1>7, <1>8, <1>9 DEF NamesInv

LEMMA ServerInQueueStep ==
  ASSUME NEW s \in Servers, DBusInv, ServerInQueue(s)
  PROVE  DBusInv'
<1>1. /\ ServerStep(s, "new", "release") /\ names' = Append(names, s)
      /\ incoming' = [incoming EXCEPT ![s] = <<Signal>>]
      /\ inbox' = inbox /\ reads' = reads
  BY DEF ServerInQueue
<1>2. incoming \in [Servers -> Seq(BusItem)] /\ <<Signal>> \in Seq(BusItem)
  BY ServerFacts DEF BusItem
<1>3. /\ incoming' \in [Servers -> Seq(BusItem)]
      /\ \A t \in Servers : t # s => incoming'[t] = incoming[t]
  BY <1>1, <1>2
<1>4. \A t \in Servers : t # s => Due(t)' = Due(t)
  BY <1>1, <1>3 DEF Due
<1>5. \A c \in Clients : Flow(c)'
  BY <1>1, <1>4, ServerMoves
<1>6. NamesInv'
  BY <1>1, JoinsNames
<1> QED BY <1>1, <1>3, <1>5, <1>6, ServerFacts, ServerPart

\* Nothing was read, and nothing of c is due.
LEMMA LineStarts ==
  ASSUME NEW c, NEW r, Len(r) = 0, NEW q, \A k \in 1..Len(q) : ~IsOf(q[k], c),
         NEW p, NEW msgs, NEW pc, GoodLane(p, c, msgs, pc)
  PROVE  GoodLine(r, q, p, c, msgs, pc) /\ Numbers(q, c) = {} /\ ReadOf(r, c) = {}
<1>1. ReadOf(r, c) = {} /\ Numbers(q, c) = {}
  BY DEF ReadOf, Numbers
<1>2. Rising(q, c) /\ TrueTo(q, c, msgs)
  BY DEF Rising, TrueTo
<1> QED BY <1>1, <1>2 DEF GoodLine, GoodLane, Below

LEMMA ServerOpenStep ==
  ASSUME NEW s \in Servers, DBusInv, ServerOpen(s)
  PROVE  DBusInv'
<1>1. /\ names = << >> /\ ServerStep(s, "new", "await") /\ names' = <<s>>
      /\ inbox' = [inbox EXCEPT ![s] = <<Signal>>]
      /\ incoming' = [incoming EXCEPT ![s] = <<Signal>>]
      /\ reads' = reads
  BY DEF ServerOpen
<1>2. /\ incoming \in [Servers -> Seq(BusItem)] /\ inbox \in [Servers -> Seq(BusItem)]
      /\ <<Signal>> \in Seq(BusItem)
  BY ServerFacts DEF BusItem
<1>3. /\ incoming' \in [Servers -> Seq(BusItem)] /\ inbox' \in [Servers -> Seq(BusItem)]
      /\ incoming'[s] = <<Signal>> /\ inbox'[s] = <<Signal>>
      /\ \A t \in Servers : t # s => incoming'[t] = incoming[t] /\ inbox'[t] = inbox[t]
  BY <1>1, <1>2
<1>4. /\ \A t \in Servers : ~Alive(t)
      /\ reads[s] = << >>
  BY <1>1, StepFacts DEF DBusInv, NamesInv
<1>5. /\ \A t \in Servers : t # s => ~Alive(t)'
      /\ written' = written /\ cpc' = cpc /\ \A c \in Clients : Ahead(c)' = Ahead(c)
  BY <1>1, <1>4, StepFacts
<1>a. PICK q : q = Due(s)'
  OBVIOUS
<1>6. \A k \in 1..Len(q) : \A c : ~IsOf(q[k], c)
  <2>1. q = <<Signal>> \o <<Signal>>
    BY <1>3, <1>a DEF Due
  <2>2. \A k \in 1..Len(q) : q[k] = Signal
    BY <2>1
  <2>3. Signal \in BusItem /\ \A c : ~IsOf(Signal, c)
    BY ItemFacts DEF BusItem, IsOf
  <2> QED BY <2>2, <2>3
<1>7. ASSUME NEW c \in Clients
      PROVE  Flow(c)'
  <2>1. Flow(c)
    BY DEF DBusInv
  <2>2. /\ GoodLine(reads[s], q, Ahead(c), c, written[c], cpc[c])
        /\ Numbers(q, c) = {} /\ ReadOf(reads[s], c) = {}
    <3>1. Len(reads[s]) = 0
      BY <1>4
    <3>2. GoodLane(Ahead(c), c, written[c], cpc[c])
      BY <2>1 DEF Flow
    <3> QED BY <1>6, <3>1, <3>2, LineStarts
  <2> QED BY <1>1, <1>5, <1>a, <2>1, <2>2 DEF Flow
<1>8. NamesInv'
  <2>1. names' = Append(names, s)
    BY <1>1
  <2> QED BY <1>1, <2>1, JoinsNames
<1> QED BY <1>1, <1>3, <1>7, <1>8, ServerFacts, ServerPart

\* Who leaves the queue for the name was in it once; the others keep their order.
LEMMA LeavesNames ==
  ASSUME NEW s \in Servers, NEW from \in {"await", "read", "release", "dead"}, DBusInv,
         ServerStep(s, from, "gone"), NEW k \in 1..Len(names), names[k] = s,
         names' = [i \in 1..(Len(names) - 1) |-> names[IF i < k THEN i ELSE i + 1]],
         reads' = reads
  PROVE  NamesInv'
<1>1. /\ names \in Seq(Servers) /\ Len(names) \in Nat
      /\ \A i, j \in 1..Len(names) : names[i] = names[j] => i = j
      /\ \A i \in 1..Len(names) : spc[names[i]] \in {"await", "read", "release", "dead"}
      /\ \A t \in Servers : Alive(t) => names # << >> /\ names[1] = t
      /\ \A t \in Servers : spc[t] = "new" => reads[t] = << >>
  BY DEF DBusInv, NamesInv
<1>2. /\ spc'[s] = "gone" /\ ~Alive(s)'
      /\ \A t \in Servers : t # s => spc'[t] = spc[t] /\ (Alive(t)' <=> Alive(t))
  BY StepFacts
<1> DEFINE at(i) == IF i < k THEN i ELSE i + 1
<1> DEFINE n == Len(names) - 1
<1>3. n \in Nat /\ \A i \in 1..n : at(i) \in 1..Len(names) /\ at(i) # k
  BY <1>1
<1>4. \A i, j \in 1..n : at(i) = at(j) => i = j
  BY <1>3
<1>5. \A i \in 1..n : names[at(i)] \in Servers /\ names[at(i)] # s
  BY <1>1, <1>3
<1>6. names' \in Seq(Servers) /\ Len(names') = n /\ \A i \in 1..n : names'[i] = names[at(i)]
  BY <1>3, <1>5
<1>7. \A i, j \in 1..Len(names') : names'[i] = names'[j] => i = j
  <2> SUFFICES ASSUME NEW i \in 1..n, NEW j \in 1..n, names'[i] = names'[j]
               PROVE  i = j
    BY <1>6
  <2>1. names[at(i)] = names[at(j)] /\ at(i) \in 1..Len(names) /\ at(j) \in 1..Len(names)
    BY <1>3, <1>6
  <2> HIDE DEF at, n
  <2>2. at(i) = at(j)
    BY ONLY <1>1, <2>1
  <2> QED BY ONLY <1>4, <2>2
<1>8. \A i \in 1..Len(names') : spc'[names'[i]] \in {"await", "read", "release", "dead"}
  <2> SUFFICES ASSUME NEW i \in 1..n
               PROVE  spc'[names'[i]] \in {"await", "read", "release", "dead"}
    BY <1>6
  <2> DEFINE u == names[at(i)]
  <2>1. names'[i] = u /\ u \in Servers /\ u # s
    BY <1>5, <1>6
  <2>2. spc[u] \in {"await", "read", "release", "dead"}
    <3>1. at(i) \in 1..Len(names)
      BY <1>3
    <3> QED BY ONLY <1>1, <3>1
  <2> HIDE DEF at, n, u
  <2> QED BY <1>2, <2>1, <2>2
<1>9. ASSUME NEW t \in Servers, Alive(t)'
      PROVE  names' # << >> /\ names'[1] = t
  <2>1. t # s /\ names[1] = t
    BY <1>1, <1>2, <1>9
  <2>2. 1 < k
    BY <2>1
  <2>3. 1 \in 1..n /\ at(1) = 1
    BY <1>1, <2>2
  <2> HIDE DEF at, n
  <2> QED BY <1>6, <2>1, <2>3
<1>10. \A t \in Servers : spc'[t] = "new" => reads'[t] = << >>
  BY <1>1, <1>2
<1> QED BY <1>6, <1>7, <1>8, <1>9, <1>10 DEF NamesInv

LEMMA WithdrawStep ==
  ASSUME NEW s \in Servers, NEW from \in {"await", "read", "release", "dead"}, DBusInv,
         ServerStep(s, from, "gone"), Withdraw(s)
  PROVE  DBusInv'
<1> DEFINE rest(k) == [i \in 1..(Len(names) - 1) |-> names[IF i < k THEN i ELSE i + 1]]
<1>1. PICK k \in DOMAIN names :
        /\ names[k] = s /\ names' = rest(k)
        /\ incoming' = [incoming EXCEPT ![s] = << >>]
        /\ inbox' = [t \in Servers |->
                       IF t = s THEN << >>
                       ELSE IF k = 1 /\ rest(k) # << >> /\ Head(rest(k)) = t
                       THEN Append(inbox[t], Signal)
                       ELSE inbox[t]]
        /\ reads' = reads
  BY DEF Withdraw
<1>2. k \in 1..Len(names)
  BY DEF DBusInv, NamesInv
<1>3. NamesInv'
  BY <1>1, <1>2, LeavesNames
<1>4. /\ incoming \in [Servers -> Seq(BusItem)] /\ inbox \in [Servers -> Seq(BusItem)]
      /\ << >> \in Seq(BusItem) /\ Signal \in BusItem
  BY ServerFacts DEF BusItem
<1> DEFINE Told(t) == k = 1 /\ rest(k) # << >> /\ Head(rest(k)) = t
<1>5. inbox' = [t \in Servers |-> IF t = s THEN << >>
                                  ELSE IF Told(t) THEN Append(inbox[t], Signal) ELSE inbox[t]]
  BY <1>1
<1>6. \A t : Told(t) => k = 1
  OBVIOUS
<1> HIDE DEF Told, rest
<1>7. /\ incoming' \in [Servers -> Seq(BusItem)]
      /\ \A t \in Servers : t # s => incoming'[t] = incoming[t]
  BY <1>1, <1>4
<1>8. inbox' \in [Servers -> Seq(BusItem)]
  <2>1. \A t \in Servers : (IF t = s THEN << >> ELSE IF Told(t) THEN Append(inbox[t], Signal)
                            ELSE inbox[t]) \in Seq(BusItem)
    BY <1>4
  <2> QED BY <1>5, <2>1
<1>9. ASSUME NEW t \in Servers, t # s, Alive(t)
      PROVE  Due(t)' = Due(t)
  <2>1. names[1] = t
    BY <1>9 DEF DBusInv, NamesInv
  <2>2. k # 1
    BY <1>1, <1>9, <2>1
  <2>3. inbox'[t] = inbox[t] /\ incoming'[t] = incoming[t]
    BY <1>5, <1>6, <1>7, <1>9, <2>2
  <2> QED BY <2>3 DEF Due
<1>10. \A c \in Clients : Flow(c)'
  BY <1>1, <1>9, ServerMoves
<1> QED BY <1>1, <1>3, <1>7, <1>8, <1>10, ServerFacts, ServerPart

LEMMA ServerCloseStep ==
  ASSUME NEW s \in Servers, DBusInv, ServerClose(s)
  PROVE  DBusInv'
<1>1. PICK from \in {"await", "read", "release"} : ServerStep(s, from, "gone") /\ Withdraw(s)
  BY DEF ServerClose
<1> QED BY <1>1, WithdrawStep

LEMMA DaemonNoticesStep ==
  ASSUME NEW s \in Servers, DBusInv, DaemonNotices(s)
  PROVE  DBusInv'
BY WithdrawStep DEF DaemonNotices

LEMMA ServerKilledStep ==
  ASSUME NEW s \in Servers, DBusInv, ServerKilled(s)
  PROVE  DBusInv'
<1>1. PICK from \in {"await", "read", "release"} : ServerStep(s, from, "dead")
  BY DEF ServerKilled
<1>2. /\ incoming' = [incoming EXCEPT ![s] = << >>]
      /\ names' = names /\ inbox' = inbox /\ reads' = reads
  BY DEF ServerKilled
<1>3. /\ incoming' \in [Servers -> Seq(BusItem)]
      /\ \A t \in Servers : t # s => incoming'[t] = incoming[t]
  <2>1. incoming \in [Servers -> Seq(BusItem)] /\ << >> \in Seq(BusItem)
    BY ServerFacts
  <2> QED BY <1>2, <2>1
<1>4. \A t \in Servers : t # s => Due(t)' = Due(t)
  BY <1>2, <1>3 DEF Due
<1>5. \A c \in Clients : Flow(c)'
  BY <1>1, <1>2, <1>4, ServerMoves
<1>6. NamesInv'
  BY <1>1, <1>2, SameNames
<1> QED BY <1>1, <1>2, <1>3, <1>5, <1>6, ServerFacts, ServerPart

\* What is fetched stays due.
LEMMA FetchFacts ==
  ASSUME NEW s \in Servers, NEW k \in 0..Len(inbox[s]), DBusInv, Fetch(s, k)
  PROVE  /\ inbox' \in [Servers -> Seq(BusItem)] /\ incoming' \in [Servers -> Seq(BusItem)]
         /\ \A t \in Servers : Due(t)' = Due(t)
<1>a. PICK a : a = incoming[s]
  OBVIOUS
<1>b. PICK b : b = inbox[s]
  OBVIOUS
<1>c. PICK x : x = SubSeq(b, 1, k)
  OBVIOUS
<1>d. PICK y : y = SubSeq(b, k + 1, Len(b))
  OBVIOUS
<1>1. /\ inbox \in [Servers -> Seq(BusItem)] /\ incoming \in [Servers -> Seq(BusItem)]
      /\ a \in Seq(BusItem) /\ b \in Seq(BusItem) /\ k \in 0..Len(b)
  BY <1>a, <1>b, ServerFacts
<1>2. Moved(BusItem, a, b, x, y)
  BY <1>1, <1>c, <1>d, MovedFront
<1>3. /\ incoming' = [incoming EXCEPT ![s] = a \o x] /\ inbox' = [inbox EXCEPT ![s] = y]
  BY <1>a, <1>b, <1>c, <1>d DEF Fetch
<1>4. y \in Seq(BusItem) /\ a \o x \in Seq(BusItem) /\ (a \o x) \o y = a \o b
  BY <1>2 DEF Moved
<1>5. /\ inbox' \in [Servers -> Seq(BusItem)] /\ incoming' \in [Servers -> Seq(BusItem)]
      /\ incoming'[s] = a \o x /\ inbox'[s] = y
      /\ \A t \in Servers : t # s => incoming'[t] = incoming[t] /\ inbox'[t] = inbox[t]
  BY <1>1, <1>3, <1>4
<1>6. Due(s)' = Due(s)
  <2>1. Due(s)' = (a \o x) \o y /\ Due(s) = a \o b
    BY <1>5, <1>a, <1>b DEF Due
  <2> QED BY <1>4, <2>1
<1>7. \A t \in Servers : t # s => Due(t)' = Due(t)
  BY <1>5 DEF Due
<1> QED BY <1>5, <1>6, <1>7

LEMMA AwaitMessageStep ==
  ASSUME NEW s \in Servers, DBusInv, AwaitMessage(s)
  PROVE  DBusInv'
<1>1. PICK k \in 0..Len(inbox[s]) : Fetch(s, k)
  BY DEF AwaitMessage
<1>2. ServerStep(s, "await", "read") /\ names' = names /\ reads' = reads
  BY DEF AwaitMessage
<1>3. /\ inbox' \in [Servers -> Seq(BusItem)] /\ incoming' \in [Servers -> Seq(BusItem)]
      /\ \A t \in Servers : Due(t)' = Due(t)
  BY <1>1, FetchFacts
<1>4. \A c \in Clients : Flow(c)'
  BY <1>2, <1>3, ServerMoves
<1>5. NamesInv'
  BY <1>2, SameNames
<1> QED BY <1>2, <1>3, <1>4, <1>5, ServerFacts, ServerPart

LEMMA ReadNothingStep ==
  ASSUME NEW s \in Servers, DBusInv, ReadNothing(s)
  PROVE  DBusInv'
<1>1. /\ ServerStep(s, "read", "await") /\ names' = names /\ inbox' = inbox
      /\ incoming' = incoming /\ reads' = reads
  BY DEF ReadNothing
<1>2. \A t \in Servers : Due(t)' = Due(t)
  BY <1>1 DEF Due
<1>3. \A c \in Clients : Flow(c)'
  BY <1>1, <1>2, ServerMoves
<1>4. NamesInv'
  BY <1>1, SameNames
<1> QED BY <1>1, <1>3, <1>4, ServerFacts, ServerPart

\* read() takes the first of what is due.
LEMMA PopFacts ==
  ASSUME NEW s \in Servers, DBusInv, Pop(s), inbox' = inbox
  PROVE  /\ incoming' \in [Servers -> Seq(BusItem)]
         /\ Due(s) # << >> /\ Head(Due(s)) = Head(incoming[s]) /\ Due(s)' = Tail(Due(s))
         /\ \A t \in Servers : t # s => Due(t)' = Due(t)
<1>a. PICK a : a = incoming[s]
  OBVIOUS
<1>b. PICK b : b = inbox[s]
  OBVIOUS
<1>1. /\ incoming \in [Servers -> Seq(BusItem)] /\ a \in Seq(BusItem) /\ b \in Seq(BusItem)
      /\ a # << >> /\ incoming' = [incoming EXCEPT ![s] = Tail(a)]
  BY <1>a, <1>b, ServerFacts DEF Pop
<1>2. Tail(a) \in Seq(BusItem)
  BY <1>1
<1>3. /\ incoming' \in [Servers -> Seq(BusItem)] /\ incoming'[s] = Tail(a)
      /\ \A t \in Servers : t # s => incoming'[t] = incoming[t]
  BY <1>1, <1>2
<1>4. /\ a \o b # << >> /\ Head(a \o b) = Head(a) /\ Tail(a \o b) = Tail(a) \o b
  BY <1>1
<1>5. Due(s) = a \o b /\ Due(s)' = Tail(a) \o b
  BY <1>3, <1>a, <1>b DEF Due
<1>6. \A t \in Servers : t # s => Due(t)' = Due(t)
  BY <1>3 DEF Due
<1> QED BY <1>3, <1>4, <1>5, <1>6, <1>a

\* A line of which read() takes something that is not of writing process c.
LEMMA SkippedFlow ==
  ASSUME NEW s \in Servers, NEW c \in Clients, NEW from, NEW to, DBusInv,
         Alive(s), ServerStep(s, from, to), Due(s) # << >>, ~IsOf(Head(Due(s)), c),
         Due(s)' = Tail(Due(s)), \A t \in Servers : t # s => Due(t)' = Due(t),
         \A t \in Servers : t # s => reads'[t] = reads[t],
         ReadOf(reads'[s], c) = ReadOf(reads[s], c),
         GoodRead(reads'[s], Ahead(c), c, written[c])
  PROVE  Flow(c)'
<1>a. PICK q : q = Due(s)
  OBVIOUS
<1>1. Flow(c)
  BY DEF DBusInv
<1>2. /\ GoodLine(reads[s], Tail(q), Ahead(c), c, written[c], cpc[c])
      /\ Numbers(Tail(q), c) = Numbers(q, c)
  <2>1. q \in Seq(BusItem) /\ GoodLine(reads[s], q, Ahead(c), c, written[c], cpc[c])
    BY <1>1, <1>a, ServerFacts DEF Flow
  <2>2. q # << >> /\ ~IsOf(Head(q), c)
    BY <1>a
  <2> QED BY <2>1, <2>2, LineSkips
<1>3. GoodLine(reads'[s], Tail(q), Ahead(c), c, written[c], cpc[c])
  BY <1>2 DEF GoodLine
<1>4. /\ Ahead(c)' = Ahead(c) /\ written'[c] = written[c] /\ cpc'[c] = cpc[c]
      /\ \A t \in Servers : Alive(t)' => Alive(t)
  BY StepFacts
<1>5. /\ GoodLine(reads'[s], Due(s)', Ahead(c), c, written[c], cpc[c])
      /\ Numbers(Due(s)', c) = Numbers(Due(s), c)
  BY <1>2, <1>3, <1>a
<1>6. \A t \in Servers : /\ Numbers(Due(t)', c) = Numbers(Due(t), c)
                         /\ ReadOf(reads'[t], c) = ReadOf(reads[t], c)
  BY <1>5
<1>7. \A t \in Servers : GoodRead(reads'[t], Ahead(c), c, written[c])
  BY <1>1 DEF Flow
<1>8. \A t \in Servers : Alive(t)' =>
        GoodLine(reads'[t], Due(t)', Ahead(c), c, written[c], cpc[c])
  BY <1>1, <1>4, <1>5 DEF Flow
<1> QED BY <1>1, <1>4, <1>6, <1>7, <1>8 DEF Flow

LEMMA ReadIgnoredStep ==
  ASSUME NEW s \in Servers, DBusInv, ReadIgnored(s)
  PROVE  DBusInv'
<1>1. /\ ServerStep(s, "read", "await") /\ Pop(s) /\ Head(incoming[s]).kind # "call"
      /\ names' = names /\ inbox' = inbox /\ reads' = reads
  BY DEF ReadIgnored
<1>2. /\ incoming' \in [Servers -> Seq(BusItem)]
      /\ Due(s) # << >> /\ Head(Due(s)) = Head(incoming[s]) /\ Due(s)' = Tail(Due(s))
      /\ \A t \in Servers : t # s => Due(t)' = Due(t)
  BY <1>1, PopFacts
<1>3. Alive(s)
  BY <1>1, StepFacts
<1>4. ASSUME NEW c \in Clients
      PROVE  Flow(c)'
  <2>1. ~IsOf(Head(Due(s)), c)
    BY <1>1, <1>2 DEF IsOf
  <2>2. /\ GoodRead(reads'[s], Ahead(c), c, written[c])
        /\ ReadOf(reads'[s], c) = ReadOf(reads[s], c)
    BY <1>1 DEF DBusInv, Flow
  <2>3. \A t \in Servers : t # s => reads'[t] = reads[t]
    BY <1>1
  <2> QED BY <1>1, <1>2, <1>3, <2>1, <2>2, <2>3, SkippedFlow
<1>5. NamesInv'
  BY <1>1, SameNames
<1> QED BY <1>1, <1>2, <1>4, <1>5, ServerFacts, ServerPart

\* What is read of another writing process changes nothing for c.
LEMMA OtherRead ==
  ASSUME NEW r \in Seq(Receipt), NEW x \in Receipt, NEW c, x.from # c,
         NEW p, NEW msgs, GoodRead(r, p, c, msgs)
  PROVE  GoodRead(Append(r, x), p, c, msgs) /\ ReadOf(Append(r, x), c) = ReadOf(r, c)
<1> DEFINE r2 == Append(r, x)
<1>1. /\ Len(r) \in Nat /\ Len(r2) = Len(r) + 1 /\ r2[Len(r) + 1] = x
      /\ \A k \in 1..Len(r) : r2[k] = r[k]
  OBVIOUS
<1>2. \A k : k \in 1..Len(r2) <=> (k \in 1..Len(r) \/ k = Len(r) + 1)
  BY <1>1
<1>3. ReadOf(r2, c) = ReadOf(r, c) /\ RisingRead(r2, c)
  BY ReadAppend DEF GoodRead
<1> HIDE DEF r2
<1>4. \A k \in 1..Len(r2) : r2[k].from = c => k \in 1..Len(r) /\ r2[k] = r[k]
  BY <1>1, <1>2
<1>5. GoodRead(r2, p, c, msgs)
  BY <1>3, <1>4 DEF GoodRead
<1> QED BY <1>3, <1>5 DEF r2

LEMMA ReadCallStep ==
  ASSUME NEW s \in Servers, DBusInv, ReadCall(s)
  PROVE  DBusInv'
<1>a. PICK m : m = Head(incoming[s])
  OBVIOUS
<1>b. PICK body : body = deserialize_data_object(m.type, m.cells, Len(m.cells))
  OBVIOUS
<1>c. PICK c : c = m.from
  OBVIOUS
<1>d. PICK x : x = [from |-> m.from, n |-> m.n, id |-> m.id, obj |-> body]
  OBVIOUS
<1>e. PICK q : q = Due(s)
  OBVIOUS
<1>f. PICK r : r = reads[s]
  OBVIOUS
<1>1. /\ Pop(s) /\ names' = names /\ inbox' = inbox /\ m.kind = "call"
      /\ \/ IsError(body) /\ ServerStep(s, "read", "await") /\ reads' = reads
         \/ /\ ~IsError(body) /\ ServerStep(s, "read", "read")
            /\ reads' = [reads EXCEPT ![s] = Append(@, x)]
  BY <1>a, <1>b, <1>d DEF ReadCall
<1>2. Alive(s)
  BY <1>1, StepFacts
<1>3. /\ incoming' \in [Servers -> Seq(BusItem)]
      /\ q # << >> /\ Head(q) = m /\ Due(s)' = Tail(q)
      /\ \A t \in Servers : t # s => Due(t)' = Due(t)
  BY <1>1, <1>a, <1>e, PopFacts
<1>4. /\ q \in Seq(BusItem) /\ r \in Seq(Receipt) /\ reads \in [Servers -> Seq(Receipt)]
  BY <1>e, <1>f, ServerFacts
<1>5. m \in BusItem /\ m = q[1] /\ 1 \in 1..Len(q)
  BY <1>3, <1>4
<1>6. c \in Clients /\ IsOf(m, c)
  BY <1>1, <1>5, <1>c, ItemFacts DEF IsOf
<1>g. PICK msgs : msgs = written[c]
  OBVIOUS
<1>h. PICK p : p = Ahead(c)
  OBVIOUS
<1>i. PICK pc : pc = cpc[c]
  OBVIOUS
<1>7. msgs \in Seq(SentMessage) /\ GoodLane(p, c, msgs, pc)
  BY <1>6, <1>g, <1>h, <1>i, ClientFacts
<1>8. GoodRead(r, p, c, msgs) /\ GoodLine(r, q, p, c, msgs, pc)
  BY <1>2, <1>6, <1>e, <1>f, <1>g, <1>h, <1>i DEF DBusInv, Flow
<1>9. Faithful(m, c, msgs)
  BY <1>5, <1>6, <1>8 DEF GoodLine, TrueTo
<1>10. /\ ~IsError(body) /\ x \in Receipt /\ x.from = c /\ x.n = m.n
       /\ Whole(x, msgs)
  <2>1. /\ ~IsError(body)
        /\ [from |-> m.from, n |-> m.n, id |-> m.id, obj |-> body] \in Receipt
        /\ msgs[m.n] = [id |-> m.id, obj |-> body]
    BY <1>6, <1>7, <1>9, <1>b, CallDecodes
  <2>2. x.from = m.from /\ x.n = m.n /\ x.id = m.id /\ x.obj = body
    BY <1>d
  <2> QED BY <1>c, <1>d, <2>1, <2>2 DEF Whole
<1>11. /\ ServerStep(s, "read", "read")
       /\ reads' = [reads EXCEPT ![s] = Append(r, x)]
  BY <1>1, <1>10, <1>f
<1>12. /\ reads' \in [Servers -> Seq(Receipt)] /\ reads'[s] = Append(r, x)
       /\ \A t \in Servers : t # s => reads'[t] = reads[t]
  <2>1. Append(r, x) \in Seq(Receipt)
    BY <1>4, <1>10
  <2> QED BY <1>4, <1>11, <2>1
<1>13. /\ GoodRead(Append(r, x), p, c, msgs)
       /\ GoodLine(Append(r, x), Tail(q), p, c, msgs, pc)
       /\ ReadOf(Append(r, x), c) = ReadOf(r, c) \cup {m.n}
       /\ Numbers(Tail(q), c) = Numbers(q, c) \ {m.n} /\ m.n \in Numbers(q, c)
  <2>1. /\ r \in Seq(Receipt) /\ q \in Seq(BusItem) /\ q # << >> /\ msgs \in Seq(SentMessage)
        /\ m = Head(q) /\ IsOf(m, c) /\ x \in Receipt /\ x.from = c /\ x.n = m.n
        /\ Whole(x, msgs) /\ GoodLane(p, c, msgs, pc) /\ GoodRead(r, p, c, msgs)
        /\ GoodLine(r, q, p, c, msgs, pc)
    BY <1>3, <1>4, <1>6, <1>7, <1>8, <1>10
  <2> QED BY ONLY <2>1, LineReads
<1>14. /\ \A t \in Servers : t # s => ~Alive(t)
       /\ \A t \in Servers : Alive(t)' <=> Alive(t)
  <2>1. \A t \in Servers : Alive(t) => names[1] = t
    BY DEF DBusInv, NamesInv
  <2>2. \A t \in Servers : Alive(t)' <=> Alive(t)
    BY <1>2, <1>11, StepFacts
  <2> QED BY <1>2, <2>1, <2>2
<1>15. Flow(c)'
  <2>1. Flow(c)
    BY <1>6 DEF DBusInv
  <2>2. Ahead(c)' = p /\ written'[c] = msgs /\ cpc'[c] = pc
    BY <1>6, <1>11, <1>g, <1>h, <1>i, StepFacts
  <2>3. \A t \in Servers : GoodRead(reads'[t], p, c, msgs)
    BY <1>12, <1>13, <2>1, <1>g, <1>h DEF Flow
  <2>4. \A t \in Servers : Alive(t)' => GoodLine(reads'[t], Due(t)', p, c, msgs, pc)
    BY <1>3, <1>12, <1>13, <1>14
  <2>5. \A t \in Servers : t # s => /\ ReadOf(reads[t], c) \cap ReadOf(r, c) = {}
                                    /\ ReadOf(reads[t], c) \cap Numbers(q, c) = {}
    BY <1>2, <2>1, <1>e, <1>f DEF Flow
  <2>6. \A t \in Servers : t # s => /\ ReadOf(reads[t], c) \cap ReadOf(Append(r, x), c) = {}
                                    /\ ReadOf(reads[t], c) \cap Numbers(Tail(q), c) = {}
    BY <1>13, <2>5
  <2>7. \A t, u \in Servers : t # u => ReadOf(reads'[t], c) \cap ReadOf(reads'[u], c) = {}
    <3>1. \A t, u \in Servers : t # u => ReadOf(reads[t], c) \cap ReadOf(reads[u], c) = {}
      BY <2>1 DEF Flow
    <3> SUFFICES ASSUME NEW t \in Servers, NEW u \in Servers, t # u
                 PROVE  ReadOf(reads'[t], c) \cap ReadOf(reads'[u], c) = {}
      OBVIOUS
    <3>2. CASE t = s
      BY <1>12, <2>6, <3>2
    <3>3. CASE u = s
      BY <1>12, <2>6, <3>3
    <3>4. CASE t # s /\ u # s
      BY <1>12, <3>1, <3>4
    <3> QED BY <3>2, <3>3, <3>4
  <2>8. \A t, u \in Servers : t # u =>
          (Alive(u)' => ReadOf(reads'[t], c) \cap Numbers(Due(u)', c) = {})
    BY <1>3, <1>12, <1>14, <2>6
  <2> QED BY <2>2, <2>3, <2>4, <2>7, <2>8, <1>7 DEF Flow
<1>16. ASSUME NEW d \in Clients, d # c
       PROVE  Flow(d)'
  <2>1. ~IsOf(Head(Due(s)), d)
    BY <1>3, <1>16, <1>c, <1>e DEF IsOf
  <2>2. GoodRead(r, Ahead(d), d, written[d])
    BY <1>f DEF DBusInv, Flow
  <2>3. /\ GoodRead(Append(r, x), Ahead(d), d, written[d])
        /\ ReadOf(Append(r, x), d) = ReadOf(r, d)
    BY <1>4, <1>10, <1>16, <2>2, OtherRead
  <2>4. /\ GoodRead(reads'[s], Ahead(d), d, written[d])
        /\ ReadOf(reads'[s], d) = ReadOf(reads[s], d)
    BY <1>12, <1>f, <2>3
  <2>5. Due(s) # << >> /\ Due(s)' = Tail(Due(s))
    BY <1>3, <1>e
  <2> QED BY <1>2, <1>3, <1>11, <1>12, <2>1, <2>4, <2>5, SkippedFlow
<1>17. NamesInv'
  BY <1>1, <1>11, <1>12, SameNames
<1> QED BY <1>1, <1>3, <1>11, <1>12, <1>15, <1>16, <1>17, ServerFacts, ServerPart

-----------------------------------------------------------------------------
(* Every step *)

LEMMA DBusInit == BusInit => DBusInv
<1> SUFFICES ASSUME BusInit PROVE DBusInv
  OBVIOUS
<1>1. Basics
  BY Constants DEF BusInit, Basics
<1>2. Carriers
  BY Constants DEF BusInit, Carriers
<1>3. NamesInv
  BY DEF BusInit, NamesInv, Alive
<1>4. ASSUME NEW c \in Clients
      PROVE  Flow(c)
  <2>a. PICK e : e = << >>
    OBVIOUS
  <2>1. Len(e) = 0
    BY <2>a
  <2>2. /\ Ahead(c) = e /\ written[c] = e /\ cpc[c] = "new"
        /\ \A s \in Servers : reads[s] = e /\ ~Alive(s)
    BY <2>a DEF BusInit, Ahead, Alive
  <2>3. Numbers(e, c) = {} /\ ReadOf(e, c) = {}
    BY <2>1 DEF Numbers, ReadOf
  <2>4. GoodLane(e, c, e, "new")
    BY <2>1, <2>3, <2>a DEF GoodLane, TrueTo, Rising, Gapless, Newest
  <2>5. GoodRead(e, e, c, e)
    BY <2>1, <2>3 DEF GoodRead, RisingRead, Gapless, Below
  <2> QED BY <2>2, <2>3, <2>4, <2>5 DEF Flow
<1> QED BY <1>1, <1>2, <1>3, <1>4 DEF DBusInv

LEMMA DBusStutter == DBusInv /\ UNCHANGED busVars => DBusInv'
<1> SUFFICES ASSUME DBusInv, UNCHANGED busVars PROVE DBusInv'
  OBVIOUS
<1>1. /\ names' = names /\ inbox' = inbox /\ incoming' = incoming /\ spc' = spc
      /\ reads' = reads /\ cpc' = cpc /\ outgoing' = outgoing
      /\ last_ids' = last_ids /\ written' = written /\ socket' = socket /\ foreign' = foreign
  BY DEF busVars, svars, cvars
<1> QED BY <1>1 DEF DBusInv, Basics, Carriers, NamesInv, Flow, Alive, Ahead, Due

LEMMA DBusNext == DBusInv /\ BusNext => DBusInv'
<1> SUFFICES ASSUME DBusInv, BusNext PROVE DBusInv'
  OBVIOUS
<1>1. ASSUME NEW c \in Clients, ClientNext(c)
      PROVE  DBusInv'
  BY <1>1, ClientOpenStep, ClientCloseStep, CloseFlushStep, ClientKilledStep, WriteStep,
     WriteTooLongStep, WriteOutOfMemoryStep DEF ClientNext
<1>2. ASSUME NEW c \in Clients, Route(c)
      PROVE  DBusInv'
  BY <1>2, RouteStep
<1>3. ASSUME NEW s \in Servers, ServerNext(s)
      PROVE  DBusInv'
  BY <1>3, ServerConnectFailsStep, ServerOpenStep, ServerInQueueStep, AwaitMessageStep,
     ReadNothingStep, ReadIgnoredStep, ReadCallStep, ServerCloseStep, ServerKilledStep
     DEF ServerNext, ServerReads, ReadThrows
<1>4. ASSUME NEW s \in Servers, DaemonNotices(s)
      PROVE  DBusInv'
  BY <1>4, DaemonNoticesStep
<1> QED BY <1>1, <1>2, <1>3, <1>4, StrangerStep DEF BusNext

\* The queues between the processes keep the numbers of what was written in order and
\* without a gap on every way that still leads to a read().
THEOREM DBusInvariant == BusSpec => []DBusInv
<1>1. DBusInv /\ [BusNext]_busVars => DBusInv'
  BY DBusNext, DBusStutter
<1> QED BY <1>1, DBusInit, PTL DEF BusSpec

\* The daemon's queue for the name is made of different processes, its head is the
\* one that reads, and no socket is fuller than it may be.
THEOREM DBusTypes == BusSpec => []BusTypeOK
BY DBusInvariant, InvTypes, PTL

\* What read() returns of one writing process is a slice of what write() returned true
\* for, in order and without a gap, and nobody else reads a part of it.
THEOREM DBusOrder == BusSpec => []BusInOrder
BY DBusInvariant, InvOrder, PTL

=============================================================================
