------------------------- MODULE DataObjectsProofs -------------------------
(***************************************************************************)
(* Facts about the wire form of module DataObjects, for every object and   *)
(* every buffer.                                                           *)
(***************************************************************************)
EXTENDS DataObjects, TLAPS, SequenceTheorems

\* The type field tells the three classes of objects apart.
LEMMA ObjectKinds ==
  ASSUME NEW obj \in DataObject
  PROVE  /\ obj.type \in {PING, JAVA_SYMBOL_LOOKUP, BINARY_DATA}
         /\ obj.type = PING => obj = Ping
         /\ obj.type = JAVA_SYMBOL_LOOKUP => obj \in JavaSymbols
         /\ obj.type = BINARY_DATA => obj \in BinaryDatas
BY DEF DataObject, JavaSymbols, BinaryDatas, Ping, PING, JAVA_SYMBOL_LOOKUP, BINARY_DATA

\* An object is never taken for an error by the code that inspects the variant.
LEMMA ObjectIsNoError ==
  ASSUME NEW obj \in DataObject
  PROVE  ~IsError(obj)
<1>1. "type" \in DOMAIN obj
  BY DEF DataObject, JavaSymbols, BinaryDatas, Ping
<1> QED BY <1>1 DEF IsError

\* serialize writes exactly the size it returns, word by word.
LEMMA SerializeType ==
  ASSUME NEW obj \in DataObject
  PROVE  /\ SerializedSize(obj) \in Nat
         /\ Serialize(obj) \in Seq(Nat)
         /\ Len(Serialize(obj)) = SerializedSize(obj)
<1>1. CASE obj.type = PING
  BY <1>1 DEF Serialize, SerializedSize, PING, JAVA_SYMBOL_LOOKUP, BINARY_DATA
<1>2. CASE obj.type = JAVA_SYMBOL_LOOKUP
  <2> DEFINE n == JavaSymbolHeaderSize + Len(obj.symbol)
  <2>1. obj \in JavaSymbols
    BY <1>2, ObjectKinds
  <2>2. n \in Nat /\ n - 4 = Len(obj.symbol)
    BY <2>1 DEF JavaSymbols, JavaSymbolHeaderSize
  <2>3. SerializeJavaSymbol(obj) \in [1..n -> Nat]
    <3>1. /\ obj.address[1] \in Nat /\ obj.address[2] \in Nat /\ obj.length \in Nat
          /\ Len(obj.symbol) \in Nat
          /\ \A i \in 1..Len(obj.symbol) : obj.symbol[i] \in Nat
      BY <2>1 DEF JavaSymbols
    <3>2. \A k \in 1..n : k \notin {1, 2, 3, 4} => k - 4 \in 1..Len(obj.symbol)
      BY <2>2
    <3> QED BY <3>1, <3>2 DEF SerializeJavaSymbol, JavaSymbolHeaderSize
  <2>4. Serialize(obj) = SerializeJavaSymbol(obj) /\ SerializedSize(obj) = n
    BY <1>2 DEF Serialize, SerializedSize, PING, JAVA_SYMBOL_LOOKUP, BINARY_DATA
  <2> HIDE DEF n
  <2> QED BY <2>2, <2>3, <2>4
<1>3. CASE obj.type = BINARY_DATA
  <2> DEFINE n == BinaryDataHeaderSize + Len(obj.data)
  <2>1. obj \in BinaryDatas
    BY <1>3, ObjectKinds
  <2>2. n \in Nat /\ n - 1 = Len(obj.data)
    BY <2>1 DEF BinaryDatas, BinaryDataHeaderSize
  <2>3. SerializeBinaryData(obj) \in [1..n -> Nat]
    BY <2>1, <2>2 DEF BinaryDatas, SerializeBinaryData, BinaryDataHeaderSize
  <2>4. Serialize(obj) = SerializeBinaryData(obj) /\ SerializedSize(obj) = n
    BY <1>3 DEF Serialize, SerializedSize, PING, JAVA_SYMBOL_LOOKUP, BINARY_DATA
  <2> HIDE DEF n
  <2> QED BY <2>2, <2>3, <2>4
<1> QED BY <1>1, <1>2, <1>3, ObjectKinds

\* A sequence is the function of its elements.
LEMMA SequenceIsFunction ==
  ASSUME NEW s \in Seq(Nat)
  PROVE  s = [i \in 1..Len(s) |-> s[i]]
OBVIOUS

\* A function on 1..n is a sequence.
LEMMA FunctionIsSequence ==
  ASSUME NEW n \in Nat, NEW f \in [1..n -> Nat]
  PROVE  f \in Seq(Nat) /\ Len(f) = n
OBVIOUS

\* serialize puts its cells in front and keeps the rest of the buffer.
LEMMA OverlayFacts ==
  ASSUME NEW n \in Nat, NEW buffer \in [1..n -> Nat],
         NEW cells \in Seq(Nat), Len(cells) <= n
  PROVE  /\ Overlay(buffer, cells) \in [1..n -> Nat]
         /\ \A k \in 1..Len(cells) : Overlay(buffer, cells)[k] = cells[k]
BY DEF Overlay

\* deserialize_data_object reads back what serialize wrote, from any buffer that
\* starts with those cells, whatever an older message left behind them.
THEOREM RoundTrip ==
  ASSUME NEW obj \in DataObject, NEW buffer,
         \A k \in 1..SerializedSize(obj) : buffer[k] = Serialize(obj)[k]
  PROVE  deserialize_data_object(obj.type, buffer, SerializedSize(obj)) = obj
<1>1. CASE obj.type = PING
  BY <1>1, ObjectKinds
     DEF deserialize_data_object, INVALID, PING, JAVA_SYMBOL_LOOKUP, BINARY_DATA
<1>2. CASE obj.type = JAVA_SYMBOL_LOOKUP
  <2> DEFINE s == obj.symbol
             n == SerializedSize(obj)
  <2>1. /\ obj \in JavaSymbols
        /\ obj = JavaSymbol(obj.address, obj.length, s)
    BY <1>2, ObjectKinds DEF JavaSymbols, JavaSymbol
  <2>2. s \in Seq(Nat) /\ Len(s) \in Nat /\ n = 4 + Len(s)
    BY <1>2, <2>1 DEF SerializedSize, JavaSymbols, JavaSymbolHeaderSize,
       PING, JAVA_SYMBOL_LOOKUP, BINARY_DATA
  <2>3. \A k \in 1..n : buffer[k] = SerializeJavaSymbol(obj)[k]
    BY <1>2 DEF Serialize, PING, JAVA_SYMBOL_LOOKUP, BINARY_DATA
  <2>4. \A k \in 1..n : buffer[k] = IF k \in {1, 2} THEN obj.address[k]
                                    ELSE IF k = 3 THEN obj.length
                                    ELSE IF k = 4 THEN Len(s)
                                    ELSE s[k - 4]
    BY <2>2, <2>3 DEF SerializeJavaSymbol, JavaSymbolHeaderSize
  <2>5. /\ buffer[1] = obj.address[1] /\ buffer[2] = obj.address[2]
        /\ buffer[3] = obj.length
        /\ buffer[4] = Len(s)
    BY <2>2, <2>4
  <2>6. \A i \in 1..Len(s) : buffer[4 + i] = s[i]
    BY <2>2, <2>4
  <2>7. <<buffer[1], buffer[2]>> = obj.address
    BY <2>1, <2>5 DEF JavaSymbols
  <2>8. [i \in 1..buffer[4] |-> buffer[JavaSymbolHeaderSize + i]] = s
    <3>1. s = [i \in 1..Len(s) |-> s[i]]
      BY <2>2, SequenceIsFunction
    <3>2. [i \in 1..Len(s) |-> buffer[4 + i]] = [i \in 1..Len(s) |-> s[i]]
      BY <2>6
    <3> QED BY <2>5, <3>1, <3>2 DEF JavaSymbolHeaderSize
  <2>9. DeserializeJavaSymbol(buffer, n) = JavaSymbol(obj.address, obj.length, s)
    BY <2>2, <2>5, <2>7, <2>8 DEF DeserializeJavaSymbol, JavaSymbolHeaderSize
  <2> HIDE DEF s, n
  <2> QED BY <1>2, <2>1, <2>9
    DEF deserialize_data_object, INVALID, PING, JAVA_SYMBOL_LOOKUP, BINARY_DATA, n
<1>3. CASE obj.type = BINARY_DATA
  <2> DEFINE d == obj.data
             n == SerializedSize(obj)
  <2>1. obj \in BinaryDatas /\ obj = BinaryData(d)
    BY <1>3, ObjectKinds DEF BinaryDatas, BinaryData
  <2>2. d \in Seq(Nat) /\ Len(d) \in Nat /\ n = 1 + Len(d)
    BY <1>3, <2>1 DEF SerializedSize, BinaryDatas, BinaryDataHeaderSize,
       PING, JAVA_SYMBOL_LOOKUP, BINARY_DATA
  <2>3. \A k \in 1..n : buffer[k] = SerializeBinaryData(obj)[k]
    BY <1>3 DEF Serialize, PING, JAVA_SYMBOL_LOOKUP, BINARY_DATA
  <2>4. \A k \in 1..n : buffer[k] = IF k = 1 THEN Len(d) ELSE d[k - 1]
    BY <2>2, <2>3 DEF SerializeBinaryData, BinaryDataHeaderSize
  <2>5. buffer[1] = Len(d)
    BY <2>2, <2>4
  <2>6. \A i \in 1..Len(d) : buffer[1 + i] = d[i]
    BY <2>2, <2>4
  <2>7. [i \in 1..buffer[1] |-> buffer[BinaryDataHeaderSize + i]] = d
    <3>1. d = [i \in 1..Len(d) |-> d[i]]
      BY <2>2, SequenceIsFunction
    <3>2. [i \in 1..Len(d) |-> buffer[1 + i]] = [i \in 1..Len(d) |-> d[i]]
      BY <2>6
    <3> QED BY <2>5, <3>1, <3>2 DEF BinaryDataHeaderSize
  <2>8. DeserializeBinaryData(buffer, n) = BinaryData(d)
    BY <2>2, <2>5, <2>7 DEF DeserializeBinaryData, BinaryDataHeaderSize
  <2> HIDE DEF d, n
  <2> QED BY <1>3, <2>1, <2>8
    DEF deserialize_data_object, INVALID, PING, JAVA_SYMBOL_LOOKUP, BINARY_DATA, n
<1> QED BY <1>1, <1>2, <1>3, ObjectKinds

\* A slot or a buffer holds a message, whatever follows its last cell.
Holds(buf, m) ==
  /\ buf.header = DataHeader(m.id, m.obj.type, SerializedSize(m.obj))
  /\ \A k \in 1..SerializedSize(m.obj) : buf.body[k] = Serialize(m.obj)[k]

\* A buffer that holds a message decodes to it.
LEMMA HeldObject ==
  ASSUME NEW buf, NEW m, m.obj \in DataObject, Holds(buf, m)
  PROVE  /\ deserialize_data_object(buf.header.type, buf.body, buf.header.body_size) = m.obj
         /\ ~IsError(m.obj)
         /\ buf.header.id = m.id
         /\ buf.header.body_size = SerializedSize(m.obj)
<1>1. /\ buf.header.id = m.id
      /\ buf.header.type = m.obj.type
      /\ buf.header.body_size = SerializedSize(m.obj)
  BY DEF Holds, DataHeader
<1>2. deserialize_data_object(m.obj.type, buf.body, SerializedSize(m.obj)) = m.obj
  BY RoundTrip DEF Holds
<1>3. ~IsError(m.obj)
  BY ObjectIsNoError
<1> QED BY <1>1, <1>2, <1>3

\* The cells of a message, by their place.
LEMMA WireFacts ==
  ASSUME NEW id \in Nat, NEW obj \in DataObject
  PROVE  /\ Wire(id, obj) \in Seq(Nat)
         /\ SerializedSize(obj) \in Nat /\ obj.type \in Nat
         /\ Len(Wire(id, obj)) = HEADER_SIZE + SerializedSize(obj)
         /\ Wire(id, obj)[1] = id /\ Wire(id, obj)[2] = obj.type
         /\ Wire(id, obj)[3] = SerializedSize(obj)
         /\ \A k \in 1..SerializedSize(obj) :
              Wire(id, obj)[HEADER_SIZE + k] = Serialize(obj)[k]
<1> DEFINE size == SerializedSize(obj)
           cells == Serialize(obj)
           type == obj.type
<1>1. type \in Nat
  BY ObjectKinds DEF PING, JAVA_SYMBOL_LOOKUP, BINARY_DATA
<1>2. size \in Nat /\ cells \in Seq(Nat) /\ Len(cells) = size
  BY SerializeType
<1>3. Wire(id, obj) = <<id, type, size>> \o cells
  BY DEF Wire
<1> HIDE DEF size, cells, type
<1>4. <<id, type, size>> \in Seq(Nat) /\ Len(<<id, type, size>>) = 3
  BY <1>1, <1>2
<1> QED BY <1>1, <1>2, <1>3, <1>4 DEF HEADER_SIZE, size, cells, type

-----------------------------------------------------------------------------
(* A run of cells that is cut into messages. *)

WireCells(m) == Wire(m.id, m.obj)

\* s is the wire form of the messages behind the r-th of q, followed by tail; the
\* message i ends at the cell b[i].
CutAt(s, q, r, tail, b) ==
  /\ b \in [r..Len(q) -> Nat]
  /\ b[r] = 0
  /\ \A i, j \in r..Len(q) : i <= j => b[i] <= b[j]
  /\ \A i \in (r + 1)..Len(q) :
       /\ b[i] = b[i - 1] + Len(WireCells(q[i]))
       /\ \A j \in 1..Len(WireCells(q[i])) : s[b[i - 1] + j] = WireCells(q[i])[j]
  /\ Len(s) = b[Len(q)] + Len(tail)
  /\ \A j \in 1..Len(tail) : s[b[Len(q)] + j] = tail[j]

Carries(s, q, r, tail) == \E b : CutAt(s, q, r, tail, b)

Sendable == [id : Nat, obj : DataObject]

LEMMA CellsFacts ==
  ASSUME NEW q \in Seq(Sendable), NEW i \in 1..Len(q)
  PROVE  /\ q[i].id \in Nat /\ q[i].obj \in DataObject
         /\ WireCells(q[i]) \in Seq(Nat) /\ Len(WireCells(q[i])) \in Nat /\ Len(WireCells(q[i])) > 0
<1> q[i] \in Sendable
  OBVIOUS
<1>1. q[i].id \in Nat /\ q[i].obj \in DataObject
  BY DEF Sendable
<1> DEFINE id  == q[i].id
<1> DEFINE obj == q[i].obj
<1>2. id \in Nat /\ obj \in DataObject
  BY <1>1
<1> HIDE DEF id, obj
<1>3. /\ Wire(id, obj) \in Seq(Nat) /\ SerializedSize(obj) \in Nat
      /\ Len(Wire(id, obj)) = HEADER_SIZE + SerializedSize(obj)
  BY <1>2, WireFacts
<1>4. Len(Wire(id, obj)) \in Nat /\ Len(Wire(id, obj)) > 0
  BY <1>3 DEF HEADER_SIZE
<1> QED BY <1>1, <1>3, <1>4 DEF WireCells, id, obj

\* Nothing of q is left: s is the tail.
LEMMA CutDone ==
  ASSUME NEW s \in Seq(Nat), NEW tail \in Seq(Nat), NEW q \in Seq(Sendable),
         Carries(s, q, Len(q), tail)
  PROVE  s = tail
<1>1. PICK b : CutAt(s, q, Len(q), tail, b)
  BY DEF Carries
<1>2. Len(s) = Len(tail) /\ \A j \in 1..Len(tail) : s[j] = tail[j]
  <2>1. b[Len(q)] = 0 /\ Len(tail) \in Nat
    BY <1>1 DEF CutAt
  <2>2. Len(s) = Len(tail) /\ \A j \in 1..Len(tail) : s[0 + j] = tail[j]
    BY <1>1, <2>1 DEF CutAt
  <2> QED BY <2>2
<1> QED BY <1>2, SequenceIsFunction

LEMMA CutNothing ==
  ASSUME NEW tail \in Seq(Nat), NEW q \in Seq(Sendable)
  PROVE  Carries(tail, q, Len(q), tail)
<1> DEFINE n == Len(q)
<1> DEFINE b == [i \in n..n |-> 0]
<1>1. n \in Nat /\ n..n = {n} /\ (n + 1)..n = {} /\ Len(tail) \in Nat
  OBVIOUS
<1>2. b \in [n..n -> Nat] /\ b[n] = 0
  BY <1>1
<1>3. \A j \in 1..Len(tail) : tail[b[n] + j] = tail[j]
  BY <1>2
<1>4. Len(tail) = b[n] + Len(tail)
  BY <1>1, <1>2
<1>5. \A i, j \in n..n : b[i] <= b[j]
  BY <1>1, <1>2
<1> HIDE DEF n, b
<1>6. CutAt(tail, q, n, tail, b)
  BY <1>1, <1>2, <1>3, <1>4, <1>5 DEF CutAt, n
<1> QED BY <1>6 DEF Carries, n

\* More cells lengthen the tail.
LEMMA CutGrows ==
  ASSUME NEW s \in Seq(Nat), NEW tail \in Seq(Nat), NEW x \in Seq(Nat),
         NEW q \in Seq(Sendable), NEW r \in 0..Len(q), Carries(s, q, r, tail)
  PROVE  Carries(s \o x, q, r, tail \o x)
<1>1. PICK b : CutAt(s, q, r, tail, b)
  BY DEF Carries
<1> DEFINE e == b[Len(q)]
<1>2. /\ Len(q) \in Nat /\ Len(s) \in Nat /\ Len(tail) \in Nat /\ Len(x) \in Nat
      /\ e \in Nat /\ Len(s) = e + Len(tail)
  BY <1>1 DEF CutAt
<1> HIDE DEF e
<1> DEFINE u == s \o x
<1> DEFINE v == tail \o x
<1>a. /\ Len(u) = Len(s) + Len(x)
      /\ \A k \in 1..(Len(s) + Len(x)) :
           u[k] = IF k <= Len(s) THEN s[k] ELSE x[k - Len(s)]
  BY ConcatProperties
<1>b. /\ Len(v) = Len(tail) + Len(x)
      /\ \A k \in 1..(Len(tail) + Len(x)) :
           v[k] = IF k <= Len(tail) THEN tail[k] ELSE x[k - Len(tail)]
  BY ConcatProperties
<1> HIDE DEF u, v
<1>3. Len(u) = e + Len(v)
  BY <1>2, <1>a, <1>b
<1>4. ASSUME NEW j \in 1..Len(v)
      PROVE  u[e + j] = v[j]
  <2>1. j \in 1..(Len(tail) + Len(x)) /\ e + j \in 1..(Len(s) + Len(x))
    BY <1>2, <1>b
  <2>2. CASE j <= Len(tail)
    <3>1. s[e + j] = tail[j]
      BY <1>1, <1>2, <2>1, <2>2 DEF CutAt, e
    <3>2. e + j <= Len(s)
      BY <1>2, <2>1, <2>2
    <3> QED BY <1>a, <1>b, <2>1, <2>2, <3>1, <3>2
  <2>3. CASE ~(j <= Len(tail))
    <3>1. ~(e + j <= Len(s)) /\ e + j - Len(s) = j - Len(tail)
      BY <1>2, <2>1, <2>3
    <3>2. u[e + j] = x[e + j - Len(s)]
      BY <1>2, <1>a, <2>1, <3>1
    <3>3. v[j] = x[j - Len(tail)]
      BY <1>b, <2>1, <2>3
    <3> QED BY <3>1, <3>2, <3>3
  <2> QED BY <2>2, <2>3
<1>5. ASSUME NEW i \in (r + 1)..Len(q), NEW j \in 1..Len(WireCells(q[i]))
      PROVE  u[b[i - 1] + j] = WireCells(q[i])[j]
  <2>1. /\ i \in r..Len(q) /\ i - 1 \in r..Len(q) /\ Len(q) \in r..Len(q)
        /\ i <= Len(q) /\ i \in 1..Len(q)
    BY <1>2
  <2>2. /\ b[i - 1] \in Nat /\ b[i] \in Nat /\ b[i] <= e
        /\ b[i] = b[i - 1] + Len(WireCells(q[i])) /\ s[b[i - 1] + j] = WireCells(q[i])[j]
    BY <1>1, <2>1 DEF CutAt, e
  <2>3. Len(WireCells(q[i])) \in Nat
    BY <2>1, CellsFacts
  <2>4. b[i - 1] + j \in 1..(Len(s) + Len(x)) /\ b[i - 1] + j <= Len(s)
    <3> DEFINE l == Len(WireCells(q[i]))
    <3> DEFINE a == b[i - 1]
    <3>1. a \in Nat /\ l \in Nat /\ j \in 1..l /\ a + l <= e
      BY <2>2, <2>3
    <3> HIDE DEF a, l
    <3>2. a + j \in 1..(Len(s) + Len(x)) /\ a + j <= Len(s)
      BY <1>2, <3>1
    <3> QED BY <3>2 DEF a
  <2> QED BY <1>a, <2>2, <2>4
<1>6. CutAt(u, q, r, v, b)
  BY <1>1, <1>3, <1>4, <1>5 DEF CutAt, e
<1> QED BY <1>6 DEF Carries, u, v

\* A tail that is a whole message is one.
LEMMA CutMessage ==
  ASSUME NEW s \in Seq(Nat), NEW q \in Seq(Sendable), NEW r \in 0..Len(q),
         NEW m \in Sendable, Carries(s, q, r, WireCells(m))
  PROVE  Carries(s, Append(q, m), r, << >>)
<1>1. PICK b : CutAt(s, q, r, WireCells(m), b)
  BY DEF Carries
<1> DEFINE n == Len(q)
<1> DEFINE p == Append(q, m)
<1> DEFINE d == [i \in r..(n + 1) |-> IF i <= n THEN b[i] ELSE b[n] + Len(WireCells(m))]
<1>2. /\ n \in Nat /\ Len(p) = n + 1 /\ p[n + 1] = m /\ \A i \in 1..n : p[i] = q[i]
      /\ p \in Seq(Sendable)
  BY DEF Sendable
<1>3. Len(WireCells(m)) \in Nat
  BY <1>2, CellsFacts
<1>4. /\ b \in [r..n -> Nat] /\ b[n] \in Nat /\ b[r] = 0
      /\ \A i, j \in r..n : i <= j => b[i] <= b[j]
      /\ Len(s) = b[n] + Len(WireCells(m))
  BY <1>1, <1>2 DEF CutAt
<1> HIDE DEF n, p
<1>5. /\ d \in [r..(n + 1) -> Nat] /\ d[r] = 0 /\ d[n + 1] = b[n] + Len(WireCells(m))
      /\ \A i \in r..n : d[i] = b[i]
  BY <1>2, <1>3, <1>4 DEF n
<1> HIDE DEF d
<1>6. \A i, j \in r..(n + 1) : i <= j => d[i] <= d[j]
  <2> SUFFICES ASSUME NEW i \in r..(n + 1), NEW j \in r..(n + 1), i <= j
               PROVE  d[i] <= d[j]
    OBVIOUS
  <2>1. CASE j <= n
    BY <1>2, <1>4, <1>5, <2>1
  <2>2. CASE j = n + 1 /\ i <= n
    <3>1. d[i] = b[i] /\ b[i] <= b[n] /\ b[i] \in Nat
      <4>1. n \in r..n /\ i \in r..n /\ i <= n
        BY <1>2, <2>2 DEF n
      <4> QED BY <1>4, <1>5, <4>1
    <3> QED BY <1>3, <1>4, <1>5, <2>2, <3>1
  <2>3. CASE i = n + 1
    BY <1>2, <1>5, <2>3
  <2> QED BY <1>2, <2>1, <2>2, <2>3
<1>7. ASSUME NEW i \in (r + 1)..(n + 1)
      PROVE  /\ d[i] = d[i - 1] + Len(WireCells(p[i]))
             /\ \A j \in 1..Len(WireCells(p[i])) : s[d[i - 1] + j] = WireCells(p[i])[j]
  <2>1. CASE i <= n
    <3>1. p[i] = q[i] /\ d[i] = b[i] /\ d[i - 1] = b[i - 1] /\ i \in (r + 1)..Len(q)
      <4>1. i \in r..n /\ i - 1 \in r..n /\ i \in 1..n /\ i \in (r + 1)..n
        BY <1>2, <2>1 DEF n
      <4> QED BY <1>2, <1>5, <4>1 DEF n
    <3> QED BY <1>1, <3>1 DEF CutAt
  <2>2. CASE i = n + 1
    <3>1. p[i] = m /\ d[i] = b[n] + Len(WireCells(m)) /\ d[i - 1] = b[n]
      BY <1>2, <1>5, <2>2 DEF n
    <3> QED BY <1>1, <3>1 DEF CutAt, n
  <2> QED BY <1>2, <2>1, <2>2
<1>8. CutAt(s, p, r, << >>, d)
  <2>1. Len(s) = d[Len(p)] + 0 /\ Len(<< >>) = 0 /\ 1..Len(<< >>) = {}
    BY <1>2, <1>4, <1>5
  <2>2. Len(s) = d[Len(p)] + Len(<< >>)
    BY <2>1
  <2> QED BY <1>2, <1>5, <1>6, <1>7, <2>1, <2>2 DEF CutAt
<1> QED BY <1>8 DEF Carries, p

\* A whole message joins.
LEMMA CutJoins ==
  ASSUME NEW s \in Seq(Nat), NEW q \in Seq(Sendable), NEW r \in 0..Len(q),
         NEW m \in Sendable, Carries(s, q, r, << >>)
  PROVE  Carries(s \o WireCells(m), Append(q, m), r, << >>)
<1>a. PICK x : x = WireCells(m)
  OBVIOUS
<1>b. PICK t : t = << >>
  OBVIOUS
<1>c. PICK u : u = s \o x
  OBVIOUS
<1>1. m.id \in Nat /\ m.obj \in DataObject
  BY DEF Sendable
<1>2. x \in Seq(Nat)
  BY <1>1, <1>a, WireFacts DEF WireCells
<1>3. t \in Seq(Nat) /\ t \o x = x
  BY <1>2, <1>b
<1>4. Carries(s, q, r, t)
  BY <1>b
<1>5. Carries(s \o x, q, r, t \o x)
  BY <1>2, <1>3, <1>4, CutGrows
<1>6. u \in Seq(Nat)
  BY <1>2, <1>c
<1>7. Carries(u, q, r, WireCells(m))
  BY <1>3, <1>5, <1>a, <1>c
<1>8. Carries(u, Append(q, m), r, << >>)
  BY <1>6, <1>7, CutMessage
<1> QED BY <1>8, <1>a, <1>c

\* What is behind the first n cells.
LEMMA RestFacts ==
  ASSUME NEW s \in Seq(Nat), NEW n \in Nat, n <= Len(s),
         NEW t, t = SubSeq(s, n + 1, Len(s))
  PROVE  /\ t \in Seq(Nat) /\ Len(t) = Len(s) - n
         /\ \A k \in 1..(Len(s) - n) : t[k] = s[n + k]
<1>1. Len(s) \in Nat /\ n + 1 \in Int /\ \A i \in (n + 1)..Len(s) : s[i] \in Nat
  OBVIOUS
<1> DEFINE l == Len(s)
<1>2. /\ SubSeq(s, n + 1, l) \in Seq(Nat)
      /\ Len(SubSeq(s, n + 1, l)) = IF n + 1 <= l THEN l - (n + 1) + 1 ELSE 0
      /\ \A i \in 1..(l - (n + 1) + 1) : SubSeq(s, n + 1, l)[i] = s[(n + 1) + i - 1]
  <2> HIDE DEF l
  <2>1. l \in Int /\ n + 1 \in Int /\ \A i \in (n + 1)..l : s[i] \in Nat
    BY <1>1 DEF l
  <2> QED BY ONLY <2>1, SubSeqProperties
<1>3. l - (n + 1) + 1 = l - n /\ (n + 1 <= l \/ l - n = 0)
  BY <1>1
<1>4. \A k \in 1..(l - n) : (n + 1) + k - 1 = n + k
  BY <1>1
<1> HIDE DEF l
<1>5. t = SubSeq(s, n + 1, l)
  BY DEF l
<1>6. t \in Seq(Nat) /\ Len(t) = l - n
  BY <1>2, <1>3, <1>5
<1>7. \A k \in 1..(l - n) : t[k] = s[n + k]
  BY <1>2, <1>3, <1>4, <1>5
<1> QED BY <1>6, <1>7 DEF l

\* The next message is in front; behind it the rest is cut in the same way.
LEMMA CutNext ==
  ASSUME NEW s \in Seq(Nat), NEW tail \in Seq(Nat), NEW q \in Seq(Sendable),
         NEW r \in Nat, r < Len(q), Carries(s, q, r, tail),
         NEW n, n = Len(WireCells(q[r + 1]))
  PROVE  /\ n \in Nat /\ n <= Len(s)
         /\ \A j \in 1..n : s[j] = WireCells(q[r + 1])[j]
         /\ Carries(SubSeq(s, n + 1, Len(s)), q, r + 1, tail)
<1>1. PICK b : CutAt(s, q, r, tail, b)
  BY DEF Carries
<1> DEFINE e == b[Len(q)]
<1> DEFINE d == [i \in (r + 1)..Len(q) |-> b[i] - n]
<1> DEFINE t == SubSeq(s, n + 1, Len(s))
<1>2. n \in Nat /\ Len(q) \in Nat /\ Len(s) \in Nat /\ Len(tail) \in Nat
  BY CellsFacts
<1>3. /\ b \in [r..Len(q) -> Nat] /\ b[r] = 0 /\ e \in Nat /\ Len(s) = e + Len(tail)
      /\ \A i, j \in r..Len(q) : i <= j => b[i] <= b[j]
  BY <1>1, <1>2 DEF CutAt
<1>4. b[r + 1] = n /\ \A j \in 1..n : s[j] = WireCells(q[r + 1])[j]
  <2>1. r + 1 \in (r + 1)..Len(q) /\ (r + 1) - 1 = r
    BY <1>2
  <2>2. b[r + 1] = 0 + n /\ \A j \in 1..n : s[0 + j] = WireCells(q[r + 1])[j]
    BY <1>1, <1>3, <2>1 DEF CutAt
  <2> QED BY <1>2, <2>2
<1>5. \A i \in (r + 1)..Len(q) : b[i] \in Nat /\ n <= b[i] /\ b[i] <= e
  <2> SUFFICES ASSUME NEW i \in (r + 1)..Len(q) PROVE b[i] \in Nat /\ n <= b[i] /\ b[i] <= e
    OBVIOUS
  <2>1. /\ i \in r..Len(q) /\ r + 1 \in r..Len(q) /\ Len(q) \in r..Len(q)
        /\ r + 1 <= i /\ i <= Len(q)
    BY <1>2
  <2> QED BY <1>3, <1>4, <2>1
<1>6. n <= Len(s) /\ n <= e
  BY <1>2, <1>3, <1>5
<1>7. Len(t) = Len(s) - n /\ \A k \in 1..(Len(s) - n) : t[k] = s[n + k]
  <2>1. s \in Seq(Nat) /\ n \in Nat /\ n <= Len(s) /\ t = SubSeq(s, n + 1, Len(s))
    BY <1>2, <1>6
  <2> HIDE DEF t
  <2> QED BY ONLY <2>1, RestFacts
<1>8. /\ d \in [(r + 1)..Len(q) -> Nat] /\ d[r + 1] = 0 /\ d[Len(q)] = e - n
      /\ \A i \in (r + 1)..Len(q) : d[i] = b[i] - n
  BY <1>2, <1>4, <1>5
<1> HIDE DEF d, t, e
<1>9. \A i, j \in (r + 1)..Len(q) : i <= j => d[i] <= d[j]
  <2> SUFFICES ASSUME NEW i \in (r + 1)..Len(q), NEW j \in (r + 1)..Len(q), i <= j
               PROVE  d[i] <= d[j]
    OBVIOUS
  <2>1. b[i] <= b[j]
    BY <1>2, <1>3
  <2>2. b[i] \in Nat /\ b[j] \in Nat /\ n \in Nat
    BY <1>2, <1>5
  <2>3. d[i] = b[i] - n /\ d[j] = b[j] - n
    BY <1>8
  <2> QED BY ONLY <2>1, <2>2, <2>3
<1>10. ASSUME NEW i \in (r + 2)..Len(q)
       PROVE  /\ d[i] = d[i - 1] + Len(WireCells(q[i]))
              /\ \A j \in 1..Len(WireCells(q[i])) : t[d[i - 1] + j] = WireCells(q[i])[j]
  <2>1. i \in (r + 1)..Len(q) /\ i - 1 \in (r + 1)..Len(q) /\ i \in 1..Len(q)
    BY <1>2
  <2>2. Len(WireCells(q[i])) \in Nat
    BY <2>1, CellsFacts
  <2>3. /\ b[i] = b[i - 1] + Len(WireCells(q[i]))
        /\ \A j \in 1..Len(WireCells(q[i])) : s[b[i - 1] + j] = WireCells(q[i])[j]
    BY <1>1, <2>1 DEF CutAt
  <2>4. d[i] = d[i - 1] + Len(WireCells(q[i])) /\ d[i - 1] = b[i - 1] - n
    BY <1>2, <1>5, <1>8, <2>1, <2>2, <2>3, SMTT(30)
  <2>5. ASSUME NEW j \in 1..Len(WireCells(q[i]))
        PROVE  t[d[i - 1] + j] = WireCells(q[i])[j]
    <3>1. /\ b[i] \in Nat /\ b[i - 1] \in Nat /\ n <= b[i - 1] /\ b[i] <= e
          /\ b[i] = b[i - 1] + Len(WireCells(q[i])) /\ d[i - 1] = b[i - 1] - n
      BY <1>5, <2>1, <2>3, <2>4
    <3>1a. e <= Len(s)
      BY <1>2, <1>3
    <3>1b. /\ d[i - 1] + j \in 1..(Len(s) - n) /\ n + (d[i - 1] + j) = b[i - 1] + j
      <4> DEFINE l == Len(WireCells(q[i]))
      <4> DEFINE a == b[i - 1]
      <4>1. /\ a \in Nat /\ l \in Nat /\ j \in 1..l /\ a + l <= e /\ n <= a
            /\ d[i - 1] = a - n
        BY <2>2, <3>1
      <4> HIDE DEF a, l
      <4>2. a - n + j \in 1..(Len(s) - n) /\ n + (a - n + j) = a + j
        <5>1. Len(s) \in Nat /\ n \in Nat /\ e \in Nat /\ e <= Len(s)
          BY <1>2, <1>3, <3>1a
        <5>2. n <= a /\ a + j <= Len(s) /\ j \in Nat /\ j >= 1 /\ a \in Nat
          BY <4>1, <5>1
        <5>3. a - n \in Nat /\ a - n + j \in Nat /\ a - n + j >= 1 /\ a - n + j = a + j - n
          BY ONLY <5>1, <5>2
        <5>4. a - n + j <= Len(s) - n /\ Len(s) - n \in Int
          BY ONLY <5>1, <5>2
        <5>5. a - n + j \in 1..(Len(s) - n)
          BY <5>3, <5>4
        <5>6. n + (a - n + j) = a + j
          BY ONLY <5>1, <5>2
        <5> QED BY <5>5, <5>6
      <4>3. d[i - 1] + j = a - n + j
        BY <4>1
      <4> QED BY <4>2, <4>3 DEF a
    <3> QED BY <1>7, <2>3, <3>1b
  <2> QED BY <2>4, <2>5
<1>11. /\ Len(t) = d[Len(q)] + Len(tail)
       /\ \A j \in 1..Len(tail) : t[d[Len(q)] + j] = tail[j]
  <2>1. Len(t) = d[Len(q)] + Len(tail)
    BY <1>2, <1>3, <1>6, <1>7, <1>8
  <2>2. ASSUME NEW j \in 1..Len(tail) PROVE t[d[Len(q)] + j] = tail[j]
    <3>1. /\ d[Len(q)] + j \in 1..(Len(s) - n) /\ n + (d[Len(q)] + j) = e + j
      BY <1>2, <1>3, <1>6, <1>8
    <3>2. s[e + j] = tail[j]
      BY <1>1 DEF CutAt, e
    <3> QED BY <1>7, <3>1, <3>2
  <2> QED BY <2>1, <2>2
<1>12. CutAt(t, q, r + 1, tail, d)
  <2>1. (r + 1) + 1 = r + 2
    OBVIOUS
  <2> QED BY <1>8, <1>9, <1>10, <1>11, <2>1 DEF CutAt
<1> QED BY <1>2, <1>4, <1>6, <1>12 DEF Carries, t

\* Two sequences with the same elements are one.
LEMMA SameElements ==
  ASSUME NEW S, NEW s \in Seq(S), NEW t \in Seq(S), Len(s) = Len(t),
         \A k \in 1..Len(s) : s[k] = t[k]
  PROVE  s = t
<1>1. s = [k \in 1..Len(s) |-> s[k]] /\ t = [k \in 1..Len(t) |-> t[k]]
  OBVIOUS
<1> QED BY <1>1

LEMMA SameCells ==
  ASSUME NEW s \in Seq(Nat), NEW t \in Seq(Nat), Len(s) = Len(t),
         \A k \in 1..Len(s) : s[k] = t[k]
  PROVE  s = t
BY SameElements

\* Cells that move from the front of s to the end of t stay in their order.
LEMMA MovedCells ==
  ASSUME NEW t \in Seq(Nat), NEW s \in Seq(Nat), NEW u \in Seq(Nat), NEW n \in Nat,
         n <= Len(s), Len(u) = Len(t) + n,
         \A k \in 1..Len(t) : u[k] = t[k],
         \A k \in 1..n : u[Len(t) + k] = s[k]
  PROVE  u \o SubSeq(s, n + 1, Len(s)) = t \o s
<1> DEFINE l == Len(t)
<1> DEFINE rest == SubSeq(s, n + 1, Len(s))
<1> DEFINE x == u \o rest
<1> DEFINE y == t \o s
<1>1. l \in Nat /\ Len(s) \in Nat /\ n \in Nat /\ Len(u) = l + n
  OBVIOUS
<1>2. /\ rest \in Seq(Nat) /\ Len(rest) = Len(s) - n
      /\ \A k \in 1..(Len(s) - n) : rest[k] = s[n + k]
  BY RestFacts
<1> HIDE DEF rest, l
<1>3. /\ x \in Seq(Nat) /\ Len(x) = Len(u) + Len(rest)
      /\ \A k \in 1..(Len(u) + Len(rest)) :
           x[k] = IF k <= Len(u) THEN u[k] ELSE rest[k - Len(u)]
  BY <1>2, ConcatProperties
<1>4. /\ y \in Seq(Nat) /\ Len(y) = l + Len(s)
      /\ \A k \in 1..(l + Len(s)) : y[k] = IF k <= l THEN t[k] ELSE s[k - l]
  BY ConcatProperties DEF l
<1> HIDE DEF x, y
<1>5. Len(x) = Len(y)
  BY <1>1, <1>2, <1>3, <1>4
<1>6. ASSUME NEW k \in 1..Len(x) PROVE x[k] = y[k]
  <2>1. k \in 1..(Len(u) + Len(rest)) /\ k \in 1..(l + Len(s)) /\ k \in Nat
    <3>1. Len(x) = Len(u) + Len(rest) /\ Len(x) = l + Len(s)
      BY <1>3, <1>4, <1>5
    <3> QED BY ONLY <3>1
  <2>2. CASE k <= l
    <3>1. k <= Len(u) /\ k \in 1..l
      BY <1>1, <2>1, <2>2
    <3>2. u[k] = t[k]
      BY <3>1 DEF l
    <3> QED BY <1>3, <1>4, <2>1, <2>2, <3>1, <3>2
  <2>3. CASE ~(k <= l) /\ k <= Len(u)
    <3>1. k - l \in 1..n /\ l + (k - l) = k
      BY <1>1, <2>1, <2>3
    <3>2. u[l + (k - l)] = s[k - l]
      BY <3>1 DEF l
    <3> QED BY <1>3, <1>4, <2>1, <2>3, <3>1, <3>2
  <2>4. CASE ~(k <= l) /\ ~(k <= Len(u))
    <3>1. k - Len(u) \in 1..(Len(s) - n) /\ n + (k - Len(u)) = k - l
      <4>1. Len(u) \in Nat /\ Len(rest) \in Nat /\ k <= Len(u) + Len(rest) /\ k > Len(u)
        BY <1>1, <1>2, <2>1, <2>4
      <4> DEFINE a == Len(u)
      <4> DEFINE m == Len(s)
      <4>2. a \in Nat /\ m \in Nat /\ a = l + n /\ k <= a + (m - n) /\ k > a
        BY <1>1, <1>2, <4>1
      <4> HIDE DEF a, m
      <4>3. k - a \in 1..(m - n) /\ n + (k - a) = k - l
        BY <1>1, <2>1, <4>2
      <4> QED BY <4>3 DEF a, m
    <3>2. x[k] = rest[k - Len(u)] /\ y[k] = s[k - l]
      BY <1>3, <1>4, <2>1, <2>4
    <3>3. rest[k - Len(u)] = s[n + (k - Len(u))]
      BY <1>2, <3>1
    <3> QED BY <3>1, <3>2, <3>3
  <2> QED BY <2>2, <2>3, <2>4
<1>7. x = y
  BY <1>3, <1>4, <1>5, <1>6, SameCells
<1> QED BY <1>7 DEF x, y, rest, l

\* What is in the first n cells.
LEMMA FirstFacts ==
  ASSUME NEW s \in Seq(Nat), NEW n \in Nat, n <= Len(s),
         NEW t, t = SubSeq(s, 1, n)
  PROVE  t \in Seq(Nat) /\ Len(t) = n /\ \A k \in 1..n : t[k] = s[k]
<1>1. /\ Len(s) \in Nat /\ \A i \in 1..n : s[i] \in Nat
  OBVIOUS
<1>2. /\ SubSeq(s, 1, n) \in Seq(Nat)
      /\ Len(SubSeq(s, 1, n)) = IF 1 <= n THEN n - 1 + 1 ELSE 0
      /\ \A i \in 1..(n - 1 + 1) : SubSeq(s, 1, n)[i] = s[1 + i - 1]
  BY <1>1, SubSeqProperties
<1>3. (IF 1 <= n THEN n - 1 + 1 ELSE 0) = n /\ n - 1 + 1 = n
  OBVIOUS
<1>4. \A i \in 1..n : 1 + i - 1 = i
  OBVIOUS
<1>5. t \in Seq(Nat) /\ Len(t) = n
  BY <1>2, <1>3
<1>6. \A i \in 1..n : t[i] = s[i]
  BY <1>2, <1>3, <1>4
<1> QED BY <1>5, <1>6

\* What one call hands over, and the rest.
LEMMA SplitCells ==
  ASSUME NEW s \in Seq(Nat), NEW n \in Nat, n <= Len(s)
  PROVE  /\ SubSeq(s, 1, n) \in Seq(Nat) /\ Len(SubSeq(s, 1, n)) = n
         /\ SubSeq(s, n + 1, Len(s)) \in Seq(Nat) /\ Len(SubSeq(s, n + 1, Len(s))) = Len(s) - n
         /\ s = SubSeq(s, 1, n) \o SubSeq(s, n + 1, Len(s))
<1>a. PICK x : x = SubSeq(s, 1, n)
  OBVIOUS
<1>b. PICK y : y = SubSeq(s, n + 1, Len(s))
  OBVIOUS
<1>1. Len(s) \in Nat
  OBVIOUS
<1>3. /\ x \in Seq(Nat) /\ Len(x) = n /\ \A k \in 1..n : x[k] = s[k]
  BY <1>a, FirstFacts
<1>4. /\ y \in Seq(Nat) /\ Len(y) = Len(s) - n
      /\ \A k \in 1..(Len(s) - n) : y[k] = s[n + k]
  BY <1>b, RestFacts
<1> DEFINE z == x \o y
<1>5. /\ z \in Seq(Nat) /\ Len(z) = Len(x) + Len(y)
      /\ \A k \in 1..(Len(x) + Len(y)) : z[k] = IF k <= Len(x) THEN x[k] ELSE y[k - Len(x)]
  <2>1. x \in Seq(Nat) /\ y \in Seq(Nat)
    BY <1>3, <1>4
  <2> QED BY <2>1, ConcatProperties
<1> HIDE DEF z
<1>6. Len(z) = Len(s) /\ Len(x) + Len(y) = Len(s)
  <2>1. n + (Len(s) - n) = Len(s)
    BY <1>1
  <2> QED BY <1>3, <1>4, <1>5, <2>1
<1>7. ASSUME NEW k \in 1..Len(s) PROVE z[k] = s[k]
  <2>1. CASE k <= n
    <3>1. k \in 1..n /\ k <= Len(x)
      BY <1>3, <2>1
    <3> QED BY <1>3, <1>5, <1>6, <3>1
  <2>2. CASE ~(k <= n)
    <3>1. ~(k <= Len(x)) /\ k - n \in 1..(Len(s) - n) /\ n + (k - n) = k
      BY <1>1, <1>3, <2>2
    <3>2. z[k] = y[k - n]
      BY <1>3, <1>5, <1>6, <3>1
    <3>3. y[k - n] = s[n + (k - n)]
      BY <1>4, <3>1
    <3> QED BY <3>1, <3>2, <3>3
  <2> QED BY <2>1, <2>2
<1>8. z = s
  BY <1>5, <1>6, <1>7, SameCells
<1> QED BY <1>3, <1>4, <1>8, <1>a, <1>b DEF z

\* ConcatAssociative for cells, in the form the pipe and the stream need.
LEMMA Associative ==
  ASSUME NEW s \in Seq(Nat), NEW t \in Seq(Nat), NEW u \in Seq(Nat)
  PROVE  (s \o t) \o u = s \o (t \o u)
BY ONLY s \in Seq(Nat), t \in Seq(Nat), u \in Seq(Nat), ConcatAssociative, SMTT(30)

\* The message m is in front of s.
StartsWith(s, m) ==
  /\ SerializedSize(m.obj) \in Nat /\ Len(s) >= HEADER_SIZE + SerializedSize(m.obj)
  /\ s[1] = m.id /\ s[2] = m.obj.type /\ s[3] = SerializedSize(m.obj)
  /\ \A k \in 1..SerializedSize(m.obj) : s[HEADER_SIZE + k] = Serialize(m.obj)[k]

\* Cells that are whole messages start with the next one.
LEMMA CutFront ==
  ASSUME NEW s \in Seq(Nat), NEW q \in Seq(Sendable), NEW r \in 0..Len(q),
         Carries(s, q, r, << >>), Len(s) > 0
  PROVE  /\ r < Len(q) /\ StartsWith(s, q[r + 1])
         /\ Carries(SubSeq(s, (HEADER_SIZE + SerializedSize(q[r + 1].obj)) + 1, Len(s)),
                    q, r + 1, << >>)
<1>1. r < Len(q)
  <2>1. r # Len(q)
    <3>1. << >> \in Seq(Nat) /\ Len(<< >>) = 0
      OBVIOUS
    <3>2. r = Len(q) => s = << >>
      BY <3>1, CutDone
    <3> QED BY <3>1, <3>2
  <2> QED BY <2>1
<1>a. PICK m : m = q[r + 1]
  OBVIOUS
<1>b. PICK w : w = WireCells(m)
  OBVIOUS
<1>c. PICK size : size = SerializedSize(m.obj)
  OBVIOUS
<1>2. m.id \in Nat /\ m.obj \in DataObject
  <2>1. r + 1 \in 1..Len(q)
    BY <1>1
  <2> QED BY <1>a, <2>1, CellsFacts
<1>3. /\ w \in Seq(Nat) /\ size \in Nat /\ Len(w) = 3 + size
      /\ w[1] = m.id /\ w[2] = m.obj.type /\ w[3] = size
      /\ \A k \in 1..size : w[3 + k] = Serialize(m.obj)[k]
  <2>1. w = Wire(m.id, m.obj)
    BY <1>b DEF WireCells
  <2>2. PICK id, obj : id = m.id /\ obj = m.obj
    OBVIOUS
  <2>3. id \in Nat /\ obj \in DataObject /\ w = Wire(id, obj) /\ size = SerializedSize(obj)
    BY <1>2, <1>c, <2>1, <2>2
  <2>4. /\ w \in Seq(Nat) /\ size \in Nat /\ Len(w) = HEADER_SIZE + size
        /\ w[1] = id /\ w[2] = obj.type /\ w[3] = size
        /\ \A k \in 1..size : w[HEADER_SIZE + k] = Serialize(obj)[k]
    BY ONLY <2>3, WireFacts
  <2> QED BY ONLY <2>2, <2>4 DEF HEADER_SIZE
<1>4. /\ 3 + size <= Len(s) /\ \A j \in 1..(3 + size) : s[j] = w[j]
      /\ Carries(SubSeq(s, (3 + size) + 1, Len(s)), q, r + 1, << >>)
  <2>1. << >> \in Seq(Nat) /\ r \in Nat
    OBVIOUS
  <2>2. 3 + size = Len(WireCells(q[r + 1]))
    BY <1>3, <1>a, <1>b
  <2>3. /\ 3 + size <= Len(s) /\ \A j \in 1..(3 + size) : s[j] = WireCells(q[r + 1])[j]
        /\ Carries(SubSeq(s, (3 + size) + 1, Len(s)), q, r + 1, << >>)
    <3> DEFINE n    == 3 + size
               tail == << >>
    <3>1. /\ s \in Seq(Nat) /\ q \in Seq(Sendable) /\ tail \in Seq(Nat) /\ r \in Nat
          /\ Carries(s, q, r, tail) /\ n = Len(WireCells(q[r + 1]))
      BY <2>1, <2>2
    <3> SUFFICES /\ n <= Len(s) /\ \A j \in 1..n : s[j] = WireCells(q[r + 1])[j]
                 /\ Carries(SubSeq(s, n + 1, Len(s)), q, r + 1, tail)
      OBVIOUS
    <3> HIDE DEF n, tail
    <3> QED BY ONLY <1>1, <3>1, CutNext, Z3
  <2> QED BY <2>3, <1>a, <1>b
<1>5. StartsWith(s, m)
  <2>1. 1 \in 1..(3 + size) /\ 2 \in 1..(3 + size) /\ 3 \in 1..(3 + size)
    BY <1>3
  <2>2. \A k \in 1..size : 3 + k \in 1..(3 + size)
    BY <1>3
  <2>3. s[1] = m.id /\ s[2] = m.obj.type /\ s[3] = size
    BY <1>3, <1>4, <2>1
  <2>4. \A k \in 1..size : s[3 + k] = Serialize(m.obj)[k]
    BY <1>3, <1>4, <2>2
  <2>5. Len(s) >= 3 + size
    BY <1>3, <1>4
  <2> QED BY <1>3, <1>c, <2>3, <2>4, <2>5 DEF StartsWith, HEADER_SIZE
<1> QED BY <1>1, <1>4, <1>5, <1>a, <1>c DEF HEADER_SIZE

=============================================================================
