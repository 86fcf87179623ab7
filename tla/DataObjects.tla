---------------------------- MODULE DataObjects ----------------------------
(***************************************************************************)
(* The objects that travel between the two processes and their wire form:  *)
(* Ping, JavaSymbol and BinaryData (src/object), the DataHeader put in     *)
(* front of them and deserialize_data_object (src/utility.cpp).            *)
(*                                                                         *)
(* The unit of a buffer is a cell: one 32-bit word.  A uint32 field takes  *)
(* one cell, a uint64 field two, and one character of a symbol or one      *)
(* chunk of binary data is a cell of its own.  The 16-byte header is kept  *)
(* apart from the body, as a record.  The timestamp of the header is left  *)
(* out: the handlers copy it and never look at it.                         *)
(***************************************************************************)
EXTENDS Integers, Sequences

\* enum class DataType: the values on the wire.
INVALID            == 0
PING               == 1
JAVA_SYMBOL_LOOKUP == 2
BINARY_DATA        == 3

\* enum class CommunicationError.
CommunicationError == {"CONNECTION_CLOSED", "NO_DATA_AVAILABLE", "READ_ERROR",
                       "INVALID_HEADER", "INVALID_DATA", "UNKNOWN_DATA"}

\* The right alternative of the variant that read() returns.
Error(e) == [error |-> e]
IsError(result) == DOMAIN result = {"error"}

\* The bytes of DataHeader, and the content of memory nobody wrote yet.
DataHeader(id, type, body_size) == [id |-> id, type |-> type, body_size |-> body_size]
ZeroHeader == DataHeader(0, INVALID, 0)

-----------------------------------------------------------------------------
(* The three objects. *)

Ping == [type |-> PING]

\* address is the pair of words of the uint64_t.
JavaSymbol(address, length, symbol) ==
  [type |-> JAVA_SYMBOL_LOOKUP, address |-> address, length |-> length, symbol |-> symbol]

BinaryData(data) == [type |-> BINARY_DATA, data |-> data]

\* using DataObject = std::variant<Ping, JavaSymbol, BinaryData>
JavaSymbols == [type : {JAVA_SYMBOL_LOOKUP}, address : Nat \X Nat, length : Nat, symbol : Seq(Nat)]
BinaryDatas == [type : {BINARY_DATA}, data : Seq(Nat)]
DataObject  == {Ping} \cup JavaSymbols \cup BinaryDatas

\* Sizes of the fixed parts, in cells.
JavaSymbolHeaderSize == 4
BinaryDataHeaderSize == 1

-----------------------------------------------------------------------------
(* serialize: the cells an object puts into a buffer.  Ping::serialize     *)
(* writes nothing.                                                         *)

SerializeJavaSymbol(obj) ==
  [k \in 1..(JavaSymbolHeaderSize + Len(obj.symbol)) |->
     IF k \in {1, 2} THEN obj.address[k]
     ELSE IF k = 3 THEN obj.length
     ELSE IF k = 4 THEN Len(obj.symbol)
     ELSE obj.symbol[k - JavaSymbolHeaderSize]]

SerializeBinaryData(obj) ==
  [k \in 1..(BinaryDataHeaderSize + Len(obj.data)) |->
     IF k = 1 THEN Len(obj.data) ELSE obj.data[k - BinaryDataHeaderSize]]

Serialize(obj) ==
  IF obj.type = PING THEN << >>
  ELSE IF obj.type = JAVA_SYMBOL_LOOKUP THEN SerializeJavaSymbol(obj)
  ELSE SerializeBinaryData(obj)

SerializedSize(obj) ==
  IF obj.type = PING THEN 0
  ELSE IF obj.type = JAVA_SYMBOL_LOOKUP THEN JavaSymbolHeaderSize + Len(obj.symbol)
  ELSE BinaryDataHeaderSize + Len(obj.data)

\* "Not enough space in buffer" is serialize's result -1, checked before the
\* first byte is written.
Fits(obj, size) == SerializedSize(obj) <= size

\* Where header and body travel as one run of cells, those that write() hands
\* over: DataHeader::serialize in front of serialize.
HEADER_SIZE == 3
Wire(id, obj) == <<id, obj.type, SerializedSize(obj)>> \o Serialize(obj)

\* What serialize leaves in the buffer: its own cells first, then whatever
\* an earlier message left behind.
Overlay(buffer, cells) ==
  [k \in DOMAIN buffer |-> IF k <= Len(cells) THEN cells[k] ELSE buffer[k]]

-----------------------------------------------------------------------------
(* deserialize: each checks the fixed part, then the length it contains,    *)
(* against the size of the body.  The sum is taken in size_t, so it does    *)
(* not wrap at the 32 bits of the length field.                             *)

\* Mutant: the length check lets one byte too many pass.
DeserializeJavaSymbolLoose(buffer, size) ==
  IF size < JavaSymbolHeaderSize \/ size + 1 < JavaSymbolHeaderSize + buffer[4]
  THEN Error("INVALID_DATA")
  ELSE JavaSymbol(<<buffer[1], buffer[2]>>, buffer[3],
                  [i \in 1..buffer[4] |-> buffer[JavaSymbolHeaderSize + i]])

DeserializeJavaSymbol(buffer, size) ==
  IF size < JavaSymbolHeaderSize \/ size < JavaSymbolHeaderSize + buffer[4]
  THEN Error("INVALID_DATA")
  ELSE JavaSymbol(<<buffer[1], buffer[2]>>, buffer[3],
                  [i \in 1..buffer[4] |-> buffer[JavaSymbolHeaderSize + i]])

DeserializeBinaryData(buffer, size) ==
  IF size < BinaryDataHeaderSize \/ size < BinaryDataHeaderSize + buffer[1]
  THEN Error("INVALID_DATA")
  ELSE BinaryData([i \in 1..buffer[1] |-> buffer[BinaryDataHeaderSize + i]])

deserialize_data_object(type, buffer, size) ==
  IF type = INVALID THEN Error("INVALID_DATA")
  ELSE IF type = PING THEN Ping
  ELSE IF type = JAVA_SYMBOL_LOOKUP THEN DeserializeJavaSymbol(buffer, size)
  ELSE IF type = BINARY_DATA THEN DeserializeBinaryData(buffer, size)
  ELSE Error("UNKNOWN_DATA")

=============================================================================
