------------------------------- MODULE Codec -------------------------------
(***************************************************************************)
(* The wire layouts of LinkNet's messages, byte for byte: ChatMessage and  *)
(* FileTransferRequestMessage (src/unnamed/part_005), FileChunkMessage and *)
(* FileTransferCompleteMessage (src/src/file/file_transfer.cpp), and       *)
(* MessageFactory::CreateFromBuffer.  A buffer is a sequence of bytes; a   *)
(* message is a record whose fields are the class's members (byte strings *)
(* for PeerId, MessageId, the timestamp and the texts, numbers for sizes   *)
(* and indices).  Every class writes the common header: type, sender       *)
(* PeerId (32 bytes), MessageId (16), timestamp (8, big-endian).           *)
(***************************************************************************)
EXTENDS Naturals, Sequences, TLC

\* A value read from 4 or 8 bytes that exceeds TLC's integers (top bit set):
\* larger than any buffer here.
Big == 2147483647

\* htobe32 / htobe64 of x: its w bytes, most significant first.
RECURSIVE Bytes(_, _)
Bytes(x, w) == IF w = 0 THEN <<>> ELSE Bytes(x \div 256, w - 1) \o <<x % 256>>
BE32Signed(b) == ((b[1] - (IF b[1] >= 128 THEN 256 ELSE 0)) * 256 + b[2]) * 65536
                  + b[3] * 256 + b[4]
\* be32toh of 4 bytes into a uint32_t.
BE32(b) == IF b[1] >= 128 THEN Big
           ELSE ((b[1] * 256 + b[2]) * 256 + b[3]) * 256 + b[4]
\* be64toh of 8 bytes into a uint64_t.
BE64(b) == IF b[1] + b[2] + b[3] + b[4] > 0 THEN Big ELSE BE32(SubSeq(b, 5, 8))
\* len bytes from offset from (0-based, as in data.begin() + from).
Slice(b, from, len) == SubSeq(b, from + 1, from + len)

\* MessageType codes.
TypeCode == [chat |-> 0, request |-> 1, chunk |-> 3, complete |-> 4, connection |-> 8]
Kinds == {"chat", "request", "chunk", "complete"}

Header(kind, m) == <<TypeCode[kind]>> \o m.sender \o m.id \o m.stamp

ChatSerialize(m) == Header("chat", m) \o Bytes(Len(m.content), 4) \o m.content
RequestSerialize(m) ==
  Header("request", m) \o Bytes(m.size, 8) \o Bytes(Len(m.name), 4) \o m.name
ChunkSerialize(m) ==
  Header("chunk", m) \o Bytes(Len(m.fid), 4) \o m.fid \o Bytes(m.idx, 4)
    \o Bytes(Len(m.data), 4) \o m.data
CompleteSerialize(m) ==
  Header("complete", m) \o Bytes(Len(m.fid), 4) \o m.fid \o <<IF m.ok THEN 1 ELSE 0>>
    \o Bytes(Len(m.error), 4) \o m.error

\* Message::Serialize, the virtual call.
Serialize(m) ==
  CASE m.kind = "chat"     -> ChatSerialize(m)
    [] m.kind = "request"  -> RequestSerialize(m)
    [] m.kind = "chunk"    -> ChunkSerialize(m)
    [] m.kind = "complete" -> CompleteSerialize(m)

\* Deserialize returned false (or the factory returned nullptr).
NoMessage == [kind |-> "none"]

\* The header fields every Deserialize copies, after checking the type byte.
HeaderOf(kind, b) ==
  [kind |-> kind, sender |-> Slice(b, 1, 32), id |-> Slice(b, 33, 16), stamp |-> Slice(b, 49, 8)]
Typed(kind, b, min) == Len(b) >= min /\ b[1] = TypeCode[kind]

ChatDeserializeShifted(b) ==
  IF ~Typed("chat", b, 61) THEN NoMessage
  ELSE LET n == BE32(Slice(b, 57, 4)) IN
       IF Len(b) < 61 + n THEN NoMessage
       ELSE HeaderOf("chat", b) @@ [content |-> Slice(b, 60, n)]
\* ChatMessage::Deserialize: 61-byte header, content length at offset 57.
ChatDeserialize(b) ==
  IF ~Typed("chat", b, 61) THEN NoMessage
  ELSE LET n == BE32(Slice(b, 57, 4)) IN
       IF Len(b) < 61 + n THEN NoMessage
       ELSE HeaderOf("chat", b) @@ [content |-> Slice(b, 61, n)]

\* FileTransferRequestMessage::Deserialize: size at 57, name length at 65.
RequestDeserialize(b) ==
  IF ~Typed("request", b, 69) THEN NoMessage
  ELSE LET n == BE32(Slice(b, 65, 4)) IN
       IF Len(b) < 69 + n THEN NoMessage
       ELSE HeaderOf("request", b) @@ [size |-> BE64(Slice(b, 57, 8)), name |-> Slice(b, 69, n)]

ChunkDeserializeLate(b) ==
  IF ~Typed("chunk", b, 61) THEN NoMessage
  ELSE LET f == BE32(Slice(b, 57, 4)) IN
       IF Len(b) < 61 + f + 8 THEN NoMessage
       ELSE LET d == BE32(Slice(b, 65 + f, 4)) IN
            IF Len(b) < 61 + f + 8 + d THEN NoMessage
            ELSE HeaderOf("chunk", b) @@ [fid |-> Slice(b, 61, f),
                   idx |-> BE32(Slice(b, 61 + f, 4)), data |-> Slice(b, 68 + f, d)]
\* FileChunkMessage::Deserialize: file id length at 57, then the id, the
\* chunk index and the data length, each checked against the size first.
ChunkDeserialize(b) ==
  IF ~Typed("chunk", b, 61) THEN NoMessage
  ELSE LET f == BE32(Slice(b, 57, 4)) IN
       IF Len(b) < 61 + f + 8 THEN NoMessage
       ELSE LET d == BE32(Slice(b, 65 + f, 4)) IN
            IF Len(b) < 61 + f + 8 + d THEN NoMessage
            ELSE HeaderOf("chunk", b) @@ [fid |-> Slice(b, 61, f),
                   idx |-> BE32(Slice(b, 61 + f, 4)), data |-> Slice(b, 69 + f, d)]

\* FileTransferCompleteMessage::Deserialize: file id, success byte
\* (non-zero is true), error length and error text.
CompleteDeserialize(b) ==
  IF ~Typed("complete", b, 61) THEN NoMessage
  ELSE LET f == BE32(Slice(b, 57, 4)) IN
       IF Len(b) < 61 + f + 5 THEN NoMessage
       ELSE LET e == BE32(Slice(b, 62 + f, 4)) IN
            IF Len(b) < 61 + f + 5 + e THEN NoMessage
            ELSE HeaderOf("complete", b) @@ [fid |-> Slice(b, 61, f),
                   ok |-> b[62 + f] # 0, error |-> Slice(b, 66 + f, e)]

\* The Deserialize of the class of the given kind, applied to a buffer.
DeserializeAs(kind, b) ==
  CASE kind = "chat"     -> ChatDeserialize(b)
    [] kind = "request"  -> RequestDeserialize(b)
    [] kind = "chunk"    -> ChunkDeserialize(b)
    [] kind = "complete" -> CompleteDeserialize(b)

\* MessageFactory::CreateFromBuffer: nullptr for a buffer shorter than the
\* type and PeerId, and for every kind but chat and request.
CreateFromBuffer(b) ==
  CASE Len(b) < 33  -> NoMessage
    [] b[1] = 0     -> ChatDeserialize(b)
    [] b[1] = 1     -> RequestDeserialize(b)
    [] OTHER        -> NoMessage

\* Each class reads back exactly what it wrote, and rejects the bytes of a
\* message of any other class (its type check), for every message of msgs.
RoundTrip(msgs) ==
  \A m \in msgs, k \in Kinds :
    DeserializeAs(k, Serialize(m)) = IF k = m.kind THEN m ELSE NoMessage
=============================================================================
