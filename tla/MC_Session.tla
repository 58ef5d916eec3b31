---------------------------- MODULE MC_Session ----------------------------
(* Byte strings for the random identifiers, the clock and two chat texts. *)
EXTENDS Session

CONSTANTS C, A

\* Fixed stand-ins for std::random_device / mt19937 output.
Noise(seed, w) == [j \in 1 .. w |-> (seed + 97 * j) % 256]
MCUserId(n) == Noise(IF n = C THEN 11 ELSE 23, 32)
MCSessionId(k) == Noise(40 + k, 32)
MCMsgId(i) == Noise(60 + i, 16)
MCConnMsgId == Noise(5, 16)
\* std::time(nullptr) on two dates (November 2025, September 2026) as
\* big-endian 64-bit values.
MCStamps == {<<0, 0, 0, 0>> \o Bytes(t, 4) : t \in {1762650000, 1790000000}}
\* "hi", "ok".
MCContent(i) == IF i = 1 THEN <<104, 105>> ELSE <<111, 107>>
\* 1 GiB: a larger resize may fail.
MCAllocLimit == 2^30

\* Messages of all four byte-modelled classes stamped t, over small field
\* values: empty and non-empty texts, sizes and indices needing one, two and
\* three bytes, both success flags.
CodecHeaders(t) == [sender : {MCUserId(C), MCSessionId(1)}, id : {MCMsgId(1)}, stamp : {t}]
CodecStrs == {<<>>, <<104, 105>>, <<100, 47, 120>>}
CodecNums == {0, 258, 70000}
CodecSamples(t) ==
  {h @@ [kind |-> "chat", content |-> c] : h \in CodecHeaders(t), c \in CodecStrs}
  \cup {h @@ [kind |-> "request", size |-> z, name |-> c]
          : h \in CodecHeaders(t), z \in CodecNums, c \in CodecStrs}
  \cup {h @@ [kind |-> "chunk", fid |-> f, idx |-> z, data |-> c]
          : h \in CodecHeaders(t), f \in CodecStrs, z \in CodecNums, c \in CodecStrs}
  \cup {h @@ [kind |-> "complete", fid |-> f, ok |-> o, error |-> c]
          : h \in CodecHeaders(t), f \in CodecStrs, o \in BOOLEAN, c \in CodecStrs}

\* Every Serialize of ChatMessage, FileTransferRequestMessage, FileChunkMessage
\* and FileTransferCompleteMessage is read back field for field by the same
\* class's Deserialize, and refused by each other class's type check, for the
\* messages stamped with this run's clock (checked once per clock value).
CodecChecked == [t \in MCStamps |-> RoundTrip(CodecSamples(t))]
CodecRoundTrip == CodecChecked[clock]
====
