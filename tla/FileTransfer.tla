---------------------------- MODULE FileTransfer ----------------------------
(***************************************************************************)
(* The chunked file-transfer engine (BasicFileTransferManager,             *)
(* src/src/file/file_transfer.cpp) running on every node, together with    *)
(* the part of the network manager it calls: SendMessage routes a message  *)
(* by a PeerId of the local session table onto the TCP stream of that      *)
(* session, and the session read loop decodes each frame with              *)
(* MessageFactory and hands it to the engine's HandleMessage.              *)
(*                                                                         *)
(* Every node keeps two tables keyed by <<PeerId, file id>>: out (the      *)
(* sender side, file id = the source path) and inc (the receiver side,     *)
(* file id = the file name of the request).  Each node runs a UI thread,   *)
(* modelled by the program counter ui, that calls SendFile and             *)
(* CancelTransfer; the handlers run on the node's I/O thread.  The engine  *)
(* mutex is held by the UI thread from StartSendingFile to the end of the  *)
(* SendNextChunk recursion, so no handler of that node runs meanwhile.     *)
(***************************************************************************)
EXTENDS Naturals, Sequences, FiniteSets, Functions, TLC

CONSTANTS
  Nodes,            \* the two LinkNet processes
  Sid,              \* Sid[n]: the random PeerId node n gave its session to the other
  Paths,            \* source paths that can be offered (strings)
  Basename(_),      \* std::filesystem::path(p).filename()
  Size(_),          \* file size of a path, in bytes
  Holder(_),        \* the node on whose disk a path exists
  ChunkSize,        \* _chunk_size (16 KiB in the code, scaled down)
  Decodable,        \* message kinds MessageFactory::CreateFromBuffer decodes
  SendLoopStarted,  \* whether StartSendingFile is called after a request
  Accepts,          \* answers the request callback may give
  Faults,           \* environment failures admitted: "drop", "open", "disk"
  MaxSendFile       \* bound on SendFile calls per path

ASSUME Cardinality(Nodes) = 2
ASSUME \A a, b \in Nodes : a # b => Sid[a] # Sid[b]
ASSUME ChunkSize \in Nat \ {0} /\ MaxSendFile \in Nat
ASSUME Faults \subseteq {"drop", "open", "disk"} /\ Accepts \subseteq BOOLEAN

VARIABLES
  out,      \* out[n]: _outgoing_transfers, <<peer id, path>> -> transfer info
  inc,      \* inc[n]: _incoming_transfers, <<peer id, file name>> -> transfer info
  wire,     \* wire[n]: bytes in flight on the TCP stream towards n, as messages
  up,       \* the TCP connection between the two nodes is open
  ui,       \* ui[n]: where node n's UI thread is (idle, or inside SendFile's loop)
  disk,     \* disk[n][name]: chunks written to ./downloads/name, as <<index, source>>
  done,     \* history: the completed-callback invocations, in order
  sends     \* sends[p]: SendFile calls made for path p

vars == <<out, inc, wire, up, ui, disk, done, sends>>

Other(n) == CHOOSE m \in Nodes : m # n
Names == {Basename(p) : p \in Paths}
Ids == {Sid[n] : n \in Nodes}
Kinds == {"Request", "Chunk", "Complete"}
Idle == [op |-> "idle", key |-> <<>>]

\* Messages on the wire; "from" is the PeerId written into the header.
Msg(kind, from, fid, size, idx, ok) ==
  [kind |-> kind, from |-> from, fid |-> fid, size |-> size, idx |-> idx, ok |-> ok]

\* Number of bytes SendNextChunk reads at chunk index i of a file of size s.
ChunkLen(s, i) == IF i * ChunkSize >= s THEN 0
                  ELSE IF s - i * ChunkSize < ChunkSize THEN s - i * ChunkSize
                  ELSE ChunkSize
NChunks(s) == (s + ChunkSize - 1) \div ChunkSize

\* The FileChunkMessage SendNextChunk builds for the chunk it read.
ChunkMessage(key, rec, len) == Msg("Chunk", key[1], key[2], len, rec.next, FALSE)

\* SendNextChunk once the file is sent: status COMPLETED, entry erased.
SenderDoneKept(o, n, key) == [o EXCEPT ![n][key].status = "COMPLETED"]
SenderDone(o, n, key) == [o EXCEPT ![n] = Restrict(@, DOMAIN @ \ {key})]

\* HandleFileChunk: bytes_transferred += data.size(), then the test for the
\* end of the transfer.
Written(rec, m) == rec.bytes + m.size
ReceivedAllEarly(bytes, size) == bytes + ChunkSize >= size
ReceivedAllStrict(bytes, size) == bytes > size
ReceivedAll(bytes, size) == bytes >= size

Put(f, k, v) == (k :> v) @@ f
Erase(f, k) == Restrict(f, DOMAIN f \ {k})
Report(n, dir, fid, size, ok) ==
  Append(done, [node |-> n, dir |-> dir, fid |-> fid, size |-> size, ok |-> ok])

\* AsioNetworkManager::SendMessage: true only for a PeerId of the local
\* session table (node n knows the other node as Sid[n]) on an open session.
Routable(n, id) == up /\ id = Sid[n]
SendMessage(w, n, id, m) ==
  IF Routable(n, id) THEN [w EXCEPT ![Other(n)] = Append(@, m)] ELSE w

Busy(n) == ui[n].op = "loop"

Init ==
  /\ out = [n \in Nodes |-> <<>>]
  /\ inc = [n \in Nodes |-> <<>>]
  /\ wire = [n \in Nodes |-> <<>>]
  /\ up = TRUE
  /\ ui = [n \in Nodes |-> Idle]
  /\ disk = [n \in Nodes |-> [x \in Names |-> {}]]
  /\ done = <<>>
  /\ sends = [p \in Paths |-> 0]

-----------------------------------------------------------------------------
(* Operations called by the UI thread.                                     *)

\* SendFile(peer_id, path): send the request, then store a PENDING entry
\* (emplace: an existing entry for the key is kept).  The request's header
\* sender is peer_id, the local table's id of the destination.
SendFile(n, p) ==
  LET key == <<Sid[n], p>> IN
  /\ Holder(p) = n /\ ui[n] = Idle /\ sends[p] < MaxSendFile
  /\ sends' = [sends EXCEPT ![p] = @ + 1]
  /\ IF Routable(n, Sid[n])
       THEN /\ wire' = SendMessage(wire, n, Sid[n], Msg("Request", Sid[n], Basename(p), Size(p), 0, FALSE))
            /\ out' = IF key \in DOMAIN out[n] THEN out
                      ELSE [out EXCEPT ![n] = Put(@, key,
                              [size |-> Size(p), status |-> "PENDING", sent |-> 0,
                               next |-> 0, open |-> FALSE])]
            /\ ui' = IF SendLoopStarted THEN [ui EXCEPT ![n] = [op |-> "start", key |-> key]] ELSE ui
       ELSE UNCHANGED <<wire, out, ui>>
  /\ UNCHANGED <<inc, up, disk, done>>

\* StartSendingFile: open the source file (failure: tell the peer, drop the
\* entry, report), else go IN_PROGRESS at chunk 0 and enter SendNextChunk.
StartSendingFile(n) ==
  LET key == ui[n].key  rec == out[n][key] IN
  /\ ui[n].op = "start"
  /\ IF key \notin DOMAIN out[n]
       THEN /\ ui' = [ui EXCEPT ![n] = Idle] /\ UNCHANGED <<out, wire, done>>
     ELSE IF rec.open
       THEN /\ out' = [out EXCEPT ![n][key].status = "IN_PROGRESS", ![n][key].next = 0]
            /\ ui' = [ui EXCEPT ![n].op = "loop"] /\ UNCHANGED <<wire, done>>
     ELSE \E opened \in IF "open" \in Faults THEN BOOLEAN ELSE {TRUE} :
       IF opened
         THEN /\ out' = [out EXCEPT ![n][key] = [@ EXCEPT !.open = TRUE,
                                                 !.status = "IN_PROGRESS", !.next = 0]]
              /\ ui' = [ui EXCEPT ![n].op = "loop"] /\ UNCHANGED <<wire, done>>
         ELSE /\ wire' = SendMessage(wire, n, key[1], Msg("Complete", key[1], key[2], 0, 0, FALSE))
              /\ out' = [out EXCEPT ![n] = Erase(@, key)]
              /\ done' = Report(n, "out", key[2], rec.size, FALSE)
              /\ ui' = [ui EXCEPT ![n] = Idle]
  /\ UNCHANGED <<inc, up, disk, sends>>

\* One activation of SendNextChunk: read the chunk at next_chunk_index and
\* send it; the recursive call is the next activation.  The transfer ends
\* (entry erased, completed callback) when bytes_transferred >= file_size,
\* at end of file, or when the chunk cannot be sent.
SendNextChunk(n) ==
  LET key == ui[n].key  rec == out[n][key]  len == ChunkLen(rec.size, rec.next)
      Fail == /\ wire' = SendMessage(wire, n, key[1], Msg("Complete", key[1], key[2], 0, 0, FALSE))
              /\ out' = [out EXCEPT ![n] = Erase(@, key)]
              /\ done' = Report(n, "out", key[2], rec.size, FALSE)
              /\ ui' = [ui EXCEPT ![n] = Idle]
      Succeed(w) == /\ wire' = w
                    /\ out' = SenderDone(out, n, key)
                    /\ done' = Report(n, "out", key[2], rec.size, TRUE)
                    /\ ui' = [ui EXCEPT ![n] = Idle]
  IN
  /\ ui[n].op = "loop"
  /\ IF key \notin DOMAIN out[n] \/ rec.status # "IN_PROGRESS" \/ ~rec.open
       THEN /\ ui' = [ui EXCEPT ![n] = Idle] /\ UNCHANGED <<out, wire, done>>
     ELSE IF len = 0
       THEN IF rec.sent >= rec.size THEN Succeed(wire) ELSE Fail
     ELSE IF ~Routable(n, key[1])
       THEN Fail
     ELSE LET w == SendMessage(wire, n, key[1], ChunkMessage(key, rec, len)) IN
       IF rec.sent + len >= rec.size
         THEN Succeed(w)
         ELSE /\ wire' = w
              /\ out' = [out EXCEPT ![n][key].sent = @ + len, ![n][key].next = @ + 1]
              /\ UNCHANGED <<ui, done>>
  /\ UNCHANGED <<inc, up, disk, sends>>

\* CancelTransfer(peer_id, file_path): the outgoing entry of the key if any,
\* else the incoming one, is erased and the peer is sent a failed
\* FileTransferComplete; no completed callback.  The caller may name any
\* PeerId and file id it has seen (peers and transfers listings).
CancelTransfer(n) ==
  /\ ui[n] = Idle
  /\ \E id \in Ids, fid \in Paths \cup Names :
       LET key == <<id, fid>>
           notify == SendMessage(wire, n, id, Msg("Complete", id, fid, 0, 0, FALSE)) IN
       IF key \in DOMAIN out[n]
         THEN /\ out' = [out EXCEPT ![n] = Erase(@, key)] /\ wire' = notify
              /\ UNCHANGED inc
       ELSE IF key \in DOMAIN inc[n]
         THEN /\ inc' = [inc EXCEPT ![n] = Erase(@, key)] /\ wire' = notify
              /\ UNCHANGED out
       ELSE UNCHANGED <<out, inc, wire>>
  /\ UNCHANGED <<up, ui, disk, done, sends>>

-----------------------------------------------------------------------------
(* Handlers, run on node n's I/O thread for a message m taken off the      *)
(* stream; w is the wire after m was taken off.                            *)

\* HandleFileTransferRequest: ask the request callback; on refusal or when
\* ./downloads/<name> cannot be created answer a failed Complete to the
\* header's sender; else truncate the file and store (overwrite) the
\* IN_PROGRESS entry under <<header sender, file name>>.
HandleFileTransferRequest(n, m, w) ==
  \E accept \in Accepts, created \in IF "disk" \in Faults THEN BOOLEAN ELSE {TRUE} :
    IF accept /\ created
      THEN /\ disk' = [disk EXCEPT ![n][m.fid] = {}]
           /\ inc' = [inc EXCEPT ![n] = Put(@, <<m.from, m.fid>>,
                        [size |-> m.size, got |-> {}, bytes |-> 0])]
           /\ wire' = w /\ UNCHANGED done
      ELSE /\ wire' = SendMessage(w, n, m.from, Msg("Complete", m.from, m.fid, 0, 0, FALSE))
           /\ UNCHANGED <<inc, disk, done>>

\* HandleFileChunk: ignore unknown keys and chunk indices already received;
\* write the chunk at index * chunk size (a failed write answers a failed
\* Complete, erases and reports); count its bytes; once bytes_transferred
\* >= file_size report success, answer Complete(true) and erase.
HandleFileChunk(n, m, w) ==
  LET key == <<m.from, m.fid>>  rec == inc[n][key]  bytes == Written(rec, m) IN
  IF key \notin DOMAIN inc[n] \/ m.idx \in rec.got
    THEN wire' = w /\ UNCHANGED <<inc, disk, done>>
    ELSE \E written \in IF "disk" \in Faults THEN BOOLEAN ELSE {TRUE} :
      IF ~written
        THEN /\ wire' = SendMessage(w, n, m.from, Msg("Complete", m.from, m.fid, 0, 0, FALSE))
             /\ inc' = [inc EXCEPT ![n] = Erase(@, key)]
             /\ done' = Report(n, "in", m.fid, rec.size, FALSE)
             /\ UNCHANGED disk
        ELSE /\ disk' = [disk EXCEPT ![n][m.fid] =
                           {e \in @ : e[1] # m.idx} \cup {<<m.idx, m.fid>>}]
             /\ IF ReceivedAll(bytes, rec.size)
                  THEN /\ wire' = SendMessage(w, n, m.from, Msg("Complete", m.from, m.fid, 0, 0, TRUE))
                       /\ inc' = [inc EXCEPT ![n] = Erase(@, key)]
                       /\ done' = Report(n, "in", m.fid, rec.size, TRUE)
                  ELSE /\ inc' = [inc EXCEPT ![n][key].got = @ \cup {m.idx},
                                             ![n][key].bytes = bytes]
                       /\ wire' = w /\ UNCHANGED done

\* HandleFileTransferComplete: only _outgoing_transfers is searched; a known
\* key is reported with the message's success flag and erased.
HandleFileTransferComplete(n, m, w) ==
  LET key == <<m.from, m.fid>> IN
  /\ wire' = w
  /\ IF key \in DOMAIN out[n]
       THEN /\ out' = [out EXCEPT ![n] = Erase(@, key)]
            /\ done' = Report(n, "out", m.fid, out[n][key].size, m.ok)
       ELSE UNCHANGED <<out, done>>

\* BasicFileTransferManager::HandleMessage: dispatch on the message type.
HandleMessage(n, m, w) ==
  CASE m.kind = "Request"  -> HandleFileTransferRequest(n, m, w) /\ UNCHANGED out
    [] m.kind = "Chunk"    -> HandleFileChunk(n, m, w) /\ UNCHANGED out
    [] m.kind = "Complete" -> HandleFileTransferComplete(n, m, w) /\ UNCHANGED <<inc, disk>>

\* PeerSession read loop: take the next frame off the stream; a frame that
\* MessageFactory does not decode (nullptr) is skipped, any other goes to
\* the message callback, which is the engine's HandleMessage.  The handler
\* waits while the UI thread holds the engine mutex.
Receive(n) ==
  /\ wire[n] # <<>> /\ ~Busy(n)
  /\ LET m == Head(wire[n])  w == [wire EXCEPT ![n] = Tail(@)] IN
       IF m.kind \notin Decodable
         THEN wire' = w /\ UNCHANGED <<out, inc, disk, done>>
         ELSE HandleMessage(n, m, w)
  /\ UNCHANGED <<up, ui, sends>>

\* The TCP connection fails: both sessions close (every later SendMessage
\* returns false) and the bytes in flight are lost.
LinkDrop ==
  /\ "drop" \in Faults /\ up
  /\ up' = FALSE
  /\ wire' = [n \in Nodes |-> <<>>]
  /\ UNCHANGED <<out, inc, ui, disk, done, sends>>

Next ==
  \/ \E n \in Nodes, p \in Paths : SendFile(n, p)
  \/ \E n \in Nodes : StartSendingFile(n)
  \/ \E n \in Nodes : SendNextChunk(n)
  \/ \E n \in Nodes : CancelTransfer(n)
  \/ \E n \in Nodes : Receive(n)
  \/ LinkDrop

\* The I/O thread keeps reading while its session is open, and the UI thread
\* runs a started SendFile to its end; the user (SendFile, CancelTransfer)
\* and the network (LinkDrop) owe nothing.
Fairness ==
  \A n \in Nodes : /\ WF_vars(Receive(n))
                   /\ WF_vars(StartSendingFile(n))
                   /\ WF_vars(SendNextChunk(n))

Spec == Init /\ [][Next]_vars /\ Fairness

-----------------------------------------------------------------------------
(* Properties.                                                             *)

Message == [kind : Kinds, from : Ids, fid : Paths \cup Names, size : Nat,
            idx : Nat, ok : BOOLEAN]

TypeOK ==
  /\ \A n \in Nodes :
       /\ DOMAIN out[n] \subseteq Ids \X Paths
       /\ \A k \in DOMAIN out[n] : out[n][k] \in
            [size : Nat, status : {"PENDING", "IN_PROGRESS"}, sent : Nat, next : Nat, open : BOOLEAN]
       /\ DOMAIN inc[n] \subseteq Ids \X Names
       /\ \A k \in DOMAIN inc[n] :
            /\ inc[n][k] \in [size : Nat, got : SUBSET Nat, bytes : Nat]
            /\ inc[n][k].got \subseteq 0 .. NChunks(inc[n][k].size) - 1
       /\ wire[n] \in Seq(Message)
       /\ ui[n].op \in {"idle", "start", "loop"}
       /\ disk[n] \in [Names -> SUBSET (Nat \X Paths)]
  /\ up \in BOOLEAN
  /\ sends \in [Paths -> 0..MaxSendFile]

NewReports == {done'[i] : i \in Len(done) + 1 .. Len(done')}

\* When the receiver's completed callback reports success for a file, the
\* downloaded file holds every chunk of one source file of that name and of
\* the announced size (chunk indices written by HandleFileChunk agree with
\* those SendNextChunk sent, and completion is not declared early).
WholeFileOnSuccess ==
  [][\A r \in NewReports :
       r.dir = "in" /\ r.ok =>
         \E p \in Paths : /\ Basename(p) = r.fid /\ Size(p) = r.size
                          /\ \A i \in 0 .. NChunks(r.size) - 1 :
                               <<i, p>> \in disk'[r.node][r.fid]]_vars

\* Every transfer the receiver accepted eventually leaves its table
\* (completed, failed or cancelled): the receiver is never left waiting.
EveryAcceptedTransferEnds ==
  \A n \in Nodes, k \in Ids \X Names :
    k \in DOMAIN inc[n] ~> k \notin DOMAIN inc[n]

OkCount(dir, fid) ==
  Cardinality({i \in 1 .. Len(done) : done[i].dir = dir /\ done[i].fid = fid /\ done[i].ok})

\* The sender reports a transfer successful only if the receiver gets the
\* file: each success of the sender's completed callback for p is followed
\* by a success of the receiver's for the file name (the spec's sender waits
\* for the receiver's FileTransferComplete).
SenderSuccessMeansDelivered ==
  \A p \in Paths, j \in 1 .. MaxSendFile :
    OkCount("out", p) >= j ~> OkCount("in", Basename(p)) >= j
=============================================================================
