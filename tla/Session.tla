------------------------------ MODULE Session ------------------------------
(***************************************************************************)
(* The TCP layer of two LinkNet processes (AsioNetworkManager and          *)
(* PeerSession, src/src/discovery/peer_discovery.cpp): the Connector calls *)
(* ConnectToPeer on the Acceptor.  Each process has a main thread          *)
(* (Start, then the callback registrations of main), an io thread (the     *)
(* connect and accept handlers and the read loops) and a UI thread (chat   *)
(* sends).                                                                 *)
(*                                                                         *)
(* Streams are byte-exact: PeerSession::SendMessage writes the 4-byte      *)
(* big-endian length and then the body with two asio::write calls, and    *)
(* the read loop reads 4 bytes, resizes its buffer to that length, reads   *)
(* the body and decodes it with MessageFactory::CreateFromBuffer.  Random  *)
(* identifiers are fixed byte strings (constants); the timestamp is one of *)
(* a set of clock values, chosen per behaviour.                            *)
(***************************************************************************)
EXTENDS Naturals, Sequences, FiniteSets, TLC, Codec

CONSTANTS
  Connector, Acceptor,  \* the two processes
  MaxConn,      \* ConnectToPeer calls made by the Connector
  MaxChat,      \* chat messages the users send, both processes together
  UserId(_),    \* ChatManager::_local_user_id of a process: 32 bytes
  SessionId(_), \* the random PeerId of the k-th connection's sessions: 32 bytes
  MsgId(_),     \* Message::GenerateMessageId of the i-th chat: 16 bytes
  ConnMsgId,    \* the MessageId of a ConnectionMessage: 16 bytes
  Stamps,       \* values of std::time(nullptr), big-endian: 8 bytes each
  Content(_),   \* the UTF-8 bytes of the i-th chat message
  AllocLimit    \* largest _read_buffer.resize that does not throw bad_alloc

Nodes == {Connector, Acceptor}
Conns == 1 .. MaxConn
\* A session end: the session of connection k at process n.
Ends == Conns \X Nodes
Peer(e) == <<e[1], IF e[2] = Connector THEN Acceptor ELSE Connector>>

VARIABLES
  clock,      \* the timestamp every message of this run carries
  mgr,        \* mgr[n]: "init", "listening" (acceptor open, io thread up), "running" (_is_running)
  accepting,  \* accepting[n]: an async_accept is pending
  mcb,        \* mcb[n]: AsioNetworkManager::_message_callback: "none", "chat", "file"
  conn,       \* conn[k]: "idle", "connecting", "established", "refused"
  backlog,    \* connections established at TCP level, not yet accepted by the Acceptor
  sess,       \* sess[e] for e \in DOMAIN sess: the PeerSession of end e
  wire,       \* wire[e]: bytes on their way to end e, not yet read
  io,         \* io[n]: the io thread: idle, dead, or between the two writes of a handler
  ui,         \* ui[n]: the UI thread: idle, or between the two writes of a chat
  chats,      \* chat messages sent so far
  written,    \* written[e]: the bodies fully written towards e (history)
  taken,      \* taken[e]: the bodies e's read loop has taken off the stream (history)
  got         \* got[e]: the chat messages e's read loop passed to its callback, with that callback (history)

vars == <<clock, mgr, accepting, mcb, conn, backlog, sess, wire, io, ui, chats, written, taken, got>>
-----------------------------------------------------------------------------
(* The messages of this model; their bytes are those of Codec.             *)

\* ConnectionMessage(peer_id, CONNECTED).Serialize.  The class is not in the
\* repository; the layout is the common header and a status byte (2).
ConnectionSerialize(k) ==
  Header("connection", [sender |-> SessionId(k), id |-> ConnMsgId, stamp |-> clock]) \o <<2>>

\* The i-th chat, sent by n: ChatMessage(_local_user_id, message), and its
\* bytes.
ChatRecord(n, i) ==
  [kind |-> "chat", sender |-> UserId(n), id |-> MsgId(i), stamp |-> clock, content |-> Content(i)]
ChatBody(n, i) == ChatSerialize(ChatRecord(n, i))
-----------------------------------------------------------------------------
(* The sessions and the network manager.                                    *)

Open(e) == e \in DOMAIN sess /\ sess[e].open
Idle(n) == io[n].st = "idle"
Free == [st |-> "idle"]
Writing(e, body) == [st |-> "write", end |-> e, body |-> body]

\* A new PeerSession for end e, in the table and with its read loop started
\* (session->Start()): it copies the manager's current message callback.
NewSession(e) == e :> [open |-> TRUE, cb |-> mcb[e[2]], rd |-> "size", need |-> 0]

\* The first asio::write of PeerSession::SendMessage: the length prefix.
WritePrefix(w, e, body) == [w EXCEPT ![Peer(e)] = @ \o Bytes(Len(body), 4)]

Init ==
  /\ clock \in Stamps
  /\ mgr = [n \in Nodes |-> "init"]
  /\ accepting = [n \in Nodes |-> FALSE]
  /\ mcb = [n \in Nodes |-> "none"]
  /\ conn = [k \in Conns |-> "idle"]
  /\ backlog = {}
  /\ sess = <<>>
  /\ wire = [e \in Ends |-> <<>>]
  /\ io = [n \in Nodes |-> Free]
  /\ ui = [n \in Nodes |-> Free]
  /\ chats = 0
  /\ written = [e \in Ends |-> {}]
  /\ taken = [e \in Ends |-> {}]
  /\ got = [e \in Ends |-> {}]
-----------------------------------------------------------------------------
(* The main thread: AsioNetworkManager::Start, then the registrations of   *)
(* the message callback in main (.github/workflows/ci.yml).                *)

\* Start up to its last statement: acceptor open, bound and listening,
\* StartAccept, io thread started.
Listen(n) ==
  /\ mgr[n] = "init"
  /\ mgr' = [mgr EXCEPT ![n] = "listening"]
  /\ accepting' = [accepting EXCEPT ![n] = TRUE]
  /\ UNCHANGED <<clock, mcb, conn, backlog, sess, wire, io, ui, chats, written, taken, got>>

\* The last statement of Start: `_is_running = true`.
SetRunning(n) ==
  /\ mgr[n] = "listening"
  /\ mgr' = [mgr EXCEPT ![n] = "running"]
  /\ UNCHANGED <<clock, accepting, mcb, conn, backlog, sess, wire, io, ui, chats, written, taken, got>>

\* ChatManager's constructor and then main register callbacks that lead to
\* ChatManager::HandleMessage.
SetChatCallback(n) ==
  /\ mgr[n] = "running" /\ mcb[n] = "none"
  /\ mcb' = [mcb EXCEPT ![n] = "chat"]
  /\ UNCHANGED <<clock, mgr, accepting, conn, backlog, sess, wire, io, ui, chats, written, taken, got>>

\* BasicFileTransferManager's constructor registers its own, replacing it.
SetFileCallback(n) ==
  /\ mcb[n] = "chat"
  /\ mcb' = [mcb EXCEPT ![n] = "file"]
  /\ UNCHANGED <<clock, mgr, accepting, conn, backlog, sess, wire, io, ui, chats, written, taken, got>>
-----------------------------------------------------------------------------
(* Connect and accept.                                                     *)

\* ConnectToPeer (the k-th call): refused unless _is_running, else an
\* async_connect is started.
ConnectToPeer(k) ==
  /\ mgr[Connector] = "running" /\ conn[k] = "idle"
  /\ k > 1 => conn[k - 1] # "idle"
  /\ conn' = [conn EXCEPT ![k] = "connecting"]
  /\ UNCHANGED <<clock, mgr, accepting, mcb, backlog, sess, wire, io, ui, chats, written, taken, got>>

\* The kernel answers and queues a connection only on a listening socket.
Listening(n) == mgr[n] # "init"
\* The handler's `if (!ec)`: the connect succeeded.
ConnectOk(k) == Listening(Acceptor)

\* The async_connect handler on the io thread.  With the Acceptor listening
\* the connection is established (the kernel queues it until an accept):
\* new PeerId, session in the table, read loop started, and the
\* ConnectionMessage's length prefix written.  Else the error callback.
ConnectHandler(k) ==
  LET e == <<k, Connector>>
      body == ConnectionSerialize(k)
  IN /\ conn[k] = "connecting" /\ Idle(Connector)
     /\ IF ConnectOk(k)
          THEN /\ conn' = [conn EXCEPT ![k] = "established"]
               /\ backlog' = IF Listening(Acceptor) THEN backlog \cup {k} ELSE backlog
               /\ sess' = NewSession(e) @@ sess
               /\ wire' = WritePrefix(wire, e, body)
               /\ io' = [io EXCEPT ![Connector] = Writing(e, body) @@ [accept |-> FALSE]]
          ELSE /\ conn' = [conn EXCEPT ![k] = "refused"]
               /\ UNCHANGED <<clock, backlog, sess, wire, io>>
     /\ UNCHANGED <<clock, mgr, accepting, mcb, ui, chats, written, taken, got>>

\* The async_accept handler: the same steps for the queued connection k.
AcceptHandler(k) ==
  LET e == <<k, Acceptor>>
      body == ConnectionSerialize(k)
  IN /\ accepting[Acceptor] /\ k \in backlog /\ Idle(Acceptor)
     /\ accepting' = [accepting EXCEPT ![Acceptor] = FALSE]
     /\ backlog' = backlog \ {k}
     /\ sess' = NewSession(e) @@ sess
     /\ wire' = WritePrefix(wire, e, body)
     /\ io' = [io EXCEPT ![Acceptor] = Writing(e, body) @@ [accept |-> TRUE]]
     /\ UNCHANGED <<clock, mgr, mcb, conn, ui, chats, written, taken, got>>

\* The rest of a connect or accept handler: the second asio::write, the
\* connection callback, and for an accept `if (_is_running) StartAccept()`.
IoWriteBody(n) ==
  LET w == io[n] IN
  /\ w.st = "write"
  /\ wire' = [wire EXCEPT ![Peer(w.end)] = @ \o w.body]
  /\ written' = [written EXCEPT ![Peer(w.end)] = @ \cup {w.body}]
  /\ accepting' = IF w.accept /\ mgr[n] = "running"
                    THEN [accepting EXCEPT ![n] = TRUE] ELSE accepting
  /\ io' = [io EXCEPT ![n] = Free]
  /\ UNCHANGED <<clock, mgr, mcb, conn, backlog, sess, ui, chats, taken, got>>
-----------------------------------------------------------------------------
(* The UI thread: ChatManager::SendMessage -> AsioNetworkManager::        *)
(* SendMessage -> PeerSession::SendMessage, the i-th chat message.         *)

\* Lookup and IsConnected, then the length prefix.
UiSend(n, k) ==
  LET e == <<k, n>>
      i == chats + 1
  IN /\ ui[n].st = "idle" /\ chats < MaxChat /\ Open(e)
     /\ wire' = WritePrefix(wire, e, ChatBody(n, i))
     /\ ui' = [ui EXCEPT ![n] = Writing(e, ChatBody(n, i))]
     /\ chats' = i
     /\ UNCHANGED <<clock, mgr, accepting, mcb, conn, backlog, sess, io, written, taken, got>>

\* The body; on a socket closed in between, asio::write throws and
\* SendMessage calls Close and returns false.
UiWriteBody(n) ==
  LET w == ui[n] IN
  /\ w.st = "write"
  /\ IF Open(w.end)
       THEN /\ wire' = [wire EXCEPT ![Peer(w.end)] = @ \o w.body]
            /\ written' = [written EXCEPT ![Peer(w.end)] = @ \cup {w.body}]
       ELSE UNCHANGED <<clock, wire, written>>
  /\ ui' = [ui EXCEPT ![n] = Free]
  /\ UNCHANGED <<clock, mgr, accepting, mcb, conn, backlog, sess, io, chats, taken, got>>
-----------------------------------------------------------------------------
(* PeerSession::ReadMessage: the read loop of end e, on e's io thread.     *)

\* The 4-byte read completes: `_read_buffer.resize(message_size)`.  That
\* line is outside the try block: a length above AllocLimit may throw
\* bad_alloc, which leaves the handler and io_context::run, and the io
\* thread ends.
ReadSize(e) ==
  LET n == e[2]
      size == BE32(SubSeq(wire[e], 1, 4))
  IN /\ Open(e) /\ Idle(n) /\ sess[e].rd = "size" /\ Len(wire[e]) >= 4
     /\ wire' = [wire EXCEPT ![e] = SubSeq(@, 5, Len(@))]
     /\ \/ /\ sess' = [sess EXCEPT ![e].rd = "body", ![e].need = size]
           /\ UNCHANGED io
        \/ /\ size > AllocLimit
           /\ io' = [io EXCEPT ![n] = [st |-> "dead"]]
           /\ UNCHANGED sess
     /\ UNCHANGED <<clock, mgr, accepting, mcb, conn, backlog, ui, chats, written, taken, got>>

\* The body read completes: CreateFromBuffer; a nullptr is skipped, a
\* message goes to the session's callback and the loop reads on.  An empty
\* std::function throws bad_function_call, which the try block turns into
\* Close, and the loop ends.
ReadBody(e) ==
  LET n == e[2]
      b == SubSeq(wire[e], 1, sess[e].need)
      m == CreateFromBuffer(b)
  IN /\ Open(e) /\ Idle(n) /\ sess[e].rd = "body" /\ Len(wire[e]) >= sess[e].need
     /\ wire' = [wire EXCEPT ![e] = SubSeq(@, sess[e].need + 1, Len(@))]
     /\ taken' = [taken EXCEPT ![e] = @ \cup {b}]
     /\ IF m.kind # "none" /\ sess[e].cb = "none"
          THEN /\ sess' = [sess EXCEPT ![e].open = FALSE]
               /\ UNCHANGED got
          ELSE /\ sess' = [sess EXCEPT ![e].rd = "size", ![e].need = 0]
               /\ got' = IF m.kind = "chat"
                          THEN [got EXCEPT ![e] = @ \cup {[cb |-> sess[e].cb, msg |-> m]}]
                          ELSE got
     /\ UNCHANGED <<clock, mgr, accepting, mcb, conn, backlog, io, ui, chats, written>>

\* The peer closed its socket and the bytes the pending read waits for will
\* never come: the read fails and the session closes.  It stays in
\* _peer_sessions and no connection callback fires.
ReadEof(e) ==
  /\ Open(e) /\ Idle(e[2])
  /\ Peer(e) \in DOMAIN sess /\ ~sess[Peer(e)].open
  /\ Len(wire[e]) < IF sess[e].rd = "size" THEN 4 ELSE sess[e].need
  /\ sess' = [sess EXCEPT ![e].open = FALSE]
  /\ UNCHANGED <<clock, mgr, accepting, mcb, conn, backlog, wire, io, ui, chats, written, taken, got>>
-----------------------------------------------------------------------------
Next ==
  \/ \E n \in Nodes : \/ Listen(n) \/ SetRunning(n) \/ SetChatCallback(n)
                      \/ SetFileCallback(n) \/ IoWriteBody(n) \/ UiWriteBody(n)
                      \/ \E k \in Conns : UiSend(n, k)
  \/ \E k \in Conns : ConnectToPeer(k) \/ ConnectHandler(k) \/ AcceptHandler(k)
  \/ \E e \in Ends : ReadSize(e) \/ ReadBody(e) \/ ReadEof(e)

\* main and the io and UI threads run whenever they can; the user's
\* ConnectToPeer and chat commands are never forced.
Fairness ==
  /\ \A n \in Nodes : /\ WF_vars(Listen(n)) /\ WF_vars(SetRunning(n))
                      /\ WF_vars(SetChatCallback(n)) /\ WF_vars(SetFileCallback(n))
                      /\ WF_vars(IoWriteBody(n)) /\ WF_vars(UiWriteBody(n))
  /\ \A k \in Conns : WF_vars(ConnectHandler(k)) /\ WF_vars(AcceptHandler(k))
  /\ \A e \in Ends : WF_vars(ReadSize(e)) /\ WF_vars(ReadBody(e)) /\ WF_vars(ReadEof(e))

Spec == Init /\ [][Next]_vars /\ Fairness
-----------------------------------------------------------------------------
(* Properties.                                                             *)

Byte == 0 .. 255
Ready == {"idle", "dead"}

TypeOK ==
  /\ mgr \in [Nodes -> {"init", "listening", "running"}]
  /\ accepting \in [Nodes -> BOOLEAN]
  /\ mcb \in [Nodes -> {"none", "chat", "file"}]
  /\ conn \in [Conns -> {"idle", "connecting", "established", "refused"}]
  /\ backlog \subseteq {k \in Conns : conn[k] = "established"}
  /\ DOMAIN sess \subseteq Ends
  /\ \A e \in DOMAIN sess : /\ sess[e].open \in BOOLEAN /\ sess[e].rd \in {"size", "body"}
                            /\ sess[e].need \in 0 .. Big
  /\ \A e \in Ends : wire[e] \in Seq(Byte)
  /\ \A n \in Nodes : io[n].st \in Ready \cup {"write"} /\ ui[n].st \in {"idle", "write"}
  /\ chats \in 0 .. MaxChat

\* Frame integrity: every buffer a read loop hands to CreateFromBuffer is
\* the body of a frame that was written towards it, whichever threads
\* write on the socket (PeerSession::SendMessage from the io thread's
\* handlers and from the UI thread).
FrameIntegrity == \A e \in Ends : taken[e] \subseteq written[e]

\* No forged or garbled chat: every chat message a read loop passes to the
\* application is, field for field, a chat the peer's UI sent on that
\* connection (ChatMessage::Serialize then CreateFromBuffer give back the
\* message), even when the stream has lost its frame boundaries.
NoForgedChat ==
  \A e \in Ends : \A r \in got[e] :
    \E i \in 1 .. chats : /\ ChatBody(Peer(e)[2], i) \in written[e]
                          /\ r.msg = ChatRecord(Peer(e)[2], i)

\* Every chat message a session receives reaches ChatManager::HandleMessage,
\* which stores it in the history and calls the chat callback (spec 4.6 and
\* its chat-echo scenario).  The session's copy of the manager's message
\* callback decides: main's and ChatManager's registrations lead there, the
\* file engine's HandleMessage drops a chat in its default branch.
ChatsReachChatManager == \A e \in Ends : \A r \in got[e] : r.cb = "chat"

\* Every connection the Connector established, and holds a session for, is
\* eventually accepted by the Acceptor, which then holds a session for it.
EveryConnectionAccepted ==
  \A k \in Conns : conn[k] = "established" ~> <<k, Acceptor>> \in DOMAIN sess
=============================================================================
