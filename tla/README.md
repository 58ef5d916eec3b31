# TLA+ models of LinkNet

These are TLA+ models of the LinkNet peer-to-peer chat and file-transfer program. They cover the sources under `src/`. Every module is translated from the C++ code, and `PROJECT.json` maps each definition to the lines it stands for. The TLC runs check the properties below on small instances.

## 1. The system: components, state, operations

| Component | Source | State it keeps | Operations that change it |
|---|---|---|---|
| File-transfer engine (`BasicFileTransferManager`) | `src/src/file/file_transfer.cpp` | `_outgoing_transfers` and `_incoming_transfers`, maps keyed by `<<PeerId, file id>>` (the id is the source path on the sender and the file name on the receiver); the `TransferInfo` of each entry (size, status, bytes, next chunk index, received chunk indices, file streams); one mutex | `SendFile`, `CancelTransfer`, `StartSendingFile`, `SendNextChunk` (recursive), `HandleFileTransferRequest`, `HandleFileChunk`, `HandleFileTransferComplete` |
| Network manager and sessions (`AsioNetworkManager`, `PeerSession`) | `src/src/discovery/peer_discovery.cpp` 280-711 | `_peer_sessions` (random PeerId per connection → session), `_is_running`, per session `_is_connected`, read buffer, a copy of the message callback | `Start`, `Stop`, `ConnectToPeer`, accept handler, `DisconnectFromPeer`, `SendMessage` (prefix write, then body write), `BroadcastMessage`, read loop (`ReadMessage`), `Close` |
| LAN discovery (`PeerDiscovery`) | `src/src/discovery/peer_discovery.cpp` 1-279 | `_discovered_peers` ("ip:port" → last seen), `_running`, the discovered callback | `Start`, `Stop`, `SetDiscoveredCallback`, announce thread (send, sleep 5 × 1 s, evict entries older than 30 s), listen thread (self-echo test, insert/refresh, callback on first sight) |
| Message codec | `src/unnamed/part_005` (message.cpp), message classes in file_transfer.cpp | none (pure) | `Serialize`/`Deserialize` per message class; `MessageFactory::CreateFromBuffer`, which decodes chat and request messages only |
| Chat manager | `src/.github/workflows/ci.yml` 162-324 | chat history per peer, mutex | `SendMessage`, `BroadcastMessage`, `HandleMessage` |
| Application wiring (`main`) | `src/.github/workflows/ci.yml` 325-904 | the order in which callbacks are registered; the options | registration of the message callback three times, request callback always accepting, discovery started before its callback is set, auto-connect that calls `ConnectToPeer` twice |
| Console UI (both `ConsoleUI` classes the two `main`s construct) | `src/unnamed/part_004`, class in `src/include/linknet/file_transfer.h` 86-137; `src/src/ui/console_ui.cpp` | `_running`, the input and display threads, `_display_queue` with its condition variable, `_commands` under `_commands_mutex` | `Start`, `Stop`, `InputThreadFunc`, `DisplayThreadFunc`, `ProcessCommand`, the command handlers, `DisplayHelp`; `main`'s `SignalHandler` and polling loop |
| Crypto | `src/src/crypto` | none | not modelled (stateless libsodium wrappers) |

**How the components interact.** A node's UI thread calls the engine, e.g. `SendFile(peer_id, path)`. The engine calls `NetworkManager::SendMessage(peer_id, msg)`, which looks the id up in the *local* session table and writes the frame to the TCP socket. On the other node, the I/O thread's read loop decodes each frame with `MessageFactory`. The frame goes to the message callback, which `main` registers last and which therefore belongs to the file engine. The engine's handlers run on that I/O thread and reply through `SendMessage` as well. Discovery runs two threads of its own. Its callback (auto-connect) calls `ConnectToPeer`.

**The hard behaviours.**
- The UI thread and the I/O thread interleave on the engine's tables.
- A transfer is a multi-message protocol over a connection that may drop.
- Identifiers differ between the two sides. PeerIds are local to each table, and file ids are paths on one side and names on the other.
- Chunk arithmetic has boundary cases: the short last chunk and the zero-byte file.
- Discovery has time in it: the 5 s announce period and 30 s expiry, UDP losses, and a callback registered after the listen thread has started.
- Two threads write one socket: the prefix and body writes are not atomic.
- The console has three threads (main, input, display) and two mutexes. A handler that locks `_commands_mutex` again on its own thread, or a `Stop` run from the thread it joins, is a deadlock or an abort.

The full list is under `hazards` in `PROJECT.json`, each at its source line.

**Properties per component.**
- File transfer:
  - *WholeFileOnSuccess*: a receiver's success means every chunk of one source file of that name and size was written.
  - *EveryAcceptedTransferEnds*: no incoming entry is left for ever.
  - *SenderSuccessMeansDelivered*: the spec's acknowledged completion.
- Discovery:
  - *NoSelfDiscovery*.
  - *StaleEntriesEvicted*: nothing older than 35 s is listed.
  - *EveryLivePeerListed*.
  - *DiscoveredPeersReported*.
  - *DirectoryRefined*: Discovery implements DiscoveryDirectory, the abstract directory (see section 3).
- Sessions, framing and codec:
  - *FrameIntegrity*: every buffer the read loop decodes is a frame body someone wrote;
  - *NoForgedChat*: every chat handed to the application is, field for field, a chat the peer sent on that connection. It covers `Deserialize(Serialize(m)) = m` for chat, and it must still hold after the stream has lost its frame boundaries;
  - *EveryConnectionAccepted* (violation run only): a connection the connector holds is eventually accepted;
  - *CodecRoundTrip*: each of the four byte-modelled message classes reads back, field for field, what its `Serialize` wrote, and every other class's `Deserialize` refuses those bytes;
  - *ChatsReachChatManager* (reproduction only): every chat a session decodes is handed to ChatManager's callback.
- Console and chat manager:
  - *ChatHistoryAsSpecified*: `GetChatHistory` and `GetAllChatHistory` answer as spec §4.6 defines them, for every reachable history and every `max_count` up to 2, whatever order `std::sort` leaves equal stamps in;
  - *DisplayEnds*: once `_running` is false, the display thread leaves its loop;
  - *EveryLineHandled* (violation run only): every command the input thread starts to process returns;
  - *QueueDrainedAtEnd* (reproduction only): the display thread ends only with an empty queue;
  - *CleanExit* (reproduction only): `main` returns with no joinable thread.

## 2. Plan

The modules are listed in order of the weight of the behaviour they cover:

1. **FileTransfer** (done): the engine on two nodes, together with the network glue it relies on. That glue is routing by local PeerId, a FIFO stream per direction, frame dropping by MessageFactory, and a link drop.
2. **Discovery** (done): announce, listen and expiry, with a seconds clock.
3. **Session** (done): `Start` split at `_is_running = true`, connect and accept with re-arming, and the two-write framing with the UI and I/O threads as concurrent writers. The streams are byte-exact; their bytes come from **Codec**, the layouts of all four message classes and `CreateFromBuffer` as operators.
4. **Console** (done): the three threads of `ConsoleUI`, `ChatManager`'s history and its queries.
5. **DiscoveryDirectory** (done): the abstract directory that Discovery refines.

The project holds the maximum of 12 runs, so each new question must replace or merge a run. Questions whose answer is a violation and that found no room are kept as reproduction configurations (section 4).

Where chat messages end up after `main`'s three registrations is stated (`ChatsReachChatManager`) and found violated by a reproduction (section 4); it has no run, because the run list is full.

## 3. Modules

### FileTransfer.tla / MC_FileTransfer.tla
There are two nodes, `S` and `R`. Each knows the other under a distinct PeerId (`Sid[n]`), the id its own session table gives the connection.

**Variables**
- `out[n]` and `inc[n]` are the two maps.
- `wire[n]` holds the messages in flight towards `n` on the TCP stream.
- `up` says whether the connection is open.
- `ui[n]` is the UI thread's position (idle, about to call `StartSendingFile`, inside the `SendNextChunk` recursion).
- `disk[n][name]` holds the chunks written to `./downloads/name`, each as `<<index, source>>`.
- `done` is the history of completed-callback calls.
- `sends` counts `SendFile` calls (bounded by `MaxSendFile`).

**Actions**
- `SendFile`, `CancelTransfer`, `StartSendingFile` and `SendNextChunk` each model one call. A `SendNextChunk` step is one activation of the recursion.
- `Receive` takes one frame off the stream. A frame of a kind MessageFactory does not decode is dropped. Any other goes through `HandleMessage` to the handler.
- `LinkDrop` closes the connection and discards what is in flight.

**Constants that pin down how `main` wires the engine**
- `Decodable`: the kinds MessageFactory decodes. In the repository this is `RepoDecodable = {"Request"}`.
- `SendLoopStarted`: whether anything calls `StartSendingFile`. Nothing does in the repository.
- `Accepts`: what the request callback may answer. `main` always answers `TRUE`; the user-facing variants may refuse.
- `Faults`: link drop, failure to open the source, failure to create or write the target.

The runs with `AllDecodable` and `SendLoopStarted = TRUE` check the engine's own logic, as it would behave once wired. `ft_repo_wiring` checks the repository as it is.

**The re-entrant lock assumption.** `StartSendingFile` holds `_transfers_mutex` across `SendNextChunk`, which locks it again. That is undefined for `std::mutex`, and in practice it deadlocks (a hazard). The model reads the lock as re-entrant: while `ui[n]` is in the loop, no handler of node `n` runs (`Busy`).

**Data abstractions**
- File contents are a chunk index plus a source tag.
- Sizes are in bytes with `ChunkSize = 2`, so a 3-byte file is two chunks and the second one is short. That is the same shape as a 50 KiB file sent as 16 KiB chunks.
- Error strings, progress callbacks and timestamps are left out.

### Discovery.tla / MC_Discovery.tla
**Variables**
- `state[n]`: init, running or stopped.
- `phase[n]` and `left[n]`: the announce thread (send, sleeping with `left` seconds to go, expire).
- `table[n]`: `_discovered_peers`, mapping `<<ip, port>>` to the seconds since the entry was last seen.
- `cb[n]`: whether the callback is set.
- `reported[n]`: the endpoints the callback has been called with.
- `inflight[n]`: the datagrams queued at `n`'s listen socket. This is a set, because UDP does not order them.

**Actions**
- `Start`, `SetDiscoveredCallback`, `Announce`, `ExpirePeers`, `Receive`, `Lose` and `Stop`.
- `Tick` is one second of time. It happens only when every running announce thread is asleep and no datagram is in flight. The work between two sleeps takes far less than a second, and the spec's own test expects discovery within 6 s.

### DiscoveryDirectory.tla (abstract)
What discovery promises the application, with no datagrams and no clock. Each node has a directory `listed[n]`. `Learn` adds the endpoint of another process that has started, and reports it to the callback exactly when one is set. `Forget` may drop any entry while the node runs. `Start`, `Register` and `Stop` are the lifecycle. Discovery refines it (`DirectoryRefined`, checked in disc_safety) under the mapping `listed <- DOMAIN table` and `Addr <- Endpoint`; `state`, `cb` and `reported` map to themselves. So the table changes only in steps the abstract directory allows: an insert of a started peer's endpoint with the callback on first sight only (`FirstSight`), an eviction, or stuttering. Refreshing an entry's age is a stuttering step.

### Codec.tla
The wire layouts, byte for byte: the common header (type, 32-byte PeerId, 16-byte MessageId, 8-byte big-endian timestamp) and the fields of ChatMessage, FileTransferRequestMessage, FileChunkMessage and FileTransferCompleteMessage. Each `...Deserialize` keeps the code's size checks, type check and offsets. `BE32` reads a `uint32_t`; a value with the top bit set becomes `Big`, which is larger than any buffer here. `CreateFromBuffer` decodes chat and request messages only. `RoundTrip(msgs)` is the reference definition, `Deserialize(Serialize(m)) = m` for the same class and a refusal for any other, and MC_Session checks it as `CodecRoundTrip` on 114 sample messages per clock value.

### Session.tla / MC_Session.tla
There are two processes, `Connector` and `Acceptor`, and the Connector makes up to `MaxConn` `ConnectToPeer` calls. An end `<<k, n>>` is the session of connection `k` at process `n`.

**Variables**
- `mgr[n]`: init, listening (acceptor open, `StartAccept`, io thread started) or running (`_is_running`).
- `accepting[n]`: an `async_accept` is pending.
- `mcb[n]`: the manager's `_message_callback`: none, chat (ChatManager's constructor, then `main`'s) or file (the file engine's constructor).
- `conn[k]`, `backlog`: the Connector's view of connection `k`, and the kernel's queue of established, unaccepted connections.
- `sess[e]`: the PeerSession. It holds `_is_connected`, the callback copied at creation, and the read-loop phase with the length it waits for.
- `wire[e]`: the bytes on their way to `e`.
- `io[n]`, `ui[n]`: a thread that has written a length prefix and not yet the body.
- `clock`: the timestamp, one of two dates per behaviour.
- `written`, `taken`, `got`: histories of the bodies written towards `e`, the buffers its read loop decoded, and the chats it handed to a callback, with that callback.

**Actions**
- `Listen`, `SetRunning`, `SetChatCallback`, `SetFileCallback`: `main`'s thread.
- `ConnectToPeer`, then `ConnectHandler` and `AcceptHandler`. Each handler creates the session and writes the ConnectionMessage prefix. `IoWriteBody` writes the body, runs the callback and, for an accept, re-arms if `_is_running`.
- `UiSend`, `UiWriteBody`: `ChatManager::SendMessage` through `PeerSession::SendMessage`. A body written to a socket closed in between throws, and the session is closed.
- `ReadSize`: `resize` may throw `bad_alloc` above `AllocLimit`, outside the try block, which ends the io thread.
- `ReadBody`: decode, then the callback. An empty callback throws `bad_function_call` and closes the session.
- `ReadEof`: the peer closed the connection.

Every read and handler needs the node's io thread to be idle, because asio runs one handler at a time on that single thread.

### Console.tla / MC_Console.tla
**Variables**
- `running`: `_running`. `thr[t]`: each of the input and display threads is absent, live, done (returned, still joinable) or joined.
- `pmain`, `pin`, `pdisp`: the program counters of `main`, the input thread and the display thread. `line` is the line being processed.
- `lock`: who holds `_commands_mutex`. `queue`: the length of `_display_queue` (the text is left out).
- `history`: `ChatManager::_chat_history`, peer key → sequence of `<<user, content, stamp>>`. `now` is the clock.
- `nread`, `nin`: lines typed and inbound messages, bounded by `MaxLines` and `MaxInbound`. `outcome`: how `main` ended.
- `variant`: which of the two programs in `ci.yml` runs, fixed in `Init`. `"ChatManager"` is the first `main` with the ConsoleUI of `src/unnamed/part_004`; `"Network"` is the second `main` (lines 641-904) with the two-argument ConsoleUI of `src/src/ui/console_ui.cpp`. The second one has the same threads, mutex, queue and `Start`/`Stop`, but keeps no history.

**Actions**
- `MainStart`, `MainHelp`: `Start` (flag, two threads, `DisplayHelp`). `MainReturn`: `main`'s polling loop sees `_running` false and returns; the static `g_ui` is destroyed, and a joinable `std::thread` means `std::terminate`.
- `Signal`, `SigJoinInput`, `SigJoinDisplay`: `SignalHandler` calls `Stop`, which joins both threads and then exits.
- `InputLoop`, `GetLine`, `ProcessCommand`, `ChatCommand`: `InputThreadFunc`. A plain line is a broadcast to every connected peer. A command runs its handler under `_commands_mutex`. `help` and an unknown command call `DisplayHelp`, which locks the mutex again (state `relock`, which nothing leaves). `exit` calls `Stop` from the input thread: the self-join throws and the exception is caught, so only the flag and the message remain.
- `DisplayLoop`, `DisplayWait`: the display loop and its `cv.wait` with the predicate `!queue.empty() || !_running`. Every push notifies (`Notify`).
- `BroadcastViaChatManager`, `BroadcastViaNetwork`: a plain line in each program. The first records one history entry per connected peer and pushes two lines. The second sends through the network manager, pushes one line and records nothing. The `chat` command also touches history only in the first program.
- `HandleMessage`: an inbound chat on the network thread. The first program appends it under the peer's hex id. In the second program the `SetMessageCallback` lambda (`ci.yml` 722-741) only displays it (`ShowInbound`). `Tick` advances the clock.

**Data abstractions.** Lines are a small set of parsed argument vectors. The peer-id parse (`MCIdOf`) yields a peer, a length error or a hex error. Message texts are counted, not spelled.

## 4. Runs

| Run | Expect | What it shows |
|---|---|---|
| ft_safety | pass | Paths `x` (3 B) on S and `y` (1 B) on R, everything decodable, every fault, refusals possible, two sends per path; 494k states. A receiver's success always means the whole file was written. |
| ft_liveness | pass | Same files, one send per path, refusals and disk faults, fairness as below; 527 states. Every accepted incoming transfer ends. |
| ft_repo_wiring | violation | The repository's wiring (requests only decoded, no send loop): the accepted incoming entry stays for ever, and no file is ever transferred. |
| ft_sender_no_ack | violation | The sender reports success although the receiver refused the request. The spec says it waits for the receiver's acknowledgement. |
| ft_stale_entry | violation | Files `x` (3 B) and `d/x` (2 B). Chunks of `d/x` are ignored because their id is a path. The stale entry they leave is completed by the chunks of `x` after the request for `x` was refused. The receiver reports success for a 2-byte download of half of `x`. |
| disc_safety | pass | Two nodes on one host with different ports, datagram loss, the code's 5 s / 30 s timing; 447k states, about 2 min. No self-discovery, no entry older than 35 s, and the two nodes come to list each other. Discovery refines the abstract directory. |
| disc_callback_race | violation | A peer heard before `main` calls `SetDiscoveredCallback` is listed but never reported. |
| sess_safety | pass | One connection, two chats from either side racing the handlers' writes, two clock values; 200k states, about 1 min. No chat reaches the application altered or forged, even after desynchronisation. The four message classes round-trip. |
| sess_frame_interleave | violation | The Acceptor's UI writes a chat prefix between its accept handler's two writes. The Connector's reader decodes a buffer no one wrote. The spec says the prefix and the body are one logical write. |
| sess_accept_race | violation | Two connections. The first is accepted before `Start` sets `_is_running`, so no new accept is armed, and the second is never accepted. |
| console_safety | pass | One connected peer, three typed lines (empty, text, an unknown slash word, chats to a connected, an unconnected and a malformed id, `/exit`), one inbound chat, SIGINT at start-up or while waiting, in both programs (`variant`); 238k states, about 65 s. The history queries match the spec, and the display thread always ends. |
| console_help_deadlock | violation | `/help` blocks the input thread for ever: `DisplayHelp` locks `_commands_mutex`, which `ProcessCommand` holds. |

**Reproductions outside the run list.** The run list is capped at 12, so six configurations are kept beside it and can be checked the same way:
- `ft_empty_file.cfg`: a zero-byte file is never completed by the receiver (`EveryAcceptedTransferEnds` violated). The spec says it completes at once.
- `disc_same_port.cfg`: two hosts, both on port 8080, never list each other (`EveryLivePeerListed` violated). The spec's guard is "port equal and loopback".
- `sess_chat_dropped.cfg`: a session opened after `main` has wired the file engine hands an incoming chat to the file callback, which drops it (`ChatsReachChatManager` violated). Spec §4.6 and the chat-echo scenario expect ChatManager to receive it. ChatManager's own callback would also drop every non-chat message instead of passing it on, and `SetNextHandler` is declared but never defined.
- `ft_link_drop.cfg`: ft_liveness with `LinkDrop` instead of disk faults. A connection that fails mid-transfer leaves the receiver's entry for ever (`EveryAcceptedTransferEnds` violated in 10 states): the session closes silently, and no DISCONNECTED callback or timeout cleans up.
- `console_queue_dropped.cfg`: a SIGINT right after start-up makes `Stop` clear `_running` while the help text and its own "Exiting..." are queued. The display thread's `while (_running)` test then ends it with the queue full (`QueueDrainedAtEnd` violated in 5 states).
- `console_exit_abort.cfg`: `/exit` makes `main` return with both console threads joinable, so the program aborts (`CleanExit` violated in 7 states).

Each property of a passing run has a mutant in `PROJECT.json`: a plausible bug in a mapped definition that TLC then catches.
- a missing erase on the sender's completion breaks `TypeOK`;
- completing one chunk early breaks `WholeFileOnSuccess`;
- `>` instead of `>=` breaks `EveryAcceptedTransferEnds`;
- a seconds/milliseconds mix-up in eviction breaks `TypeOK` of discovery;
- the spec's loopback-only echo test breaks `NoSelfDiscovery`;
- a sleep loop one second too long breaks `StaleEntriesEvicted`;
- skipping every datagram from one's own host breaks `EveryLivePeerListed`;
- reading the length prefix as a signed `int32_t` breaks `TypeOK` of Session;
- reading chat content one byte early breaks `NoForgedChat`;
- reading chunk data one byte early breaks `CodecRoundTrip`;
- calling the discovered callback on every datagram, not on first sight, breaks `DirectoryRefined`;
- a display wait without its predicate breaks `TypeOK` of Console (the queue goes below zero);
- trimming the newest instead of the oldest breaks `ChatHistoryAsSpecified`;
- a push without `notify_one` breaks `DisplayEnds`.

**Bounds.**
- *Files:* two sizes, one with a short last chunk. They reach every branch of the chunk loop: a full chunk, a short chunk, completion by bytes, and (under faults) send failure and end of file.
- *Sends:* two `SendFile` calls per path reach the re-request cases, namely an overwritten entry and one a previous transfer left behind.
- *Discovery, safety:* the real constants are used. Losses make ages climb to the eviction bound, so the 35 s bound is really reached.
- *Session:*
  - one connection and two chats reach every interleaving of the two writers on both sides;
  - the two clock values (November 2025, September 2026) cover both kinds of garbage length a desynchronised reader meets. One is below `AllocLimit` (1 GiB), so the reader waits for ever. The other has the top bit set, so `resize` may throw;
  - the accept race needs two connections, so it has a run of its own.
- *Console:* three lines reach every branch of `GetLine` and `ProcessCommand` except help (checked by its own run), and leave room for a command after a broadcast. One inbound message with one tick gives two entries with equal or different stamps, which is where the unstable sort matters.
- Larger node sets exceed TLC's budget with 30 s ages. Two nodes already exercise every guard: the own echo, another host, and the same host with another port.

**Fairness.**
- *FileTransfer:* weak fairness on `Receive`, `StartSendingFile` and `SendNextChunk` of each node. The asio I/O thread reads for as long as the socket is open, and the UI thread runs a started `SendFile` to its end. User actions (`SendFile`, `CancelTransfer`) and `LinkDrop` get no fairness.
- *Discovery:*
  - weak fairness on the threads' steps and on `Start`/`SetDiscoveredCallback`, because `main` makes both calls at start-up;
  - weak fairness on `Tick`, because time passes;
  - strong fairness on receiving each endpoint's datagram: an announcement sent every 5 s is not lost every time.
- *Session:* weak fairness on `main`'s steps, the handlers, the pending body writes and the read loops, because asio's io thread and `main` run whenever they can. The user's `ConnectToPeer` and chats get none.
- *Console:* weak fairness on every step of the three threads, since each runs whenever it is not blocked. Typing a line (`GetLine`), SIGINT, inbound messages and the clock get none, because a user may never type or press Ctrl-C. For that reason a SIGINT's `Stop` may wait for ever in the input thread's `getline`; this is what the code does.

## 5. Not modelled, and why
- **Crypto** is a stateless set of libsodium calls, and nothing uses it on the wire.
- **The UI's text and colours** are left out; only the number of queued messages is kept. The `connect`, `send`, `peers` and `transfers` handlers only print in Console; their effects are the user actions of Session and FileTransfer. A SIGINT during `Start`'s `DisplayHelp` is not modelled. The connect, send, peers and transfers handlers of both ConsoleUI classes are not composed with Session and FileTransfer.
- **Progress callbacks and `GetOngoingTransfers`** only read state.
- **The seek-failure branch of `SendNextChunk`** cannot happen: the loop never seeks past the file's end.
- **The use-after-free in `HandleFileChunk`'s write-failure path** is below this level of abstraction.
- **`Stop`, the destructor, `DisconnectFromPeer`, `BroadcastMessage` and `GetConnectedPeers`:**
  - `Stop` and the destructor belong to program exit;
  - nothing calls `DisconnectFromPeer` (the UI has no disconnect command);
  - `BroadcastMessage` and `GetConnectedPeers` only read the table, and a broadcast's writes are those of `UiSend`.
- **`ConnectionMessage`** is used but not defined in the repository. Its bytes follow the spec's table: the common header and a status byte.
- **EPIPE on a write to a closed peer** is left out: the bytes are simply never read.
- **`ChatManager::SetLocalUserId`/`SetLocalUserName`** are never called.
- **Chat dispatch after `main`'s later registrations and the FileChunk/Complete byte layouts** are for the next sittings (section 2).
