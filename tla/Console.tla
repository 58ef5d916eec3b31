------------------------------ MODULE Console ------------------------------
(***************************************************************************)
(* The console UI that main links (ConsoleUI of src/unnamed/part_004,      *)
(* declared in include/linknet/file_transfer.h) together with the          *)
(* ChatManager it drives (src/.github/workflows/ci.yml) and main's         *)
(* handling of the global g_ui.  The repository has a second program (the  *)
(* main at ci.yml 641-904) around the two-argument ConsoleUI of            *)
(* src/src/ui/console_ui.cpp: same threads, locking and commands, but its  *)
(* chats go to the network manager directly and no history is kept.  The  *)
(* rigid variable variant says which of the two programs runs.             *)
(*                                                                         *)
(* Three threads share a ConsoleUI: the input thread (pin) reads lines     *)
(* and runs commands under _commands_mutex, the display thread (pdisp)     *)
(* drains _display_queue under _display_queue_mutex and its condition      *)
(* variable, and main's thread (pmain) calls Start, polls IsRunning,       *)
(* returns, and runs SignalHandler when SIGINT or SIGTERM arrives.  The    *)
(* network I/O thread delivers inbound chats to ChatManager::HandleMessage *)
(* (the dispatch the spec describes; in the repository main's later        *)
(* SetMessageCallback calls replace it, see Session).                      *)
(*                                                                         *)
(* A line is abstracted to its whitespace-separated words (ProcessCommand  *)
(* splits with operator>>) and whether it began with '/'; display strings  *)
(* are counted, not spelled.                                               *)
(***************************************************************************)
EXTENDS Naturals, Sequences, FiniteSets, SequencesExt

CONSTANTS
  Commands,    \* the command names the constructor registers
  Lines,       \* lines the user may type: [slash : BOOLEAN, args : Seq(words)]
  IdOf(_),     \* the PeerId a /chat argument parses to, or a parse error
  Connected,   \* PeerIds with an open session (GetConnectedPeers)
  LocalUser,   \* ChatManager's _local_user_id
  Users,       \* sender ids carried by inbound ChatMessages
  Texts,       \* contents of inbound ChatMessages
  SignalAt,    \* main's states in which SIGINT or SIGTERM may arrive
  MaxLines,    \* bound on the lines getline returns
  MaxInbound,  \* bound on the inbound chats
  MaxTime,     \* bound on the clock std::time reads
  MaxShow      \* largest max_messages the history queries are checked for

ParseErrors == {"BadLength", "BadHex"}
ASSUME \A l \in Lines : l.slash \in BOOLEAN
ASSUME Connected \cap ParseErrors = {}

VARIABLES
  running,   \* _running (std::atomic<bool>)
  thr,       \* thr[t]: state of the std::thread object _input_thread / _display_thread
  pin,       \* where the input thread is
  line,      \* the line the input thread is processing
  pdisp,     \* where the display thread is
  pmain,     \* where main's thread is
  lock,      \* holder of _commands_mutex
  queue,     \* number of strings in _display_queue
  history,   \* ChatManager::_chat_history: key -> sequence of ChatInfo
  now,       \* std::time(nullptr)
  nread,     \* lines returned by getline so far
  nin,       \* inbound chats so far
  outcome,   \* how the process ended
  variant    \* "ChatManager" (part_004, first main) or "Network" (console_ui.cpp, second main)

vars == <<running, thr, pin, line, pdisp, pmain, lock, queue, history, now,
          nread, nin, outcome, variant>>

Threads == {"input", "display"}
Keys == Connected \cup Users \cup {IdOf(w) : w \in UNION {ToSet(l.args) : l \in Lines}}
NoLine == [slash |-> FALSE, args |-> <<>>]

\* std::thread::joinable: a thread that was started and not yet joined.
Joinable(s) == s \in {"live", "done"}

\* std::thread::join, once the thread has finished.
JoinedAfter(s) == IF s = "done" THEN "joined" ELSE s

\* DisplayMessage / DisplayColoredMessage: push under the queue mutex, then
\* notify_one, which wakes the display thread if it sleeps on the cv.
NotifyMissing(d) == d
Notify(d) == IF d = "sleep" THEN "wait" ELSE d
Push(k) == /\ queue' = queue + k
           /\ pdisp' = Notify(pdisp)

\* The key ProcessCommand looks up: args[0].
CommandName(l) == l.args[1]

Entry(from, text, ts) == [from |-> from, text |-> text, ts |-> ts]
Append1(h, k, e) == [h EXCEPT ![k] = Append(@, e)]

\* ChatManager::SendMessage: the network send succeeds only for a PeerId
\* with a session; only then is the message stored in the peer's history.
SendMessage(h, id, text) ==
  IF id \in Connected THEN Append1(h, id, Entry(LocalUser, text, now)) ELSE h

\* ChatManager::BroadcastMessage: send to every connected peer, then store
\* one entry for each peer GetConnectedPeers returns.
BroadcastMessage(h, text) ==
  [k \in DOMAIN h |-> IF k \in Connected THEN Append(h[k], Entry(LocalUser, text, now))
                      ELSE h[k]]

\* std::thread objects whose destructor runs with the thread joinable call
\* std::terminate; otherwise the process exits normally.
ExitOutcome(t) == IF \E x \in Threads : Joinable(t[x]) THEN "terminate" ELSE "clean"

Init ==
  /\ running = FALSE
  /\ thr = [t \in Threads |-> "none"]
  /\ pin = "none" /\ pdisp = "none" /\ pmain = "init"
  /\ line = NoLine
  /\ lock = "none"
  /\ queue = 0
  /\ history = [k \in Keys |-> <<>>]
  /\ now = 0 /\ nread = 0 /\ nin = 0
  /\ outcome = "running"
  /\ variant \in {"ChatManager", "Network"}

\* The display thread's wait predicate: !_display_queue.empty() || !_running.
ReadyAlways(q, r) == TRUE
Ready(q, r) == q > 0 \/ ~r

Alive == pmain # "exited"

-----------------------------------------------------------------------------
(* main's thread.                                                          *)

\* g_ui->Start(): _running is still false, so set it, start the input and
\* the display threads, and go on to DisplayHelp.
MainStart ==
  /\ pmain = "init"
  /\ running' = TRUE
  /\ thr' = [t \in Threads |-> "live"]
  /\ pin' = "top" /\ pdisp' = "top" /\ pmain' = "help"
  /\ UNCHANGED <<line, lock, queue, history, now, nread, nin, outcome, variant>>

\* DisplayHelp() at the end of Start: the header, then one line per
\* registered command while holding _commands_mutex.
MainHelp ==
  /\ pmain = "help" /\ lock = "none"
  /\ Push(1 + Cardinality(Commands))
  /\ pmain' = "wait"
  /\ UNCHANGED <<running, thr, pin, line, lock, history, now, nread, nin, outcome, variant>>

\* The polling loop sees IsRunning() false: main stops discovery and the
\* network and returns 0; static destruction runs ~ConsoleUI (its Stop
\* returns at once) and then the destructors of the two std::thread members.
MainReturn ==
  /\ pmain = "wait" /\ ~running
  /\ pmain' = "exited"
  /\ outcome' = ExitOutcome(thr)
  /\ UNCHANGED <<running, thr, pin, line, pdisp, lock, queue, history, now, nread, nin, variant>>

\* SignalHandler: g_ui->Stop(), then std::exit(signal).  Stop exchanges
\* _running for false; when it was already false it returns at once and the
\* exit runs the destructors; otherwise it queues "Exiting..." and joins.
Signal ==
  /\ pmain \in SignalAt \cap {"init", "wait"}
  /\ IF running
       THEN /\ running' = FALSE /\ Push(1) /\ pmain' = "join_input"
            /\ UNCHANGED outcome
       ELSE /\ pmain' = "exited" /\ outcome' = ExitOutcome(thr)
            /\ UNCHANGED <<running, queue, pdisp>>
  /\ UNCHANGED <<thr, pin, line, lock, history, now, nread, nin, variant>>

\* Stop: _input_thread.join() waits until the input thread has returned.
SigJoinInput ==
  /\ pmain = "join_input"
  /\ thr["input"] # "live"
  /\ thr' = [thr EXCEPT !["input"] = JoinedAfter(@)]
  /\ pmain' = "join_display"
  /\ UNCHANGED <<running, pin, line, pdisp, lock, queue, history, now, nread, nin, outcome, variant>>

\* Stop: _display_thread.join(), then std::exit(signal) destroys g_ui.
SigJoinDisplay ==
  /\ pmain = "join_display"
  /\ thr["display"] # "live"
  /\ thr' = [thr EXCEPT !["display"] = JoinedAfter(@)]
  /\ pmain' = "exited"
  /\ outcome' = ExitOutcome(thr')
  /\ UNCHANGED <<running, pin, line, pdisp, lock, queue, history, now, nread, nin, variant>>

-----------------------------------------------------------------------------
(* The input thread (InputThreadFunc and ProcessCommand).                  *)

\* while (_running): the loop test; a false test ends the thread.
InputLoop ==
  /\ Alive /\ pin = "top"
  /\ IF running
       THEN pin' = "getline" /\ UNCHANGED thr
       ELSE pin' = "end" /\ thr' = [thr EXCEPT !["input"] = "done"]
  /\ UNCHANGED <<running, line, pdisp, pmain, lock, queue, history, now, nread, nin, outcome, variant>>

\* A plain line in part_004: "Broadcasting message", ChatManager's
\* BroadcastMessage, and "You: ..." on the display.
BroadcastViaChatManager(l) ==
  /\ Push(2)
  /\ history' = BroadcastMessage(history, l.args)

\* A plain line in console_ui.cpp: "Broadcasting message", then a
\* ChatMessage under a random sender id goes to the network manager's
\* BroadcastMessage; nothing is kept.
BroadcastViaNetwork ==
  /\ Push(1)
  /\ UNCHANGED history

\* std::getline returns a line (an empty one at end of input).  The thread
\* leaves if _running went false meanwhile, skips an empty line, hands a
\* '/' line to ProcessCommand, and broadcasts any other, through the
\* ChatManager or the network manager depending on the program.
GetLine ==
  /\ Alive /\ pin = "getline" /\ nread < MaxLines
  /\ nread' = nread + 1
  /\ \E l \in Lines :
       IF ~running
         THEN /\ pin' = "end" /\ thr' = [thr EXCEPT !["input"] = "done"]
              /\ UNCHANGED <<line, queue, pdisp, history>>
       ELSE IF l = NoLine
         THEN pin' = "top" /\ UNCHANGED <<thr, line, queue, pdisp, history>>
       ELSE IF l.slash
         THEN pin' = "cmd" /\ line' = l /\ UNCHANGED <<thr, queue, pdisp, history>>
       ELSE /\ IF variant = "ChatManager" THEN BroadcastViaChatManager(l) ELSE BroadcastViaNetwork
            /\ pin' = "top" /\ UNCHANGED <<thr, line>>
  /\ UNCHANGED <<running, pmain, lock, now, nin, outcome, variant>>

\* The "chat" handler: usage and PeerId parse errors only print; otherwise
\* ChatManager::SendMessage with the remaining words as the message.  In
\* console_ui.cpp the handler sends a ChatMessage under a random sender id
\* through the network manager and keeps nothing; both print one line.
ChatCommand(l) ==
  IF Len(l.args) >= 3 /\ IdOf(l.args[2]) \notin ParseErrors
    THEN SendMessage(history, IdOf(l.args[2]), SubSeq(l.args, 3, Len(l.args)))
    ELSE history

\* ProcessCommand: split the line; with no word, return.  Otherwise take
\* _commands_mutex (a lock_guard held to the end) and look the first word
\* up.  An unknown command prints and calls DisplayHelp, and so does the
\* "help" handler: DisplayHelp locks _commands_mutex again on the same
\* thread, and a std::mutex is not recursive, so the thread blocks there
\* for ever (relock).  The "exit" handler calls Stop on the input thread:
\* _input_thread.join() then throws resource_deadlock_would_occur, which
\* ProcessCommand catches and prints.  The other handlers print one line;
\* their network and file effects are modelled by Session and FileTransfer.
ProcessCommand ==
  /\ Alive /\ pin = "cmd"
  /\ IF line.args = <<>>
       THEN pin' = "top" /\ UNCHANGED <<running, lock, queue, pdisp, history>>
     ELSE
       /\ lock = "none"
       /\ LET cmd == CommandName(line) IN
          IF cmd \notin Commands \/ cmd = "help"
            THEN /\ Push(IF cmd = "help" THEN 1 ELSE 2)
                 /\ lock' = "input" /\ pin' = "relock"
                 /\ UNCHANGED <<running, history>>
          ELSE IF cmd = "exit"
            THEN /\ IF running
                      THEN running' = FALSE /\ Push(2)
                      ELSE UNCHANGED <<running, queue, pdisp>>
                 /\ pin' = "top" /\ UNCHANGED <<lock, history>>
          ELSE /\ Push(1)
               /\ history' = IF cmd = "chat" /\ variant = "ChatManager" THEN ChatCommand(line)
                              ELSE history
               /\ pin' = "top" /\ UNCHANGED <<running, lock>>
  /\ UNCHANGED <<thr, line, pmain, now, nread, nin, outcome, variant>>

-----------------------------------------------------------------------------
(* The display thread (DisplayThreadFunc).                                 *)

\* while (_running): the loop test; a false test ends the thread.
DisplayLoop ==
  /\ Alive /\ pdisp = "top"
  /\ IF running
       THEN pdisp' = "wait" /\ UNCHANGED thr
       ELSE pdisp' = "end" /\ thr' = [thr EXCEPT !["display"] = "done"]
  /\ UNCHANGED <<running, pin, line, pmain, lock, queue, history, now, nread, nin, outcome, variant>>

\* _display_cv.wait(lock, pred): with the predicate false the thread sleeps
\* until a notify_one; with it true it leaves when stopped and the queue is
\* empty, else pops the front string and prints it outside the lock.
DisplayWait ==
  /\ Alive /\ pdisp = "wait"
  /\ IF ~Ready(queue, running)
       THEN pdisp' = "sleep" /\ UNCHANGED <<thr, queue>>
     ELSE IF ~running /\ queue = 0
       THEN pdisp' = "end" /\ thr' = [thr EXCEPT !["display"] = "done"] /\ UNCHANGED queue
     ELSE pdisp' = "top" /\ queue' = queue - 1 /\ UNCHANGED thr
  /\ UNCHANGED <<running, pin, line, pmain, lock, history, now, nread, nin, outcome, variant>>

-----------------------------------------------------------------------------
(* The network I/O thread and the clock.                                   *)

\* The second main's message callback: a ChatMessage is shown on g_ui
\* ("Message from peer: ..."), every other type is ignored; no history.
ShowInbound == UNCHANGED history

\* An inbound ChatMessage.  First program: ChatManager::HandleMessage
\* appends it to the history of its sender id, then main's chat callback
\* shows it on g_ui.  Second program: ShowInbound.
HandleMessage ==
  /\ Alive /\ nin < MaxInbound
  /\ nin' = nin + 1
  /\ \E u \in Users, c \in Texts, t \in 0 .. MaxTime :
       IF variant = "ChatManager" THEN history' = Append1(history, u, Entry(u, <<c>>, t))
       ELSE ShowInbound
  /\ Push(1)
  /\ UNCHANGED <<running, thr, pin, line, pmain, lock, now, nread, outcome, variant>>

\* std::time advances (one second).
Tick ==
  /\ Alive /\ now < MaxTime
  /\ now' = now + 1
  /\ UNCHANGED <<running, thr, pin, line, pdisp, pmain, lock, queue, history, nread, nin, outcome, variant>>

Next ==
  \/ MainStart \/ MainHelp \/ MainReturn \/ Signal \/ SigJoinInput \/ SigJoinDisplay
  \/ InputLoop \/ GetLine \/ ProcessCommand
  \/ DisplayLoop \/ DisplayWait
  \/ HandleMessage \/ Tick

\* Every thread that can run eventually runs; the user (GetLine, Signal)
\* and the peers (HandleMessage) owe nothing.
Fairness ==
  /\ WF_vars(MainStart) /\ WF_vars(MainHelp) /\ WF_vars(MainReturn)
  /\ WF_vars(SigJoinInput) /\ WF_vars(SigJoinDisplay)
  /\ WF_vars(InputLoop) /\ WF_vars(ProcessCommand)
  /\ WF_vars(DisplayLoop) /\ WF_vars(DisplayWait)

Spec == Init /\ [][Next]_vars /\ Fairness

-----------------------------------------------------------------------------
(* The history queries: they read the state and change nothing.            *)

\* ChatManager::GetChatHistory(peer_id, max_messages): the whole history
\* when it is no longer than max_messages, else its last max_messages.
GetChatHistory(h, p, max) ==
  IF Len(h[p]) <= max THEN h[p] ELSE SubSeq(h[p], Len(h[p]) - max + 1, Len(h[p]))

\* The entries of every history, concatenated (std::map order; the sort
\* below makes the order irrelevant).
AllEntries(h) == FlattenSeq(SetToSeq({h[k] : k \in DOMAIN h}))

\* std::sort by timestamp is not stable: any arrangement sorted by ts.
SortedByStamp(s) ==
  LET n == Len(s) IN
  {r \in {[i \in 1 .. n |-> s[f[i]]] : f \in {g \in [1 .. n -> 1 .. n] : IsInjective(g)}} :
     \A i \in 1 .. n - 1 : r[i].ts <= r[i + 1].ts}

\* all_history.erase(begin, end - max_messages) when it holds more.
KeepRecentFront(r, max) == IF Len(r) > max THEN SubSeq(r, 1, max) ELSE r
KeepRecent(r, max) == IF Len(r) > max THEN SubSeq(r, Len(r) - max + 1, Len(r)) ELSE r

\* ChatManager::GetAllChatHistory(max_messages): the possible results.
GetAllChatHistory(h, max) == {KeepRecent(r, max) : r \in SortedByStamp(AllEntries(h))}

-----------------------------------------------------------------------------
(* Properties.                                                             *)

Entries == [from : {LocalUser} \cup Users, text : Seq(UNION {ToSet(l.args) : l \in Lines} \cup Texts),
            ts : 0 .. MaxTime]

TypeOK ==
  /\ running \in BOOLEAN
  /\ thr \in [Threads -> {"none", "live", "done", "joined"}]
  /\ pin \in {"none", "top", "getline", "cmd", "relock", "end"}
  /\ pdisp \in {"none", "top", "wait", "sleep", "end"}
  /\ pmain \in {"init", "help", "wait", "join_input", "join_display", "exited"}
  /\ lock \in {"none", "input"}
  /\ queue \in Nat
  /\ history \in [Keys -> Seq(Entries)]
  /\ outcome \in {"running", "clean", "terminate"}
  /\ variant \in {"ChatManager", "Network"}

\* The spec's history(peer, max): the most recent min(max, n) entries of
\* that peer, oldest first.
SpecHistory(h, p, max) ==
  LET n == Len(h[p])  k == IF max < n THEN max ELSE n IN
  [i \in 1 .. k |-> h[p][n - k + i]]

\* The spec's all_history(max): a timeline sorted by timestamp, of
\* min(max, n) of the entries, none left out newer than one kept.
SpecAllHistory(h, max) ==
  LET all == AllEntries(h)
      k == IF max < Len(all) THEN max ELSE Len(all)
  IN {r \in {[i \in 1 .. k |-> all[f[i]]] : f \in {g \in [1 .. k -> 1 .. Len(all)] : IsInjective(g)}} :
        /\ \A i \in 1 .. k - 1 : r[i].ts <= r[i + 1].ts
        /\ \A j \in 1 .. Len(all) :
             (\A i \in 1 .. k : all[j] # r[i]) => \A i \in 1 .. k : all[j].ts <= r[i].ts}

\* The history queries answer as the spec (§4.6) says, in every state the
\* UI, the broadcasts and the inbound chats reach: GetChatHistory returns a
\* peer's most recent entries oldest first, and every result the unstable
\* sort of GetAllChatHistory can give is a timestamp-ordered timeline of
\* the most recent max_messages entries.
ChatHistoryAsSpecified ==
  \A max \in 0 .. MaxShow :
    /\ \A p \in Keys : GetChatHistory(history, p, max) = SpecHistory(history, p, max)
    /\ GetAllChatHistory(history, max) \subseteq SpecAllHistory(history, max)

\* Once _running is false (Stop, from the "exit" command or a signal), the
\* display thread eventually leaves its loop: Stop's notify_one reaches it
\* even when it sleeps on the condition variable, unless the process ended
\* first.
DisplayEnds ==
  (~running /\ pdisp \notin {"none", "end"}) ~> (pdisp = "end" \/ ~Alive)

\* Every command line the input thread takes is eventually done with: the
\* thread gets back to its loop (or the process ends), so the console keeps
\* reading commands.
EveryLineHandled ==
  pin = "cmd" ~> (pin \in {"top", "end"} \/ ~Alive)

\* The display thread leaves DisplayThreadFunc only once _display_queue is
\* empty: a message queued before it ends (Stop's "Exiting...", a reply) is
\* printed (DisplayThreadFunc's while (_running) test versus its wait).
QueueDrainedAtEnd ==
  [][pdisp # "end" /\ pdisp' = "end" => queue' = 0]_vars

\* The process never ends in std::terminate: whichever way main leaves
\* (return after "exit", std::exit in SignalHandler), both UI threads have
\* been joined before the ConsoleUI is destroyed.
CleanExit == outcome # "terminate"
=============================================================================
