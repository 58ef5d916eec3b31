----------------------------- MODULE Discovery -----------------------------
(***************************************************************************)
(* LAN discovery (PeerDiscovery, src/src/discovery/peer_discovery.cpp) on  *)
(* a set of nodes.  Each node runs an announce thread (send                *)
(* LINKNET_DISCOVERY:<port> to the multicast group, sleep the interval one *)
(* second at a time, evict entries older than the timeout) and a listen    *)
(* thread (receive a datagram, skip it as an own echo, insert or refresh   *)
(* the "ip:port" entry, call the discovered callback on first sight).      *)
(*                                                                         *)
(* Time advances in whole seconds (Tick).  An entry stores the seconds     *)
(* since its last refresh instead of a time point (a running node evicts  *)
(* it long before it is Timeout + Interval + 1 seconds old).  A tick       *)
(* waits for datagrams in flight and for threads that are not asleep: the  *)
(* threads' work between two sleeps takes well under a second.            *)
(***************************************************************************)
EXTENDS Naturals, FiniteSets, Functions, TLC

CONSTANTS
  Nodes,        \* LinkNet processes on the LAN
  Host(_),      \* the source IP of the node's datagrams
  Port(_),      \* the node's TCP listening port, announced in the payload
  Interval,     \* DISCOVERY_INTERVAL_SEC
  Timeout,      \* PEER_TIMEOUT_SEC
  Faults        \* "loss": a datagram may be lost

ASSUME Interval \in Nat \ {0} /\ Timeout \in Nat /\ Faults \subseteq {"loss"}
\* Two processes on one host cannot both bind the same TCP port.
ASSUME \A a, b \in Nodes : a # b /\ Host(a) = Host(b) => Port(a) # Port(b)

VARIABLES
  state,      \* state[n]: "init" (before Start), "running", "stopped"
  phase,      \* phase[n]: announce thread at "send", "sleep" or "expire"
  left,       \* left[n]: seconds of the sleep loop still to go
  table,      \* table[n]: _discovered_peers, <<ip, port>> -> seconds since last seen
  cb,         \* cb[n]: _discovered_callback has been set
  reported,   \* reported[n]: endpoints the discovered callback was called with
  inflight    \* inflight[n]: announcements on their way to n's listen socket

vars == <<state, phase, left, table, cb, reported, inflight>>

Endpoint(n) == <<Host(n), Port(n)>>
Endpoints == {Endpoint(n) : n \in Nodes}
Cap == Timeout + Interval + 1
Running(n) == state[n] = "running"

Init ==
  /\ state = [n \in Nodes |-> "init"]
  /\ phase = [n \in Nodes |-> "send"]
  /\ left = [n \in Nodes |-> 0]
  /\ table = [n \in Nodes |-> <<>>]
  /\ cb = [n \in Nodes |-> FALSE]
  /\ reported = [n \in Nodes |-> {}]
  /\ inflight = [n \in Nodes |-> {}]

\* PeerDiscovery::Start: sockets bound and joined, _running, both threads
\* started.  main registers the discovered callback only afterwards.
Start(n) ==
  /\ state[n] = "init"
  /\ state' = [state EXCEPT ![n] = "running"]
  /\ UNCHANGED <<phase, left, table, cb, reported, inflight>>

\* SetDiscoveredCallback, called by main once Start has returned true.
SetDiscoveredCallback(n) ==
  /\ Running(n) /\ ~cb[n]
  /\ cb' = [cb EXCEPT ![n] = TRUE]
  /\ UNCHANGED <<state, phase, left, table, reported, inflight>>

\* BroadcastThreadFunc, top of the loop: sendto the group, which delivers a
\* copy to every member's listen socket (the sender's own included); then
\* the sleep loop begins.
Announce(n) ==
  /\ Running(n) /\ phase[n] = "send"
  /\ inflight' = [m \in Nodes |-> IF Running(m) THEN inflight[m] \cup {Endpoint(n)}
                                  ELSE inflight[m]]
  /\ phase' = [phase EXCEPT ![n] = "sleep"]
  /\ left' = [left EXCEPT ![n] = Interval]
  /\ UNCHANGED <<state, table, cb, reported>>

\* The sleep loop `for (i = 0; i < DISCOVERY_INTERVAL_SEC && _running; ++i)`
\* after one more second: whether it is over.
SleepOverLong(k) == k - 1 < 0
SleepOver(k) == k - 1 = 0
Older(age) == age + 1

\* One second passes: every sleeping announce thread wakes once, and every
\* entry of a running node ages.
Tick ==
  /\ \A n \in Nodes : Running(n) => phase[n] = "sleep"
  /\ \A n \in Nodes : inflight[n] = {}
  /\ phase' = [n \in Nodes |-> IF Running(n) /\ SleepOver(left[n]) THEN "expire" ELSE phase[n]]
  /\ left' = [n \in Nodes |-> IF Running(n) /\ left[n] > 0 THEN left[n] - 1 ELSE left[n]]
  /\ table' = [n \in Nodes |-> IF Running(n)
                                 THEN [k \in DOMAIN table[n] |-> Older(table[n][k])]
                                 ELSE table[n]]
  /\ UNCHANGED <<state, cb, reported, inflight>>

\* The eviction test `now - it->second > std::chrono::seconds(PEER_TIMEOUT_SEC)`,
\* negated: the entry stays.
FreshMillis(age) == age <= Timeout * 1000
Fresh(age) == age <= Timeout

\* BroadcastThreadFunc after the sleep: erase every entry last seen more
\* than PEER_TIMEOUT_SEC ago, then loop to the next announcement.
ExpirePeers(n) ==
  /\ Running(n) /\ phase[n] = "expire"
  /\ table' = [table EXCEPT ![n] = Restrict(@, {k \in DOMAIN @ : Fresh(@[k])})]
  /\ phase' = [phase EXCEPT ![n] = "send"]
  /\ UNCHANGED <<state, left, cb, reported, inflight>>

IsOwnEchoLoopbackOnly(n, d) == d[2] = Port(n) /\ d[1] = "127.0.0.1"
IsOwnEchoSameHost(n, d) == d[1] = Host(n)
\* The self-echo test of ListenThreadFunc: `port == _port || (sender_ip ==
\* "127.0.0.1" && port == _port)`.
IsOwnEcho(n, d) == d[2] = Port(n)

FirstSightAlways(n, d) == TRUE
\* `bool is_new = _discovered_peers.find(peer_key) == _discovered_peers.end()`.
FirstSight(n, d) == d \notin DOMAIN table[n]

\* ListenThreadFunc, one datagram d = <<sender ip, announced port>>: skip an
\* own echo; else insert (first sight, reported if the callback is set) or
\* refresh the entry.
Receive(n, d) ==
  /\ Running(n) /\ d \in inflight[n]
  /\ inflight' = [inflight EXCEPT ![n] = @ \ {d}]
  /\ IF IsOwnEcho(n, d)
       THEN UNCHANGED <<table, reported>>
       ELSE /\ table' = [table EXCEPT ![n] = (d :> 0) @@ @]
            /\ reported' = IF FirstSight(n, d) /\ cb[n]
                             THEN [reported EXCEPT ![n] = @ \cup {d}]
                             ELSE reported
  /\ UNCHANGED <<state, phase, left, cb>>

\* UDP multicast gives no delivery guarantee.
Lose(n, d) ==
  /\ "loss" \in Faults /\ d \in inflight[n]
  /\ inflight' = [inflight EXCEPT ![n] = @ \ {d}]
  /\ UNCHANGED <<state, phase, left, table, cb, reported>>

\* PeerDiscovery::Stop: _running cleared, sockets closed (datagrams queued
\* at the listen socket are gone), threads joined.
Stop(n) ==
  /\ Running(n)
  /\ state' = [state EXCEPT ![n] = "stopped"]
  /\ inflight' = [inflight EXCEPT ![n] = {}]
  /\ UNCHANGED <<phase, left, table, cb, reported>>

Next ==
  \/ \E n \in Nodes : Start(n) \/ SetDiscoveredCallback(n) \/ Announce(n)
                      \/ ExpirePeers(n) \/ Stop(n)
  \/ \E n \in Nodes, d \in Endpoints : Receive(n, d) \/ Lose(n, d)
  \/ Tick

\* The threads run whenever they can, time passes, and a datagram that keeps
\* being sent is not lost every time (strong fairness on its receipt).
Fairness ==
  /\ WF_vars(Tick)
  /\ \A n \in Nodes : /\ WF_vars(Start(n)) /\ WF_vars(SetDiscoveredCallback(n))
                      /\ WF_vars(Announce(n)) /\ WF_vars(ExpirePeers(n))
                      /\ \A d \in Endpoints : SF_vars(Receive(n, d))

Spec == Init /\ [][Next]_vars /\ Fairness
-----------------------------------------------------------------------------
(* Properties.                                                             *)

TypeOK ==
  /\ state \in [Nodes -> {"init", "running", "stopped"}]
  /\ phase \in [Nodes -> {"send", "sleep", "expire"}]
  /\ left \in [Nodes -> 0 .. Interval]
  /\ \A n \in Nodes : /\ DOMAIN table[n] \subseteq Endpoints
                      /\ \A k \in DOMAIN table[n] : table[n][k] \in 0 .. Cap
  /\ cb \in [Nodes -> BOOLEAN]
  /\ reported \in [Nodes -> SUBSET Endpoints]
  /\ inflight \in [Nodes -> SUBSET Endpoints]

\* A node never lists, nor reports to the application, its own endpoint:
\* the listen thread drops the echo of its own multicast announcement,
\* which arrives with the interface address as source (self-echo test).
NoSelfDiscovery ==
  \A n \in Nodes : Endpoint(n) \notin DOMAIN table[n] \cup reported[n]

\* A running node never lists an endpoint it has not heard from for more
\* than PEER_TIMEOUT_SEC + DISCOVERY_INTERVAL_SEC seconds (35 s): the
\* eviction pass that follows every sleep of the announce thread is never
\* further apart than one interval.
StaleEntriesEvicted ==
  \A n \in Nodes : Running(n) =>
    \A k \in DOMAIN table[n] : table[n][k] <= Timeout + Interval

\* Two nodes that both run discover each other: while both keep running,
\* each eventually lists the other's ip:port.
EveryLivePeerListed ==
  \A a, b \in Nodes : a # b =>
    ((Running(a) /\ Running(b)) ~>
       (Endpoint(b) \in DOMAIN table[a] \/ ~Running(a) \/ ~Running(b)))

\* Discovery implements the directory it promises the application
\* (DiscoveryDirectory): the listed endpoints are the keys of
\* _discovered_peers; an entry appears only while the node runs and only
\* for another process that has started, the discovered callback fires
\* exactly on an entry's first sight with the callback set (never on a
\* refresh), and nothing changes before Start or after Stop.
Directory == INSTANCE DiscoveryDirectory
               WITH listed <- [n \in Nodes |-> DOMAIN table[n]], Addr <- Endpoint
DirectoryRefined == Directory!Spec

\* The application hears of every peer the node lists: each endpoint in
\* _discovered_peers was passed to the discovered callback on first sight.
DiscoveredPeersReported ==
  \A n \in Nodes : DOMAIN table[n] \subseteq reported[n]
=============================================================================
