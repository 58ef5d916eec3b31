------------------------- MODULE DiscoveryDirectory -------------------------
(***************************************************************************)
(* What LAN discovery promises the application, without datagrams or      *)
(* time: each node keeps a directory of the endpoints of other LinkNet     *)
(* processes.  An endpoint enters it only while the node runs, only if it  *)
(* belongs to another process that has started (and so may have           *)
(* announced), and the discovered callback hears of it exactly when it     *)
(* enters while a callback is set.  An entry may leave at any time while   *)
(* the node runs; after Stop the directory no longer changes.              *)
(***************************************************************************)
CONSTANTS
  Nodes,    \* LinkNet processes on the LAN
  Addr(_)   \* the ip:port a process announces

VARIABLES
  state,    \* state[n]: "init", "running", "stopped"
  listed,   \* listed[n]: the endpoints in n's directory
  cb,       \* cb[n]: the application has registered its callback
  reported  \* reported[n]: endpoints the application has been told of

vars == <<state, listed, cb, reported>>

Running(n) == state[n] = "running"
\* Endpoints n may learn: those of the other processes that have started.
Announced(n) == {Addr(m) : m \in {o \in Nodes \ {n} : state[o] # "init"}}

Init ==
  /\ state = [n \in Nodes |-> "init"]
  /\ listed = [n \in Nodes |-> {}]
  /\ cb = [n \in Nodes |-> FALSE]
  /\ reported = [n \in Nodes |-> {}]

Start(n) ==
  /\ state[n] = "init"
  /\ state' = [state EXCEPT ![n] = "running"]
  /\ UNCHANGED <<listed, cb, reported>>

Register(n) ==
  /\ Running(n) /\ ~cb[n]
  /\ cb' = [cb EXCEPT ![n] = TRUE]
  /\ UNCHANGED <<state, listed, reported>>

\* First sight of an endpoint: listed, and reported if a callback is set.
Learn(n, e) ==
  /\ Running(n) /\ e \in Announced(n) \ listed[n]
  /\ listed' = [listed EXCEPT ![n] = @ \cup {e}]
  /\ reported' = IF cb[n] THEN [reported EXCEPT ![n] = @ \cup {e}] ELSE reported
  /\ UNCHANGED <<state, cb>>

Forget(n, e) ==
  /\ Running(n) /\ e \in listed[n]
  /\ listed' = [listed EXCEPT ![n] = @ \ {e}]
  /\ UNCHANGED <<state, cb, reported>>

Stop(n) ==
  /\ Running(n)
  /\ state' = [state EXCEPT ![n] = "stopped"]
  /\ UNCHANGED <<listed, cb, reported>>

Next ==
  \E n \in Nodes : \/ Start(n) \/ Register(n) \/ Stop(n)
                   \/ \E e \in Announced(n) : Learn(n, e)
                   \/ \E e \in listed[n] : Forget(n, e)

Spec == Init /\ [][Next]_vars
=============================================================================
