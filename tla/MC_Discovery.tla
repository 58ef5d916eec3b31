---------------------------- MODULE MC_Discovery ----------------------------
(* Model-checking instance of Discovery: nodes n1 and n3 on host h1, node n2*)
(* on host h2, with the interval and timeout of the code.                  *)
EXTENDS Discovery

CONSTANTS n1, n2, n3

\* Distinct TCP ports, as when each node is started with its own --port.
MCHost(n) == IF n = n2 THEN "h2" ELSE "h1"
MCPort(n) == CASE n = n1 -> 8080 [] n = n2 -> 8081 [] n = n3 -> 8082
\* Every node started with the default --port 8080 (one per host).
MCPortDefault(n) == 8080
=============================================================================
