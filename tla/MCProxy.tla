------------------------------- MODULE MCProxy ------------------------------
(***************************************************************************)
(* Model-checking instance of ProxyServer: four job clients, two pairs   *)
(* of equal priority (so FIFO order among equals matters at both levels);*)
(* three workers, which the safety run gives a queue of three slots, so  *)
(* the fourth job can find it full while the workers race for the rest.  *)
(***************************************************************************)
EXTENDS ProxyServer

CONSTANTS c1, c2, c3, c4, w1, w2, w3

MCClients == {c1, c2, c3, c4}
MCWorkers == {w1, w2, w3}

(* Priorities parsed from "/1/...", "/1/...", "/2/..." and "/2/...". *)
MCPrio == [c \in MCClients |-> IF c \in {c3, c4} THEN 2 ELSE 1]

(* A client sending "/-1/..." : sscanf parses priority -1. *)
MCPrioNegative == [c \in MCClients |-> IF c = c3 THEN 2 ELSE -1]
=============================================================================
