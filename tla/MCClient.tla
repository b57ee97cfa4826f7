------------------------------ MODULE MCClient ------------------------------
(* Instances of TunnelClient for TLC. *)
EXTENDS TunnelClient

CONSTANTS f1, f2, s1, p1

MCKind(c) == IF c \in {f1, f2} THEN "forward" ELSE IF c = s1 THEN "socks" ELSE "pipe"

Budgets == {"stop", "forward", "socks", "pipe", "cap", "end", "forget", "silent", "primary",
            "backup", "pong", "standby"} \cup Packets
Just(f) == [e \in Budgets |-> IF e \in DOMAIN f THEN f[e] ELSE 0]

\* The active server goes, comes back, is silent, or is one of two.
FailoverScenarios ==
  {Just([primary |-> 3, backup |-> 1, forward |-> 1]),
   Just([primary |-> 1, backup |-> 1, silent |-> 1, ACK |-> 2, forward |-> 1]),
   Just([primary |-> 2, backup |-> 1, silent |-> 1, pong |-> 1]),
   Just([primary |-> 2, backup |-> 1, pong |-> 1, standby |-> 1]),
   Just([primary |-> 2, backup |-> 1, ACK |-> 1, socks |-> 1])}

\* Connections held, opened, ended from either side and swept away.
ConnectionScenarios ==
  {Just([primary |-> 2, forward |-> 2, stop |-> 1]),
   Just([primary |-> 1, forward |-> 2, ACK |-> 1, stop |-> 1, end |-> 1]),
   Just([primary |-> 1, forward |-> 1, ACK |-> 1, CLOSE |-> 1, end |-> 1]),
   Just([primary |-> 1, socks |-> 1, ACK |-> 1, stop |-> 1, ERROR |-> 1, end |-> 1, cap |-> 1]),
   Just([primary |-> 3, forward |-> 1, ACK |-> 1, forget |-> 1, DECLINED |-> 1, RESUMED |-> 1]),
   Just([primary |-> 2, pipe |-> 1, ACK |-> 1, end |-> 1, stop |-> 1, ERROR |-> 1, cap |-> 1])}

ClientScenarios == FailoverScenarios \cup ConnectionScenarios
============================================================================
