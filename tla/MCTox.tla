------------------------------- MODULE MCTox -------------------------------
(* Instances of ToxNode for TLC. *)
EXTENDS ToxNode

CONSTANTS a, b, c1, c2

OneFriend == [n \in Numbers |-> a]
Budgets == {"data", "ping", "add", "remove", "start", "stop", "up", "down", "dhtUp", "dhtDown",
            "bootstrap", "fetchFails", "probe", "wedge", "watch", "suspend", "switch", "early", "aged"}
Just(f) == [e \in Budgets |-> IF e \in DOMAIN f THEN f[e] ELSE 0]

\* The gate: more DATA than a budget over a link that breaks once, is upgraded,
\* carries keepalives, or is drained by a probe; a friend whose number is reused.
GateScenarios ==
  {Just([up |-> 2, down |-> 1, data |-> 3]),
   Just([up |-> 1, data |-> 2, ping |-> 1]),
   Just([up |-> 1, data |-> 3, early |-> 1]),
   Just([up |-> 1, data |-> 3, aged |-> 1]),
   Just([up |-> 1, data |-> 3, probe |-> 1]),
   Just([up |-> 2, data |-> 2, add |-> 1, remove |-> 1])}

\* The threads: calls and stop() at every point; the bootstrap retry; the watchdog.
ThreadScenarios ==
  {Just([start |-> 2, stop |-> 1, ping |-> 2, up |-> 1]),
   Just([up |-> 2, down |-> 1, switch |-> 2]),
   Just([start |-> 1, stop |-> 1, bootstrap |-> 1, fetchFails |-> 1, dhtUp |-> 1, dhtDown |-> 1]),
   Just([start |-> 1, stop |-> 1, watch |-> 1, suspend |-> 1]),
   Just([watch |-> 1, suspend |-> 2, wedge |-> 1])}

ToxScenarios == GateScenarios \cup ThreadScenarios
============================================================================
