------------------------------ MODULE MCServer ------------------------------
(* Instances of TunnelServer for TLC. *)
EXTENDS TunnelServer

CONSTANTS o1, o2

SameId(o) == 1

Budgets == {"up", "down", "verdict", "expire", "deny", "full", "fail", "die", "eof",
            "OPEN", "DATA", "CLOSE", "ERROR", "RESUME", "PING"}
Just(f) == [e \in Budgets |-> IF e \in DOMAIN f THEN f[e] ELSE 0]

\* One OPEN against the target's and the client's ends, backpressure and denial.
OpenScenarios ==
  {Just([up |-> 1, OPEN |-> 1, deny |-> 1, full |-> 1, fail |-> 1, die |-> 1, eof |-> 1, CLOSE |-> 1]),
   Just([up |-> 1, OPEN |-> 1, full |-> 1, die |-> 1, ERROR |-> 1]),
   Just([up |-> 2, down |-> 1, OPEN |-> 1, full |-> 1, die |-> 1, RESUME |-> 1, expire |-> 1]),
   Just([up |-> 1, OPEN |-> 2, full |-> 1, ERROR |-> 2, die |-> 1])}

\* A stream through the throttle, broken and resumed, and a keepalive verdict.
StreamScenarios ==
  {Just([up |-> 2, down |-> 1, OPEN |-> 1, DATA |-> 3, RESUME |-> 1, CLOSE |-> 1]),
   Just([up |-> 3, down |-> 2, OPEN |-> 1, RESUME |-> 2, expire |-> 2]),
   Just([up |-> 1, OPEN |-> 1, DATA |-> 1, verdict |-> 1, PING |-> 1]),
   Just([up |-> 1, OPEN |-> 2, ERROR |-> 1, verdict |-> 1])}

ServerScenarios == OpenScenarios \cup StreamScenarios
============================================================================
