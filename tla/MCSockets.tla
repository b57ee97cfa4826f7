----------------------------- MODULE MCSockets -----------------------------
(* Instances of LocalSockets for TLC. *)
EXTENDS LocalSockets

CONSTANTS f1, f2, f3, t1, s1

MCKind(c) == IF c \in {f1, f2, f3} THEN "forward" ELSE IF c = t1 THEN "target" ELSE "socks"

Budgets == Ending \cup {"forward", "target", "socks", "write", "pause", "resume", "start", "watch",
            "unwatch", "byte", "eager", "talk", "fin", "rst", "throw", "refuse", "flaky",
            "stop", "raise"} 
Just(f) == [e \in Budgets |-> IF e \in DOMAIN f THEN f[e] ELSE 0]

\* Bytes in both directions, and every way to end.
StreamScenarios ==
  {Just([forward |-> 1, start |-> 1, byte |-> 1, fin |-> 1, write |-> 2, shut |-> 1, close |-> 1]),
   Just([forward |-> 1, start |-> 1, byte |-> 1, rst |-> 1, write |-> 2, close |-> 1]),
   Just([forward |-> 1, start |-> 1, byte |-> 2, throw |-> 1, write |-> 2, abort |-> 1]),
   Just([forward |-> 1, start |-> 1, byte |-> 3, fin |-> 1, pause |-> 2, resume |-> 2]),
   Just([forward |-> 1, write |-> 2, force |-> 1, close |-> 1, shut |-> 1])}

\* A target that answers, finishes or resets before its tunnel is published.
TargetScenarios ==
  {Just([target |-> 1, watch |-> 1, start |-> 1, byte |-> 3, fin |-> 1, close |-> 1]),
   Just([target |-> 1, watch |-> 1, unwatch |-> 1, start |-> 1, byte |-> 2, rst |-> 1]),
   Just([target |-> 1, watch |-> 1, start |-> 1, byte |-> 1, write |-> 1, abort |-> 1])}

\* More connections than the limit.
ListenerScenarios ==
  {Just([forward |-> 3, close |-> 2, flaky |-> 1, stop |-> 1]),
   Just([forward |-> 3, close |-> 1, raise |-> 1, abort |-> 1])}

SocksScenarios ==
  {Just([socks |-> 1, talk |-> 2, byte |-> 1, fin |-> 1]),
   Just([socks |-> 1, talk |-> 2, byte |-> 1, write |-> 1, close |-> 1]),
   Just([socks |-> 1, talk |-> 2, refuse |-> 1, rst |-> 1])}

SocketScenarios == StreamScenarios \cup TargetScenarios \cup ListenerScenarios \cup SocksScenarios
EagerScenarios == {Just([socks |-> 1, talk |-> 2, eager |-> 2])}
============================================================================
