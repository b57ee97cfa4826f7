----------------------------- MODULE MCManager -----------------------------
(* Instances of TunnelManager for TLC. *)
EXTENDS TunnelManager

CONSTANTS a, b, c1, c2, c3, d1, d2, h1, h2

Kinds == [s \in Senders |-> CASE s = a -> "driver" [] s = b -> "typed" [] OTHER -> "control"]

Budgets == {"full", "fail", "clear", "abandon", "alloc", "incoming", "offer", "end", "frame",
            "closeAll", "enableReaper", "disableReaper", "enableKeepalive", "disableKeepalive",
            "time", "tick"}
\* Each event of the function f as often as f says, the others never.
Just(f) == [e \in Budgets |-> IF e \in DOMAIN f THEN f[e] ELSE 0]

\* Two control frames and the OPEN of a tunnel against SENDQ-full, a refusal
\* and each invalidation.
QueueScenarios ==
  {Just([frame |-> 3, full |-> 2]),
   Just([frame |-> 2, alloc |-> 1, offer |-> 1, full |-> 2]),
   Just([frame |-> 2, full |-> 1, fail |-> 1]),
   Just([frame |-> 2, full |-> 2, abandon |-> 1]),
   Just([frame |-> 2, full |-> 2, clear |-> 1]),
   Just([frame |-> 1, alloc |-> 1, offer |-> 1, full |-> 1, fail |-> 1, closeAll |-> 1])}

\* Tunnels that come, end, are reaped or swept away while others take their ids.
TableScenarios ==
  {Just([alloc |-> 2, end |-> 2]),
   Just([incoming |-> 2, end |-> 2]),
   Just([incoming |-> 2, end |-> 1, closeAll |-> 1]),
   Just([incoming |-> 2, closeAll |-> 1, abandon |-> 1]),
   Just([incoming |-> 2, offer |-> 1, end |-> 1, enableReaper |-> 1, tick |-> 1]),
   Just([incoming |-> 1, offer |-> 1, enableReaper |-> 2, disableReaper |-> 1, tick |-> 2])}

\* Retired generations, and a peer that is silent with and without tunnels.
TimerScenarios ==
  {Just([incoming |-> 1, end |-> 1, time |-> 3, enableKeepalive |-> 1, tick |-> 2]),
   Just([incoming |-> 1, time |-> 2, enableKeepalive |-> 1, frame |-> 1, tick |-> 2]),
   Just([time |-> 2, enableKeepalive |-> 2, disableKeepalive |-> 1, tick |-> 3])}

ManagerScenarios == QueueScenarios \cup TableScenarios \cup TimerScenarios
============================================================================
