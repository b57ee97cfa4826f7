------------------------------ MODULE MCTunnel ------------------------------
(* Instances of Tunnel for TLC. *)
EXTENDS TunnelInvariant

\* A scenario: these events may happen once, and so many transport faults.
Once(events, full, fail) ==
  [x \in Ops \cup Faults |->
     IF x = "full" THEN full ELSE IF x = "fail" THEN fail ELSE IF x \in events THEN 1 ELSE 0]

With(scenario, event, times) == [scenario EXCEPT ![event] = times]

----------------------------------------------------------------------------
(* Client: the handshake against everything that may end it. *)

HandshakeScenarios ==
  {Once({"open", "rxAck", e}, 1, 0) :
     e \in {"hangup", "reset", "eof", "tcpData", "rxClose", "remove", "closeAll"}}
    \cup {Once({"open", "rxAck", "reap"}, 0, 0)}

\* Permanent transport failures too, of the first OPEN and of a retry.
OpenScenarios ==
  HandshakeScenarios \cup {Once({"open", e}, 1, 1) : e \in {"hangup", "remove", "rxError", "abandonAll"}}
    \cup {Once({"open", "rxAck", "closeAllLocal"}, 1, 1)}

----------------------------------------------------------------------------
(* Server: every pair of events, with one SENDQ-full verdict (none with the    *)
(* reaper, which closes and removes in one pass).                              *)

ServerEvents == {"tcpData", "eof", "rxClose", "rxError", "rxData", "hangup", "reset", "reap",
                 "remove", "closeAll", "abandonAll", "closeAllLocal", "failLocally"}
PairScenarios ==
  {Once({x, y}, 1, 0) : x, y \in ServerEvents \ {"reap"}}
    \cup {Once({x, "reap"}, 0, 0) : x \in ServerEvents}

\* The two ends of the stream and what one strand sends: several reads under
\* every coalescing policy, a backpressured frame, and each way to finish.
StreamScenarios ==
  PairScenarios \cup {With(Once({"tcpData", "eof"}, 1, 0), "tcpData", 3)}
    \cup {With(Once({"tcpData", "hangup"}, 1, 0), "tcpData", 2),
          With(Once({"tcpData", "reset"}, 1, 0), "tcpData", 2),
          Once({"tcpData", "eof", "rxClose"}, 0, 0)}
    \cup {With(Once({"tcpData", "rxError"}, 0, 1), "tcpData", 2)}

\* Obligations with a retry behind them.
ProgressScenarios ==
  {Once({e, "tcpData"}, 1, 0) : e \in {"reset", "hangup", "eof"}}
    \cup {Once({"abandonAll", e}, 1, 0) : e \in {"reset", "eof"}}
    \cup {Once({"hangup", "remove"}, 1, 0)}
============================================================================
