---------------------------- MODULE TcpListener ----------------------------
(***************************************************************************)
(* The accept loop of a forward, with its limit and its in-flight guard    *)
(* (src/src/core/tcp_listener.cpp).  do_accept() runs on any io thread: it *)
(* reads the count, then takes the guard.                                  *)
(***************************************************************************)
EXTENDS TcpConnection

CONSTANTS MaxConnections

ASSUME LimitAssumption == MaxConnections \in Nat \ {0}

\* count, max: connection_count_, max_connections_; armed: accept_in_flight_;
\* posts: do_accept()s to run; seen: those past the count.
ListenerInit == [count |-> 0, max |-> MaxConnections, accepting |-> TRUE, armed |-> FALSE,
                 posts |-> 1, seen |-> 0]

Room(l) == l.accepting /\ l.count < l.max

\* do_accept(): the count, then the guard.
Looks(l) == [l EXCEPT !.posts = @ - 1, !.seen = IF Room(l) THEN @ + 1 ELSE @]
Claims(l) == [l EXCEPT !.seen = @ - 1, !.armed = TRUE]

\* The accept handler: count the connection, release the guard, go on.
Accepted(l) == [l EXCEPT !.count = @ + 1, !.armed = FALSE, !.posts = @ + 1]
AcceptFailed(l) == [l EXCEPT !.armed = FALSE, !.posts = @ + 1]

\* Mutant: a paused accept loop is not resumed.
on_connection_closed_only_counts(l) == [l EXCEPT !.count = IF @ > 0 THEN @ - 1 ELSE 0]

on_connection_closed(l) ==
  LET r == [l EXCEPT !.count = IF @ > 0 THEN @ - 1 ELSE 0]
  IN  IF Room(r) THEN [r EXCEPT !.posts = @ + 1] ELSE r

set_max_connections(l, n) ==
  LET r == [l EXCEPT !.max = n] IN IF Room(r) THEN [r EXCEPT !.posts = @ + 1] ELSE r

\* stop(): the acceptor is closed, its accept aborted.
StopListening(l) == [l EXCEPT !.accepting = FALSE, !.armed = FALSE]
============================================================================
