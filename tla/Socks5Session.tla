--------------------------- MODULE Socks5Session ---------------------------
(***************************************************************************)
(* A SOCKS5 or HTTP CONNECT session until its tunnel takes over            *)
(* (src/src/app/socks5_listener.cpp; the tunnel's side is                  *)
(* TunnelClient::open_socks5_tunnel).  A message is one token, below 0;    *)
(* payload bytes are above.                                                *)
(***************************************************************************)
EXTENDS TcpListener

Greet == -1        \* a SOCKS5 greeting
GreetNoAuth == -2  \* one that does not offer the no-auth method
Connect == -3      \* a SOCKS5 CONNECT request
HttpConnect == -4
Messages == {Greet, GreetNoAuth, Connect, HttpConnect}

\* conn: session->conn is set; buf, pay: the buffer and initial_payload; tun: the
\* tunnel's state, "ready" once its Connected callback has run.
NoSession == [conn |-> TRUE, proto |-> "", phase |-> "greeting", buf |-> <<>>, pay |-> <<>>, tun |-> "none"]

\* p: the connection s and the session x.
Replies(p) == IF p.x.conn THEN [p EXCEPT !.s = Write(@)] ELSE p
Closes(p) == IF p.x.conn THEN [p EXCEPT !.s = Post(@, T("close"))] ELSE p
RejectAndClose(p) == Closes(Replies(p))

\* handoff_to_tunnel(): what is behind the request goes with it.  Without a
\* connection it dereferences a null pointer.
handoff_to_tunnel(p) ==
  IF ~p.x.conn THEN [p EXCEPT !.x.phase = "crashed"]
  ELSE [p EXCEPT !.x = [@ EXCEPT !.phase = "stream", !.pay = Tail(p.x.buf), !.buf = <<>>,
                                 !.tun = "Connecting"]]

\* The first byte decides the protocol.
Sniff(p) == IF p.x.proto /= "" THEN p
            ELSE [p EXCEPT !.x.proto = IF Head(p.x.buf) = HttpConnect THEN "http" ELSE "socks"]

Greeting(p) ==
  IF p.x.phase /= "greeting" \/ p.x.buf = <<>> THEN p
  ELSE LET next == [p EXCEPT !.x.buf = Tail(@)]
           m == Head(p.x.buf)
       IN  CASE p.x.proto = "socks" /\ m = Greet -> Replies([next EXCEPT !.x.phase = "request"])
             [] p.x.proto = "socks" /\ m = GreetNoAuth -> RejectAndClose(next)
             [] p.x.proto = "http" /\ m = HttpConnect -> handoff_to_tunnel(p)
             [] OTHER -> RejectAndClose(p)

Request(p) ==
  IF p.x.phase /= "request" \/ p.x.buf = <<>> THEN p
  ELSE IF Head(p.x.buf) = Connect THEN handoff_to_tunnel(p) ELSE RejectAndClose(p)

try_advance(p) == Request(Greeting(Sniff(p)))

\* on_data: the session's, then the tunnel's, which takes nothing before it is
\* connected.
SessionData(p, b) ==
  IF p.x.phase /= "stream" THEN try_advance([p EXCEPT !.x.buf = @ \o b])
  ELSE IF p.x.tun \in {"Connected", "ready"} THEN [p EXCEPT !.s.fed = @ \o b] ELSE p

\* The Connected callback: the reply, then what came with the request, then reads.
TunnelReady(p) ==
  LET r == Replies(p)
  IN  [s |-> Post([r.s EXCEPT !.fed = @ \o p.x.pay], T("start")),
       x |-> [r.x EXCEPT !.tun = "ready", !.pay = <<>>]]

\* The open fails: the reply says so, and both close the connection.
TunnelRefused(p) == Closes(Closes(Replies([p EXCEPT !.x.tun = "gone"])))

\* on_read_eof and on_disconnect of a session that still has its connection.
Dropped(x) == IF x.phase /= "stream" THEN [x EXCEPT !.conn = FALSE] ELSE x
============================================================================
