------------------------- MODULE ClientConnections -------------------------
(***************************************************************************)
(* The client's local connections: accepted, held while no server is       *)
(* online, opened as tunnels, resumed after a reconnect, booked once, and  *)
(* swept away by stop() (src/src/app/tunnel_client.cpp).                   *)
(*                                                                         *)
(* A "forward" connection is opened on the strand, a "socks" one on its    *)
(* own, the "pipe" on an io thread.  A tunnel is what Tunnel.tla promises; *)
(* its state callbacks run on the thread that changed the state, so two of *)
(* them may run in either order.                                           *)
(***************************************************************************)
EXTENDS ClientFailover

CONSTANTS Conns,     \* local connections, in the order they arrive
          KindOf(_), \* "forward", "socks" or "pipe"
          MaxHeld    \* kMaxHeldConnections

\* There is one stdio pipe to carry.
ASSUME ConnAssumption == /\ NoConn \notin Conns /\ MaxHeld \in Nat
                         /\ \A c, d \in Conns : KindOf(c) = "pipe" /\ KindOf(d) = "pipe" => c = d

VARIABLES cn,      \* per connection: socket, tunnel, callbacks to run, the books
          todo,    \* connections the strand's current task has yet to open
          held,    \* held_, with held_timer_armed_ and held_closed_
          token,   \* resume_tokens_: the generation asked in, 0 for none
          pipe,    \* pipe_bridge_ and stop_requested_
          stp      \* where stop() is

connVars == <<cn, todo, held, token, pipe, stp>>

Terminal == {"Closed", "Error"}
Fresh == [at |-> "new", srv |-> 0, tun |-> "None", pc |-> FALSE, reg |-> FALSE, known |-> FALSE,
          cbs |-> {}, resolved |-> FALSE, gauge |-> FALSE, n |-> 0, reply |-> 0, sock |-> "open"]

ConnectionsInit ==
  /\ cn = [c \in Conns |-> Fresh]
  /\ todo = <<>>
  /\ held = [q |-> <<>>, armed |-> FALSE, shut |-> FALSE]
  /\ token = [c \in Conns |-> 0]
  /\ pipe = [bridge |-> "none", ask |-> FALSE]
  /\ stp = "no"

Io == stp /= "done"           \* the io threads run
Stopping == stp /= "no"       \* stop_started_
Set(c, r) == cn' = [cn EXCEPT ![c] = r]

----------------------------------------------------------------------------
(* Tunnels. *)

Ends(r, t) == IF r.tun \in Terminal THEN r
              ELSE [r EXCEPT !.tun = t, !.cbs = @ \cup {"End"}]

\* TunnelImpl::close(): graceful once established.
Close(r) == IF r.tun = "Connected" THEN [r EXCEPT !.tun = "Disconnecting", !.cbs = @ \cup {"Close"}]
            ELSE IF r.tun = "Disconnecting" THEN r ELSE Ends(r, "Closed")

\* close_all(): out of the map, then gracefully or as abandoned.
LetGo(r, mode) ==
  IF ~r.reg THEN r
  ELSE LET out == [r EXCEPT !.reg = FALSE]
       IN  IF mode = "Abandon" /\ r.tun \in {"Connected", "Disconnecting"} THEN Ends(out, "Error")
           ELSE Close(out)
close_all(mode) == cn' = [c \in Conns |-> LetGo(cn[c], mode)]

\* ClientOpenBook: the outcome, and the active gauge until the end.
book_connected(r) ==
  IF r.resolved THEN r ELSE [r EXCEPT !.resolved = TRUE, !.gauge = TRUE, !.n = @ + 1]
book_terminal(r) ==
  [r EXCEPT !.resolved = TRUE, !.n = IF r.resolved THEN @ ELSE @ + 1, !.gauge = FALSE]

\* The SOCKS client gets one reply.
Replied(c, r) == IF KindOf(c) = "socks" /\ r.reply = 0 THEN [r EXCEPT !.reply = 1] ELSE r

\* The Connected callback: book, answer, read.
ConnectedCallback(c) ==
  /\ Io /\ "Connected" \in cn[c].cbs /\ KindOf(c) /= "pipe"
  /\ Set(c, Replied(c, book_connected([cn[c] EXCEPT !.cbs = @ \ {"Connected"}])))
  /\ UNCHANGED <<routeVars, lane, up, todo, held, token, pipe, stp>>

\* The pipe's: start the bridge; one that is stopped already refuses.
PipeConnected(c) ==
  /\ Io /\ "Connected" \in cn[c].cbs /\ KindOf(c) = "pipe"
  /\ LET r == [cn[c] EXCEPT !.cbs = @ \ {"Connected"}]
     IN  Set(c, IF pipe.bridge = "stopped" THEN Close(r) ELSE r)
  /\ pipe' = IF pipe.bridge = "made" THEN [pipe EXCEPT !.bridge = "running"] ELSE pipe
  /\ UNCHANGED <<routeVars, lane, up, todo, held, token, stp>>

StopsBridge == [bridge |-> IF pipe.bridge = "none" THEN "none" ELSE "stopped", ask |-> TRUE]

\* The terminal callback and on_close: book, answer, close the socket, leave
\* the manager.  The pipe's stops the bridge and asks main to stop the client.
EndCallback(c) ==
  /\ Io /\ "End" \in cn[c].cbs
  /\ LET r == [cn[c] EXCEPT !.cbs = @ \ {"End", "Close"}, !.sock = "shut", !.reg = FALSE]
     IN  IF KindOf(c) = "pipe" THEN Set(c, r) /\ pipe' = StopsBridge
         ELSE Set(c, Replied(c, book_terminal(r))) /\ UNCHANGED pipe
  /\ UNCHANGED <<routeVars, lane, up, todo, held, token, stp>>

\* on_close of a tunnel that is closing gracefully.
CloseCallback(c) ==
  /\ Io /\ "Close" \in cn[c].cbs
  /\ Set(c, [cn[c] EXCEPT !.cbs = @ \ {"Close"}, !.reg = FALSE])
  /\ pipe' = IF KindOf(c) = "pipe" THEN StopsBridge ELSE pipe
  /\ UNCHANGED <<routeVars, lane, up, todo, held, token, stp>>

----------------------------------------------------------------------------
(* Opening. *)

Shut(c, r) == Replied(c, [r EXCEPT !.at = "shut", !.sock = "shut"])

\* open_tunnel_for_connection(), open_socks5_tunnel() and start_pipe_mode():
\* read the active server, register, send the OPEN.
Turn(c) == IF KindOf(c) = "forward" THEN todo /= <<>> /\ Head(todo) = c ELSE TRUE
Done(c) == todo' = IF KindOf(c) = "forward" THEN Tail(todo) ELSE todo

OpenReads(c) ==
  /\ Io /\ cn[c].at = "todo" /\ Turn(c) /\ ~swap /\ KindOf(c) = "forward"
  /\ Set(c, [cn[c] EXCEPT !.at = "read", !.srv = active])
  /\ UNCHANGED <<routeVars, lane, up, todo, held, token, pipe, stp>>

\* A SOCKS client is refused at once while no server is online.
SocksReads(c) ==
  /\ Io /\ cn[c].at = "todo" /\ ~swap /\ KindOf(c) = "socks"
  /\ Set(c, IF so THEN [cn[c] EXCEPT !.at = "read", !.srv = active] ELSE Shut(c, cn[c]))
  /\ UNCHANGED <<routeVars, lane, up, todo, held, token, pipe, stp>>

PipeReads(c) ==
  /\ Io /\ cn[c].at = "todo" /\ ~swap /\ KindOf(c) = "pipe"
  /\ Set(c, IF so THEN [cn[c] EXCEPT !.at = "read", !.srv = active] ELSE Shut(c, cn[c]))
  /\ pipe' = IF so THEN [pipe EXCEPT !.bridge = "made"] ELSE pipe
  /\ UNCHANGED <<routeVars, lane, up, todo, held, token, stp>>

OpenRegisters(c, room) ==
  /\ Io /\ cn[c].at = "read"
  /\ IF room THEN Set(c, [cn[c] EXCEPT !.at = "added", !.reg = TRUE]) /\ UNCHANGED <<todo, pipe>>
     ELSE /\ Set(c, Shut(c, cn[c])) /\ Done(c)
          /\ pipe' = IF KindOf(c) = "pipe" THEN [bridge |-> "none", ask |-> TRUE] ELSE pipe
  /\ UNCHANGED <<routeVars, lane, up, held, token, stp>>

\* Mutant: an open that stop() has overtaken goes on.
abandon_never(c) == FALSE

\* abandon_tunnel_if_stopping(), or an open() the tunnel refuses.
abandon_tunnel_if_stopping(c) == Stopping

OpenSends(c) ==
  /\ Io /\ cn[c].at = "added"
  /\ IF abandon_tunnel_if_stopping(c) \/ cn[c].tun /= "None"
     THEN Set(c, Shut(c, LetGo(cn[c], "Graceful")))
     ELSE Set(c, [cn[c] EXCEPT !.at = "open", !.tun = "Connecting"])
  /\ Done(c)
  /\ UNCHANGED <<routeVars, lane, up, held, token, pipe, stp>>

\* The open timeout of a tunnel nobody answers.
OpenTimesOut(c) ==
  /\ Io /\ cn[c].tun = "Connecting"
  /\ Set(c, Ends(cn[c], "Error"))
  /\ UNCHANGED <<routeVars, lane, up, todo, held, token, pipe, stp>>

\* The local socket ends, or the pipe's input does.
end_tunnel_for_local_disconnect(c, abnormal) ==
  /\ Io /\ cn[c].at = "open" /\ cn[c].sock = "open" /\ cn[c].tun \notin Terminal
  /\ LET r == [cn[c] EXCEPT !.sock = "shut"]
     IN  Set(c, IF abnormal /\ r.tun \in {"Connected", "Disconnecting"} THEN Ends(r, "Error")
                ELSE IF r.pc THEN Ends(r, "Closed") ELSE Close(r))
  /\ UNCHANGED <<routeVars, lane, up, todo, held, token, pipe, stp>>

----------------------------------------------------------------------------
(* Accepting and holding. *)

\* A connection is accepted, a SOCKS request parsed, the pipe wanted.
Arrives(c) ==
  /\ Io /\ ~Stopping /\ cn[c].at = "new"
  /\ c = CHOOSE x \in Conns : KindOf(x) = KindOf(c) /\ cn[x].at = "new"
  /\ KindOf(c) = "pipe" => so
  /\ IF KindOf(c) = "forward"
     THEN Set(c, [cn[c] EXCEPT !.at = "lane"]) /\ Posted(<<[Task("accept") EXCEPT !.c = c]>>)
     ELSE Set(c, [cn[c] EXCEPT !.at = "todo"]) /\ UNCHANGED lane
  /\ UNCHANGED <<routeVars, up, todo, held, token, pipe, stp>>

\* accept_forward_connection().
Accept(c) ==
  IF Stopping THEN Set(c, Shut(c, cn[c])) /\ UNCHANGED <<todo, held>>
  ELSE IF so THEN Set(c, [cn[c] EXCEPT !.at = "todo"]) /\ todo' = <<c>> /\ UNCHANGED held
  ELSE IF held.shut \/ Len(held.q) >= MaxHeld
  THEN Set(c, Shut(c, cn[c])) /\ UNCHANGED <<todo, held>>
  ELSE /\ Set(c, [cn[c] EXCEPT !.at = "held"])
       /\ held' = [held EXCEPT !.q = Append(@, c), !.armed = TRUE]
       /\ UNCHANGED todo

\* release_held_connections().
Release ==
  IF ~so \/ Stopping THEN UNCHANGED <<cn, todo, held>>
  ELSE /\ cn' = [c \in Conns |-> IF c \in ToSet(held.q) THEN [cn[c] EXCEPT !.at = "todo"] ELSE cn[c]]
       /\ todo' = held.q /\ held' = [held EXCEPT !.q = <<>>]

\* Mutant: the timer is not armed again for the connections still held.
ExpireOnce(k) ==
  /\ k <= Len(held.q)
  /\ cn' = [c \in Conns |-> IF c \in ToSet(SubSeq(held.q, 1, k)) THEN Shut(c, cn[c]) ELSE cn[c]]
  /\ held' = [held EXCEPT !.q = SubSeq(@, k + 1, Len(@)), !.armed = FALSE]
  /\ UNCHANGED todo

\* The held timer's handler with expire_held_connections(): the first k are late.
Expire(k) ==
  /\ k <= Len(held.q)
  /\ cn' = [c \in Conns |-> IF c \in ToSet(SubSeq(held.q, 1, k)) THEN Shut(c, cn[c]) ELSE cn[c]]
  /\ held' = [held EXCEPT !.q = SubSeq(@, k + 1, Len(@)), !.armed = k < Len(held.q)]
  /\ UNCHANGED todo
HeldTimerFires ==
  /\ Io /\ held.armed /\ Task("late") \notin ToSet(lane)
  /\ Posted(<<Task("late")>>)
  /\ UNCHANGED <<routeVars, up, connVars>>

----------------------------------------------------------------------------
(* Resuming. *)

\* send_resume_requests(): one token per established tunnel.
send_resume_requests ==
  /\ token' = [c \in Conns |-> IF cn[c].reg /\ cn[c].tun = "Connected" THEN gen ELSE 0]
  /\ UNCHANGED <<cn, todo, held, pipe, stp>>

\* handle_resume_ack(): one ACK per request, of this session, or it is dropped.
handle_resume_ack(c, g, ok) ==
  IF g /= gen \/ ~cn[c].reg \/ token[c] = 0 THEN UNCHANGED <<cn, token>>
  ELSE /\ token' = [token EXCEPT ![c] = 0]
       /\ IF ok \/ token[c] /= g THEN UNCHANGED cn ELSE Set(c, Ends(cn[c], "Error"))

\* Mutant: the deadline forgets the request and leaves the tunnel be.
on_resume_deadline_lenient(c) ==
  /\ Io /\ token[c] /= 0
  /\ token' = [token EXCEPT ![c] = 0]
  /\ UNCHANGED <<routeVars, lane, up, cn, todo, held, pipe, stp>>

\* on_resume_deadline(): nobody answered; a request of an old session is dropped.
on_resume_deadline(c) ==
  /\ Io /\ token[c] /= 0
  /\ token' = [token EXCEPT ![c] = 0]
  /\ IF token[c] = gen THEN Set(c, Close(cn[c])) ELSE UNCHANGED cn
  /\ UNCHANGED <<routeVars, lane, up, todo, held, pipe, stp>>

----------------------------------------------------------------------------
(* stop(). *)

StopStarts ==
  /\ stp = "no"
  /\ stp' = "started" /\ token' = [c \in Conns |-> 0]
  /\ UNCHANGED <<routeVars, lane, up, cn, todo, held, pipe>>
close_held_connections ==
  /\ stp = "started" /\ stp' = "held"
  /\ cn' = [c \in Conns |-> IF c \in ToSet(held.q) THEN Shut(c, cn[c]) ELSE cn[c]]
  /\ held' = [q |-> <<>>, armed |-> FALSE, shut |-> TRUE]
  /\ pipe' = [pipe EXCEPT !.bridge = IF @ = "none" THEN @ ELSE "stopped"]
  /\ UNCHANGED <<routeVars, lane, up, todo, token>>
StopClosesTunnels ==
  /\ stp = "held" /\ stp' = "closed" /\ close_all("Graceful")
  /\ UNCHANGED <<routeVars, lane, up, todo, held, token, pipe>>
\* io_ctx_->stop() lets the handlers that run finish, and none starts after it.
StopIo ==
  /\ stp = "closed" /\ stp' = "done"
  /\ todo = <<>> /\ ~swap
  /\ \A c \in Conns : cn[c].cbs = {} /\ cn[c].at \notin {"read", "added"}
  /\ UNCHANGED <<routeVars, lane, up, cn, todo, held, token, pipe>>
============================================================================
