---------------------------- MODULE TunnelClient ----------------------------
(* The client: its servers, its connections, and the strand they share. *)
EXTENDS ClientConnections

vars == <<routeVars, lane, up, allow, connVars>>

Init == FailoverInit /\ ConnectionsInit

Free == Io /\ lane /= <<>> /\ todo = <<>> /\ ~swap
Running(k) == Free /\ Head(lane).k = k
Took(ts) == lane' = Tail(lane) \o ts

\* A connection event: the active server's coming back resumes and releases;
\* its going away mutes the keepalive, and ends the pipe.
RunConnection ==
  /\ Running("conn")
  /\ LET i == Head(lane).i
         on == Head(lane).g = 1
     IN  /\ on_friend_connection(i, on)
         /\ Took(IF i = active /\ on THEN <<Task("resume"), Task("release")>> ELSE <<>>)
         /\ pipe' = IF i = active /\ ~on /\ pipe.bridge /= "none" THEN [pipe EXCEPT !.ask = TRUE]
                    ELSE pipe
  /\ UNCHANGED <<up, cn, todo, held, token, stp>>

RunVerdict ==
  /\ Running("verdict") /\ Took(<<>>)
  /\ IF verdict_stands(Head(lane).i)
     THEN apply_keepalive_dead_verdict(Head(lane).i) /\ close_all("Abandon")
     ELSE UNCHANGED <<routeVars, cn>>
  /\ UNCHANGED <<up, todo, held, token, pipe, stp>>

RunFailover ==
  /\ Running("failover") /\ apply_failover_on_strand
  /\ UNCHANGED <<up, connVars>>

\* switch_active_endpoint(), after the lock: the old server's tunnels are
\* abandoned, the keepalive starts over, held connections may go.
SwitchCloses ==
  /\ Io /\ swap /\ swap' = FALSE
  /\ close_all("Abandon") /\ ka' = enable_keepalive
  /\ Posted(<<Task("release")>>)
  /\ UNCHANGED <<ep, active, so, gen, route, handler, up, todo, held, token, pipe, stp>>

RunOther ==
  /\ \/ Running("repin") /\ Repin(Head(lane).i) /\ UNCHANGED connVars
     \/ Running("alive") /\ note_standby_alive(Head(lane).i) /\ UNCHANGED connVars
     \/ Running("resume") /\ send_resume_requests /\ UNCHANGED routeVars
     \/ Running("accept") /\ Accept(Head(lane).c) /\ UNCHANGED <<routeVars, token, pipe, stp>>
     \/ Running("release") /\ Release /\ UNCHANGED <<routeVars, token, pipe, stp>>
  /\ Took(<<>>) /\ UNCHANGED up

RunLate(k) ==
  /\ Running("late") /\ Expire(k) /\ Took(<<>>)
  /\ UNCHANGED <<routeVars, up, token, pipe, stp>>

\* The gate of the routing path.
Gate(i) == i = route

\* route_frame() of a tunnel's frame, or a resume ACK.
RouteFrame(t) ==
  LET r == cn[t.c]
  IN  IF t.k \in {"RESUMED", "DECLINED"} THEN handle_resume_ack(t.c, t.g, t.k = "RESUMED")
      ELSE IF ~Gate(t.i) \/ ~r.reg THEN UNCHANGED <<cn, token>>
      ELSE /\ UNCHANGED token
           /\ Set(t.c, CASE t.k = "ACK" /\ r.tun = "Connecting" ->
                              [r EXCEPT !.tun = "Connected", !.cbs = @ \cup {"Connected"}]
                         [] t.k = "ERROR" -> Ends(r, "Error")
                         [] t.k = "CLOSE" /\ r.tun = "Disconnecting" -> Ends(r, "Closed")
                         [] t.k = "CLOSE" /\ r.tun = "Connected" -> [r EXCEPT !.pc = TRUE]
                         [] OTHER -> r)

Packets == {"ACK", "ERROR", "CLOSE", "RESUMED", "DECLINED"}
RunPacket ==
  /\ Free /\ Head(lane).k \in Packets
  /\ IF Gate(Head(lane).i) THEN note_peer_activity ELSE UNCHANGED routeVars
  /\ Took(IF Gate(Head(lane).i) /\ restores THEN <<Task("release")>> ELSE <<>>)
  /\ RouteFrame(Head(lane))
  /\ UNCHANGED <<up, todo, held, pipe, stp>>

----------------------------------------------------------------------------
\* The server of c sends a frame about it; the Tox thread takes it for the
\* active server's, with the session it belongs to, or drops it.
ServerSends(k, c) ==
  LET i == cn[c].srv
  IN  /\ up[i] /\ Io
      /\ CASE k = "ACK" -> cn[c].at = "open" /\ ~cn[c].known /\ ~cn[c].resolved
           [] k = "RESUMED" -> token[c] /= 0 /\ cn[c].known
           [] k = "DECLINED" -> token[c] /= 0 /\ ~cn[c].known
           [] OTHER -> cn[c].known
      /\ cn' = [cn EXCEPT ![c].known = k \notin {"ERROR", "DECLINED"}]
      /\ IF i = active THEN Posted(<<[k |-> k, i |-> i, c |-> c, g |-> gen]>>) ELSE UNCHANGED lane
      /\ UNCHANGED <<routeVars, up, todo, held, token, pipe, stp>>

\* The server lets go of its tunnels while the link is down.
ServerForgets(c) ==
  /\ ~up[cn[c].srv] /\ cn[c].known
  /\ cn' = [cn EXCEPT ![c].known = FALSE]
  /\ UNCHANGED <<routeVars, lane, up, todo, held, token, pipe, stp>>

\* wait_until_stopped() on the main thread.
MainStops == pipe.ask /\ StopStarts

Strand == RunConnection \/ RunVerdict \/ RunFailover \/ SwitchCloses \/ RunOther \/ RunPacket
          \/ \E k \in 0 .. Len(held.q) : RunLate(k)

Threads ==
  \/ \E c \in Conns : \/ OpenReads(c) \/ SocksReads(c) \/ PipeReads(c)
                      \/ OpenRegisters(c, TRUE) \/ OpenSends(c)
                      \/ ConnectedCallback(c) \/ PipeConnected(c) \/ EndCallback(c) \/ CloseCallback(c)
  \/ PeerDeadCallback /\ Io /\ UNCHANGED connVars
  \/ close_held_connections \/ StopClosesTunnels \/ StopIo \/ MainStops

Timers ==
  \/ HeldTimerFires
  \/ run_failover_tick /\ Io /\ UNCHANGED connVars
  \/ \E c \in Conns : OpenTimesOut(c) \/ on_resume_deadline(c)

Outside ==
  \/ StopStarts /\ Spend("stop")
  \/ \E c \in Conns :
       \/ Arrives(c) /\ Spend(KindOf(c))
       \/ OpenRegisters(c, FALSE) /\ Spend("cap")
       \/ \E b \in BOOLEAN : end_tunnel_for_local_disconnect(c, b) /\ Spend("end")
       \/ \E k \in Packets : ServerSends(k, c) /\ Spend(k)
       \/ ServerForgets(c) /\ Spend("forget")
  \/ /\ Io
     /\ \/ PeerSilent /\ Spend("silent")
        \/ \E i \in Servers : \/ LinkChanges(i) /\ Spend(IF i = 0 THEN "primary" ELSE "backup")
                              \/ StandbyPong(i) /\ Spend("pong")
                              \/ Silence(i) /\ Spend("standby")
     /\ UNCHANGED connVars

Clock == Io /\ (\E i \in Servers : Ages(i)) /\ UNCHANGED connVars

Next == ((Strand \/ Threads \/ Timers \/ Clock) /\ UNCHANGED allow) \/ Outside

Spec == Init /\ [][Next]_vars

\* The strand, the threads and the timers run; time passes.
FairSpec ==
  /\ Spec
  /\ WF_vars(Strand /\ UNCHANGED allow) /\ WF_vars(Threads /\ UNCHANGED allow)
  /\ WF_vars(HeldTimerFires /\ UNCHANGED allow)
  /\ WF_vars(run_failover_tick /\ Io /\ UNCHANGED <<connVars, allow>>)
  /\ \A i \in Servers : WF_vars(Io /\ Ages(i) /\ UNCHANGED <<connVars, allow>>)
  /\ \A c \in Conns : WF_vars((OpenTimesOut(c) \/ on_resume_deadline(c)) /\ UNCHANGED allow)
  /\ SF_vars(\E k \in 1 .. Len(held.q) : RunLate(k) /\ UNCHANGED allow)

----------------------------------------------------------------------------
\* A frame is routed only while the manager answers to the server it came from
\* (RunPacket's gate), and one that the gate refuses comes from a server that
\* was switched away from: no frame of the current session is dropped.
GateConsistent ==
  [][\A c \in Conns : lane /= <<>> /\ Head(lane).c = c /\ Head(lane).k \in {"ACK", "ERROR", "CLOSE"}
       /\ lane' = Tail(lane)
       => IF Gate(Head(lane).i) THEN handler = Head(lane).i ELSE Head(lane).i /= active]_vars

\* A dead verdict takes down only a server that is silent still, by a clock
\* that was started for it: never the successor of the server it judged, nor one
\* that has answered meanwhile.
VerdictHitsJudged ==
  [][lane /= <<>> /\ Head(lane).k = "verdict" /\ so /\ ~so'
       => Head(lane).i = active /\ ka.dead /\ ka.of = active]_vars

\* No accepted connection waits for a release that has already run.
HeldHaveRelease ==
  held.q /= <<>> /\ so => Task("release") \in ToSet(lane) \/ swap \/ Stopping

\* Whatever order the callbacks of a tunnel run in, its OPEN is booked once, the
\* SOCKS client answered once, and nothing is counted or open after its end.
BooksBalance ==
  \A c \in Conns :
    /\ cn[c].n <= 1
    /\ cn[c].tun \in Terminal /\ cn[c].cbs = {} /\ KindOf(c) /= "pipe"
       => cn[c].n = 1 /\ ~cn[c].gauge /\ cn[c].sock = "shut"
          /\ (KindOf(c) = "socks" => cn[c].reply = 1)

\* When stop() returns there is no tunnel, no held connection and no bridge
\* left, whatever was being accepted or opened meanwhile.
NothingSurvivesStop ==
  stp = "done" =>
    /\ held.q = <<>> /\ pipe.bridge /= "running"
    /\ \A c \in Conns : ~cn[c].reg /\ cn[c].tun \notin {"Connecting", "Connected"}

\* Every connection is accounted for while it waits, when it ends, and when the
\* client stops.
Accounts == HeldHaveRelease /\ BooksBalance /\ NothingSurvivesStop

\* Route, manager and verdicts speak of the same server across a switch.
RoutesAgree == GateConsistent /\ VerdictHitsJudged

\* An accepted connection is opened or closed.
AcceptedResolved ==
  \A c \in Conns : cn[c].at = "lane" ~> cn[c].at \in {"open", "shut"} \/ ~Io

\* While the active server stays offline and another is usable, the client
\* switches.
FailsOver ==
  \A i \in Servers :
    (active = i /\ ~ep[i].online /\ Usable(ep) /= {})
      ~> (active /= i \/ ep[i].online \/ Usable(ep) = {} \/ ~Io)

\* A tunnel the server has let go of does not stay open at the client while the
\* two are connected.
Zombie(c) == LET r == cn[c] IN r.tun = "Connected" /\ r.reg /\ ~r.known /\ r.srv = active /\ up[r.srv]
NoZombie == \A c \in Conns : Zombie(c) ~> ~Zombie(c) \/ ~Io
============================================================================
