---------------------------- MODULE ServerOpen ----------------------------
(***************************************************************************)
(* What the server does with a TUNNEL_OPEN: resolve, connect, wire the     *)
(* target to the tunnel, send the OPEN_ACK and publish the tunnel behind   *)
(* it (handle_tunnel_open, wire_tcp_to_tunnel, OpenAckGate and the active  *)
(* gauge of src/src/app/tunnel_server.cpp).                                *)
(*                                                                         *)
(* The chain resolver - connect - wiring - first ACK attempt is one thread *)
(* at a time, and from the connect on it holds the connection's strand, so *)
(* the disconnect handler waits for it; a retried attempt runs on a timer  *)
(* and does not.  op[o].at is where that chain is.  The friend's frames,   *)
(* posted cleanups and the target's death are other threads.               *)
(* IdOf gives the tunnel id each OPEN names.                               *)
(***************************************************************************)
EXTENDS Naturals, Sequences, FiniteSets, SequencesExt, FiniteSetsExt

CONSTANTS Opens,     \* the TUNNEL_OPENs that may arrive
          Managers,  \* the TunnelManager objects of the friend
          NoOpen,
          IdOf(_),   \* the tunnel id an OPEN names
          Scenarios  \* how often each outside event may happen

ASSUME OpenAssumption == NoOpen \notin Opens /\ Managers \subseteq Nat \ {0}

VARIABLES op,     \* per OPEN: PendingOpen, tunnel, target socket, gate, gauge
          reg,    \* per manager: the tunnels registered, at most one per id
          man,    \* per manager: current (managers_), held (held_managers_) or gone
          wire,   \* frames the friend was sent, each with its OPEN
          up,     \* external: toxcore carries frames to the friend
          allow   \* what may still happen in the chosen scenario

openVars == <<op, reg, wire>>

Spend(e) == allow[e] > 0 /\ allow' = [allow EXCEPT ![e] = @ - 1]

Terminal == {"Closed", "Error"}
Established == {"Connected", "Disconnecting"}

\* phase, booked: PendingOpen.  tun, notify, hooked: the TunnelImpl's state,
\* its one close notification, and whether wiring installed its callbacks.
\* sock, shut: the TcpConnection and a close posted to its strand.  gate, gone,
\* timer, reason: OpenAckGate and TargetEnd.  posts: cleanups on the io_context.
Fresh == [phase |-> "None", booked |-> FALSE, m |-> 0, tun |-> "None", notify |-> "no",
          hooked |-> FALSE, sock |-> "Disconnected", shut |-> FALSE, eof |-> FALSE,
          peerClosed |-> FALSE, at |-> "idle", out |-> "Sent", byTimer |-> FALSE,
          gate |-> "none", gone |-> FALSE, timer |-> FALSE, abnormal |-> FALSE,
          gauge |-> "NotCounted", posts |-> {}, ok |-> 0, failed |-> 0, denied |-> 0,
          byPeer |-> FALSE]

OpenInit ==
  /\ op = [o \in Opens |-> Fresh]
  /\ reg = [g \in Managers |-> {}]
  /\ man = [g \in Managers |-> [st |-> "unused", dead |-> FALSE, hold |-> 0]]
  /\ wire = <<>>
  /\ up = FALSE
  /\ allow \in Scenarios

----------------------------------------------------------------------------
(* The objects of one OPEN; each operator returns the OPEN's new record. *)

\* TcpConnection::force_close() and its like: nothing to do once disconnected.
Shut(r) == [r EXCEPT !.shut = r.sock /= "Disconnected"]

\* claim_failure_booking(): the first to ask books the failed OPEN.
BookFailure(r) == IF r.booked THEN r ELSE [r EXCEPT !.booked = TRUE, !.failed = @ + 1]

active_gauge_release(r) == [r EXCEPT !.gauge = "Released"]
active_gauge_count(r) == [r EXCEPT !.gauge = IF @ = "NotCounted" THEN "Counted" ELSE @]

\* A transition to Closed or Error, with wire_active_gauge()'s state callback.
Terminate(r, t) ==
  IF r.tun \in Terminal THEN r
  ELSE LET ended == [r EXCEPT !.tun = t, !.notify = IF @ = "no" THEN "due" ELSE @]
           settled == IF r.hooked THEN active_gauge_release(ended) ELSE ended
       IN  IF t = "Error" /\ r.hooked THEN Shut(settled) ELSE settled

\* TunnelImpl::force_close(): also drops the attached socket.
ForceClose(r) == IF r.hooked THEN Shut(Terminate(r, "Closed")) ELSE Terminate(r, "Closed")

\* TunnelImpl::close() of a published tunnel; a no-op otherwise.
Close(r) == IF r.tun = "Connected"
            THEN [r EXCEPT !.tun = "Disconnecting", !.notify = IF @ = "no" THEN "due" ELSE @]
            ELSE r

\* TunnelManager's teardown of a tunnel it lets go of.
LetGo(r) == IF r.tun = "Connected" THEN Close(r) ELSE ForceClose(r)
Farewell(r) == IF r.tun = "Connected" THEN <<"CLOSE">> ELSE <<>>

Alive(o) == op[o].m \in Managers /\ man[op[o].m].st \in {"current", "held"}
Owns(o) == Alive(o) /\ o \in reg[op[o].m]

\* remove_tunnel_if(): only the tunnel named, never one that recycled the id.
RemoveIf(o, r) == IF Owns(o) THEN LetGo(r) ELSE r
Unregister(o) == reg' = IF Owns(o) THEN [reg EXCEPT ![op[o].m] = @ \ {o}] ELSE reg

\* Frames for the friend: none when the manager is gone or the link is down.
Frames(o, ks) == [i \in DOMAIN ks |-> [o |-> o, kind |-> ks[i]]]
Tells(o, ks) == wire' = IF Alive(o) /\ up THEN wire \o Frames(o, ks) ELSE wire

Set(o, r) == op' = [op EXCEPT ![o] = r]
At(o, place) == op[o].at = place
Go(o, r, place) == Set(o, [r EXCEPT !.at = place])

----------------------------------------------------------------------------
(* Before wiring. *)

\* PendingOpen::try_cancel() succeeds while the OPEN is not handed to wiring.
Cancellable(r) == r.phase \in {"Resolving", "Connecting"}

\* handle_tunnel_open() on the strand, for manager g.  The policy refuses it,
\* the id is in use, or the tunnel is registered and its target resolved.
AcceptOpen(o, g, verdict) ==
  IF verdict = "denied" \/ \E p \in reg[g] : IdOf(p) = IdOf(o)
  THEN /\ Set(o, [Fresh EXCEPT !.phase = "Resolved", !.m = g,
                               !.denied = IF verdict = "denied" THEN 1 ELSE 0])
       /\ wire' = IF up THEN wire \o Frames(o, <<"ERROR">>) ELSE wire
       /\ UNCHANGED reg
  ELSE /\ Set(o, [Fresh EXCEPT !.phase = "Resolving", !.m = g, !.at = "resolving"])
       /\ reg' = [reg EXCEPT ![g] = @ \cup {o}]
       /\ UNCHANGED wire

\* fail_prewire(): tell the peer, unless the pre-wire teardown was first.
fail_prewire(o, r) ==
  IF Cancellable(r)
  THEN /\ Go(o, BookFailure([RemoveIf(o, r) EXCEPT !.phase = "Resolved"]), "idle")
       /\ IF Owns(o) THEN Tells(o, <<"ERROR">>) ELSE UNCHANGED wire
       /\ Unregister(o)
  ELSE Go(o, r, "idle") /\ UNCHANGED <<reg, wire>>

\* The resolver answers; the connect starts under the phase lock.
ResolveEnds(o, good) ==
  /\ At(o, "resolving")
  /\ IF good /\ op[o].phase = "Resolving"
     THEN /\ Go(o, [op[o] EXCEPT !.phase = "Connecting", !.sock = "Connecting"], "connecting")
          /\ UNCHANGED <<reg, wire>>
     ELSE fail_prewire(o, op[o])

\* The connect completes, on the connection's strand.
ConnectEnds(o, good) ==
  /\ At(o, "connecting")
  /\ LET r == [op[o] EXCEPT !.sock = IF good /\ @ = "Connecting" THEN "Connected" ELSE "Disconnected"]
     IN  IF r.phase = "Connecting" /\ r.sock = "Connected"
         THEN Go(o, [r EXCEPT !.phase = "Handed"], "handed") /\ UNCHANGED <<reg, wire>>
         ELSE IF r.phase = "Resolved" THEN Go(o, Shut(r), "idle") /\ UNCHANGED <<reg, wire>>
         ELSE fail_prewire(o, r)

----------------------------------------------------------------------------
(* wire_tcp_to_tunnel(). *)

\* Refused when the manager is gone or has let go of this very tunnel.
WireStarts(o) ==
  /\ At(o, "handed")
  /\ IF Owns(o) THEN Go(o, op[o], "wiring") ELSE Go(o, BookFailure(Shut(op[o])), "idle")
  /\ UNCHANGED <<reg, wire>>

\* The connect's tunnel has been destroyed with its manager.
WireLapsed(o) ==
  /\ At(o, "handed") /\ ~Owns(o) /\ op[o].tun \in Terminal /\ op[o].notify = "done"
  /\ Go(o, Shut(op[o]), "idle") /\ UNCHANGED <<reg, wire>>

\* The socket and its handlers are attached and on_close replaced.
InstallHooks(o) ==
  /\ At(o, "wiring")
  /\ Go(o, [op[o] EXCEPT !.hooked = TRUE, !.gate = "Pending"], "recheck")
  /\ UNCHANGED <<reg, wire>>

\* A tunnel that ended before its hooks were in gets no OPEN_ACK.
Recheck(o) ==
  /\ At(o, "recheck")
  /\ IF op[o].tun \notin Terminal
     THEN Go(o, op[o], "attempt") /\ UNCHANGED <<reg, wire>>
     ELSE /\ LET r == [active_gauge_release(Shut(op[o])) EXCEPT !.gate = "Abandoned"]
             IN  Go(o, BookFailure(RemoveIf(o, r)), "idle")
          /\ Unregister(o) /\ UNCHANGED wire

----------------------------------------------------------------------------
(* OpenAckGate. *)

\* attempt() from start() or from the retry timer claims the send.
Attempt(o, timer) ==
  /\ IF timer THEN At(o, "idle") /\ op[o].timer ELSE At(o, "attempt")
  /\ LET r == [op[o] EXCEPT !.timer = FALSE, !.byTimer = timer]
     IN  IF r.gate = "Pending" THEN Go(o, [r EXCEPT !.gate = "Sending"], "sending")
         ELSE Go(o, r, "idle")
  /\ UNCHANGED <<reg, wire>>

\* send_frame_typed() outside every lock.
SendAck(o, out) ==
  /\ At(o, "sending")
  /\ out = "Sent" => Alive(o) /\ up
  /\ Go(o, [op[o] EXCEPT !.out = out], "verdict")
  /\ IF out = "Sent" THEN Tells(o, <<"ACK">>) ELSE UNCHANGED wire
  /\ UNCHANGED reg

Abandoned(r) == [r EXCEPT !.gate = "Abandoned", !.timer = FALSE, !.posts = @ \cup {"abandon"}]

\* The send's result, unless the target died inside it.
Verdict(o) ==
  /\ At(o, "verdict")
  /\ LET r == op[o]
     IN  CASE r.gone \/ r.out = "PermanentFail" -> Go(o, Abandoned(r), "idle")
           [] ~r.gone /\ r.out = "Sent" -> Go(o, [r EXCEPT !.gate = "Committing"], "owned")
           [] OTHER -> Go(o, [r EXCEPT !.gate = "Pending", !.timer = TRUE], "idle")
  /\ UNCHANGED <<reg, wire>>

\* Mutant: a target's death is answered while the ACK is in the transport.
target_gone_eager(r) ==
  CASE r.gate \in {"Pending", "Sending"} -> Abandoned(r)
    [] r.gate = "Committing" -> [r EXCEPT !.gone = TRUE, !.timer = FALSE]
    [] r.gate = "Committed" -> [r EXCEPT !.posts = @ \cup {"close"}]
    [] OTHER -> r

\* target_gone(): resolve a waiting gate, leave a request to a busy one, and
\* tell the caller of a committed one to close the tunnel.
target_gone(r) ==
  CASE r.gate = "Pending" -> Abandoned(r)
    [] r.gate \in {"Sending", "Committing"} -> [r EXCEPT !.gone = TRUE, !.timer = FALSE]
    [] r.gate = "Committed" -> [r EXCEPT !.posts = @ \cup {"close"}]
    [] OTHER -> r

\* commit_open_ack(): look, claim the state word, look again, publish.
CommitOwned(o) ==
  /\ At(o, "owned") /\ Go(o, op[o], IF Owns(o) THEN "claim" ELSE "abort")
  /\ UNCHANGED <<reg, wire>>
CommitClaim(o) ==
  /\ At(o, "claim")
  /\ IF op[o].tun = "None" THEN Go(o, [op[o] EXCEPT !.tun = "Connected"], "verify")
     ELSE Go(o, op[o], "abort")
  /\ UNCHANGED <<reg, wire>>
CommitVerify(o) ==
  /\ At(o, "verify") /\ Go(o, op[o], IF Owns(o) THEN "publish" ELSE "abort")
  /\ UNCHANGED <<reg, wire>>
CommitPublish(o) ==
  /\ At(o, "publish") /\ Go(o, [op[o] EXCEPT !.ok = @ + 1], "count")
  /\ UNCHANGED <<reg, wire>>

\* The read loop takes over from the peer-close watch.
CommitCount(o) ==
  /\ At(o, "count") /\ Go(o, active_gauge_count(op[o]), "settle")
  /\ UNCHANGED <<reg, wire>>

\* abort_open_ack_after_send() and abandon_open_ack(): the peer hears an ERROR,
\* the tunnel goes, then the socket and the gauge.
Release(o, r) == active_gauge_release(Shut(ForceClose(RemoveIf(o, [r EXCEPT !.failed = @ + 1]))))
CommitAbort(o) ==
  /\ At(o, "abort") /\ Go(o, Release(o, op[o]), "unsettle")
  /\ Tells(o, <<"ERROR">> \o Farewell(op[o])) /\ Unregister(o)
abandon_open_ack(o) ==
  /\ "abandon" \in op[o].posts
  /\ Set(o, [Release(o, op[o]) EXCEPT !.posts = @ \ {"abandon"}])
  /\ Tells(o, <<"ERROR">> \o Farewell(op[o])) /\ Unregister(o)

\* Mutant: a target that died during the commit is forgotten.
SettleForgets(o) ==
  /\ \/ At(o, "settle") /\ Go(o, [op[o] EXCEPT !.gate = "Committed"], "idle")
     \/ At(o, "unsettle") /\ Go(o, [op[o] EXCEPT !.gate = "Abandoned"], "idle")
  /\ UNCHANGED <<reg, wire>>

\* The gate resolves; a target that died during the commit is closed now.
Settle(o) ==
  /\ \/ /\ At(o, "settle")
        /\ Go(o, [op[o] EXCEPT !.gate = "Committed",
                               !.posts = IF op[o].gone THEN @ \cup {"close"} ELSE @], "idle")
     \/ At(o, "unsettle") /\ Go(o, [op[o] EXCEPT !.gate = "Abandoned"], "idle")
  /\ UNCHANGED <<reg, wire>>

----------------------------------------------------------------------------
(* The target, and what else ends a tunnel. *)

\* The chain holds the connection's strand up to the end of its first attempt.
StrandFree(o) == op[o].at \in {"idle", "resolving", "connecting"} \/ op[o].byTimer

\* do_close() with the disconnect handler: a close posted by us, a FIN the
\* watch saw before the read loop, or a reset.
SocketCloses(o, abnormal) ==
  LET r == [op[o] EXCEPT !.sock = "Disconnected", !.shut = FALSE]
  IN  /\ Set(o, IF r.hooked THEN target_gone([r EXCEPT !.abnormal = abnormal]) ELSE r)
      /\ UNCHANGED <<reg, wire>>
ShutRuns(o) == op[o].shut /\ StrandFree(o) /\ SocketCloses(o, FALSE)
TargetDies(o, abnormal) ==
  /\ op[o].sock = "Connected" /\ op[o].hooked /\ StrandFree(o)
  /\ abnormal \/ op[o].gate /= "Committed"
  /\ SocketCloses(o, abnormal)

\* The read loop meets the target's FIN: our half of the stream is done.
on_tcp_read_eof(o) ==
  /\ op[o].sock = "Connected" /\ op[o].gate = "Committed" /\ ~op[o].eof /\ StrandFree(o)
  /\ LET r == [op[o] EXCEPT !.eof = TRUE]
     IN  IF r.tun /= "Connected" THEN Set(o, r) /\ UNCHANGED <<reg, wire>>
         ELSE /\ Set(o, IF r.peerClosed THEN Terminate(r, "Closed")
                        ELSE [r EXCEPT !.tun = "Disconnecting"])
              /\ Tells(o, <<"CLOSE">>) /\ UNCHANGED reg

\* The posted close: the ERROR of an abnormal end, or a graceful close.
CloseRuns(o) ==
  /\ "close" \in op[o].posts
  /\ LET r == [op[o] EXCEPT !.posts = @ \ {"close"}]
     IN  IF Owns(o) /\ r.abnormal /\ r.tun \in Established
         THEN Set(o, Terminate(r, "Error")) /\ Tells(o, <<"ERROR">>)
         ELSE IF Owns(o) THEN Set(o, Close(r)) /\ Tells(o, Farewell(r))
         ELSE Set(o, r) /\ UNCHANGED wire
  /\ UNCHANGED reg

\* The friend's TUNNEL_CLOSE and TUNNEL_ERROR, routed to the registered tunnel.
handle_tunnel_close_frame(o) ==
  LET r == [op[o] EXCEPT !.peerClosed = TRUE, !.byPeer = TRUE]
  IN  /\ Set(o, IF ~r.hooked \/ r.eof THEN Terminate(r, "Closed") ELSE r)
      /\ UNCHANGED <<reg, wire>>
handle_tunnel_error_frame(o) ==
  Set(o, Terminate([op[o] EXCEPT !.byPeer = TRUE], "Error")) /\ UNCHANGED <<reg, wire>>

\* notify_close_once(): the pre-wire teardown, or the wired one.
NotifyClose(o) ==
  /\ op[o].notify = "due"
  /\ LET r == [op[o] EXCEPT !.notify = "done"]
     IN  IF r.hooked
         THEN /\ Set(o, [active_gauge_release(Shut(r)) EXCEPT !.posts = @ \cup {"remove"}])
              /\ UNCHANGED <<reg, wire>>
         ELSE IF Cancellable(r)
         THEN /\ Set(o, BookFailure(Shut([RemoveIf(o, r) EXCEPT !.phase = "Resolved"])))
              /\ Unregister(o) /\ UNCHANGED wire
         ELSE Set(o, r) /\ UNCHANGED <<reg, wire>>

RemoveRuns(o) ==
  /\ "remove" \in op[o].posts
  /\ Set(o, [RemoveIf(o, op[o]) EXCEPT !.posts = @ \ {"remove"}])
  /\ Unregister(o) /\ UNCHANGED wire

----------------------------------------------------------------------------
\* The chain and the posted cleanups of OPEN o go on.
OpenSteps(o) ==
  \/ \E good \in BOOLEAN : ResolveEnds(o, good) \/ ConnectEnds(o, good)
  \/ WireStarts(o) \/ WireLapsed(o) \/ InstallHooks(o) \/ Recheck(o)
  \/ \E timer \in BOOLEAN : Attempt(o, timer)
  \/ SendAck(o, "Sent") \/ (~(Alive(o) /\ up) /\ SendAck(o, "PermanentFail"))
  \/ Verdict(o) \/ CommitOwned(o) \/ CommitClaim(o) \/ CommitVerify(o)
  \/ CommitPublish(o) \/ CommitCount(o) \/ CommitAbort(o) \/ Settle(o)
  \/ abandon_open_ack(o) \/ CloseRuns(o) \/ RemoveRuns(o) \/ NotifyClose(o) \/ ShutRuns(o)

\* What may or may not happen to it.
OpenEvents(o) ==
  \/ SendAck(o, "SendqFull") /\ Spend("full")
  \/ SendAck(o, "PermanentFail") /\ Spend("fail")
  \/ \E abnormal \in BOOLEAN : TargetDies(o, abnormal) /\ Spend("die")
  \/ on_tcp_read_eof(o) /\ Spend("eof")
============================================================================
