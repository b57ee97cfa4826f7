--------------------------- MODULE TunnelTeardown ---------------------------
(***************************************************************************)
(* How a tunnel ends: close(), half-close, force_close(), the terminal     *)
(* ERROR and its two-party settlement, and the manager's removal, which    *)
(* keeps the id reserved until the tunnel says it may be reused.           *)
(***************************************************************************)
EXTENDS TunnelState

Draining == co.fifo # <<>> \/ drv.pc # "idle"

----------------------------------------------------------------------------
(* The id and the CLOSE obligation. *)

\* abandon_close_obligation()
AbandonClose(a) ==
  /\ Doing(a, "abandonClose")
  /\ cf' = [cf EXCEPT !.frame = IF @ = "Owed" THEN "Abandoned" ELSE @]
  /\ Then(a, If(cf.frame = "Owed", "maybeRelease"))
  /\ UNCHANGED <<state, op, er, co, drv, mx, once, man, emitted, accepted, wire, timers, left, started>>

\* cancel_close_retry(): no CLOSE will be emitted from here on.
CancelClose(a) ==
  /\ Doing(a, "cancelClose")
  /\ cf' = [cf EXCEPT !.armed = FALSE, !.req = FALSE, !.cancelled = TRUE,
                      !.frame = IF @ = "Owed" THEN "Abandoned" ELSE @]
  /\ timers' = timers \ {"close"}
  /\ Then(a, <<"maybeRelease">>)
  /\ UNCHANGED <<state, op, er, co, drv, mx, once, man, emitted, accepted, wire, left, started>>

\* maybe_notify_id_releasable(): judged under one lock ...
MaybeRelease(a) ==
  /\ Doing(a, "maybeRelease")
  /\ Then(a, If(IdReleasable, "releaseId"))
  /\ UNCHANGED <<state, op, cf, er, co, drv, mx, once, man, emitted, accepted, wire, timers, left, started>>

\* ... acted on under another: the hook runs once and frees the manager's id.
ReleaseId(a) ==
  /\ Doing(a, "releaseId")
  /\ IF mx.hook = "set"
     THEN mx' = [mx EXCEPT !.hook = "fired"] /\ man' = [man EXCEPT !.idFree = TRUE]
     ELSE UNCHANGED <<mx, man>>
  /\ Then(a, <<>>)
  /\ UNCHANGED <<state, op, cf, er, co, drv, once, emitted, accepted, wire, timers, left, started>>

\* notify_close_once(): the client removes the tunnel inline, the server posts it.
NotifyClose(a) ==
  /\ Doing(a, "notifyClose")
  /\ once' = [once EXCEPT !.notified = TRUE]
  /\ man' = [man EXCEPT !.posted = @ \/ (~Client /\ ~once.notified)]
  /\ Then(a, If(Client /\ ~once.notified, "remove"))
  /\ UNCHANGED <<state, op, cf, er, co, drv, mx, emitted, accepted, wire, timers, left, started>>

----------------------------------------------------------------------------
(* Graceful close. *)

\* close(): the seal and the state pick the path.
Close(a) ==
  /\ Doing(a, "close")
  /\ Then(a, IF co.abort THEN <<>>
             ELSE If(state = "Connecting", "closeHandshake")
                  \o If(state = "Connected", "closeConnected"))
  /\ UNCHANGED <<state, op, cf, er, co, drv, mx, once, man, emitted, accepted, wire, timers, left, started>>

\* close() while Connecting: cancel_open_retry() says who owes the CLOSE.
CloseHandshake(a) ==
  /\ Doing(a, "closeHandshake")
  /\ op' = CancelOpenRetry(op)
  /\ cf' = DeferCloseToSender(op, cf)
  /\ timers' = timers \ {"open"}
  /\ Then(a, If(op.phase = "Sent", "emitClose") \o <<"closeCas">>)
  /\ UNCHANGED <<state, er, co, drv, mx, once, man, emitted, accepted, wire, left, started>>

\* ... then claim Connecting -> Closed; losing means somebody else resolved it.
CloseCas(a) ==
  /\ Doing(a, "closeCas")
  /\ IF state = "Connecting"
     THEN /\ state' = "Closed"
          /\ timers' = DisarmDeadline
          /\ Then(a, <<"maybeRelease", "notifyClose">>)
     ELSE UNCHANGED <<state, timers>> /\ Then(a, <<>>)
  /\ UNCHANGED <<op, cf, er, co, drv, mx, once, man, emitted, accepted, wire, left, started>>

\* close() while Connected: behind pending bytes or a running driver the CLOSE waits.
CloseConnected(a) ==
  /\ Doing(a, "closeConnected")
  /\ IF Draining
     THEN /\ co' = [co EXCEPT !.closing = TRUE, !.closingFull = TRUE]
          /\ cf' = NoteCloseOwed(cf)
          /\ Then(a, <<"driveAll">>)
     ELSE UNCHANGED <<co, cf>> /\ Then(a, <<"emitCloseAndTransition">>)
  /\ UNCHANGED <<state, op, er, drv, mx, once, man, emitted, accepted, wire, timers, left, started>>

\* Mutant: the transition after the CLOSE is lost.
EmitCloseOnly(a) ==
  /\ Doing(a, "emitCloseAndTransition")
  /\ co' = [co EXCEPT !.closeSent = TRUE, !.streamDone = @ \/ ~co.closeSent]
  /\ Then(a, If(~co.closeSent, "emitClose"))
  /\ UNCHANGED <<state, op, cf, er, drv, mx, once, man, emitted, accepted, wire, timers, left, started>>

\* emit_close_and_transition()
EmitCloseAndTransition(a) ==
  /\ Doing(a, "emitCloseAndTransition")
  /\ co' = [co EXCEPT !.closeSent = TRUE, !.streamDone = @ \/ ~co.closeSent]
  /\ Then(a, If(~co.closeSent, "emitClose")
             \o <<"casDisconnecting", "maybeRelease", "notifyClose">>)
  /\ UNCHANGED <<state, op, cf, er, drv, mx, once, man, emitted, accepted, wire, timers, left, started>>

\* Mutant: a blind store instead of the compare-and-swap.
StoreDisconnecting(a) ==
  /\ Doing(a, "casDisconnecting")
  /\ state' = "Disconnecting"
  /\ timers' = DisarmDeadline
  /\ Then(a, <<"maybeRelease">>)
  /\ UNCHANGED <<op, cf, er, co, drv, mx, once, man, emitted, accepted, wire, left, started>>

\* transition_state_if(Connected, Disconnecting)
CasDisconnecting(a) ==
  /\ Doing(a, "casDisconnecting")
  /\ state' = IF state = "Connected" THEN "Disconnecting" ELSE state
  /\ timers' = IF state = "Connected" THEN DisarmDeadline ELSE timers
  /\ Then(a, If(state = "Connected", "maybeRelease"))
  /\ UNCHANGED <<op, cf, er, co, drv, mx, once, man, emitted, accepted, wire, left, started>>

\* on_tcp_read_eof(): the local application finished sending.
TcpEof(a) ==
  /\ Doing(a, "eof")
  /\ Then(a, IF co.abort THEN <<>>
             ELSE If(state = "Connecting", "close") \o If(state \in Established, "eofStream"))
  /\ UNCHANGED <<state, op, cf, er, co, drv, mx, once, man, emitted, accepted, wire, timers, left, started>>

EofStream(a) ==
  /\ Doing(a, "eofStream")
  /\ IF Draining
     THEN /\ co' = [co EXCEPT !.closing = TRUE]
          /\ Then(a, <<"driveAll">>)
     ELSE /\ co' = [co EXCEPT !.closeSent = TRUE, !.streamDone = @ \/ ~co.closeSent]
          /\ Then(a, (IF co.closeSent THEN <<>> ELSE EmitLocalClose)
                     \o If(co.remoteSeen, "finalizeRemote"))
  /\ UNCHANGED <<state, op, cf, er, drv, mx, once, man, emitted, accepted, wire, timers, left, started>>

\* handle_tunnel_close_frame(): the peer's half.
RxClose(a) ==
  LET done == co.streamDone \/ mx.socket # "held"
  IN /\ Doing(a, "rxClose")
     /\ co' = [co EXCEPT !.remoteSeen = TRUE, !.streamDone = done,
                         !.remotePending = @ \/ (~co.abort /\ Draining)]
     /\ Then(a, IF co.abort THEN <<>>
                ELSE IF Draining THEN <<"driveAll">> ELSE If(done, "finalizeRemote"))
     /\ UNCHANGED <<state, op, cf, er, drv, mx, once, man, emitted, accepted, wire, timers, left, started>>

\* finalize_remote_close(): both halves are closed.
FinalizeRemote(a) ==
  /\ Doing(a, "finalizeRemote")
  /\ state' = IF state \in Terminal THEN state ELSE "Closed"
  /\ timers' = IF state \in Terminal THEN timers ELSE DisarmDeadline
  /\ Then(a, <<"maybeRelease", "notifyClose">>)
  /\ UNCHANGED <<op, cf, er, co, drv, mx, once, man, emitted, accepted, wire, left, started>>

\* handle_tunnel_error_frame()
RxError(a) ==
  /\ Doing(a, "rxError")
  /\ state' = IF state \in Terminal THEN state ELSE "Error"
  /\ timers' = IF state \in Terminal THEN timers ELSE DisarmDeadline
  /\ Then(a, If(state \notin Terminal, "maybeRelease") \o <<"notifyClose">>)
  /\ UNCHANGED <<op, cf, er, co, drv, mx, once, man, emitted, accepted, wire, left, started>>

----------------------------------------------------------------------------
(* force_close_impl(): claim Closed, then release the resources once. *)

\* claim_terminal(); "expire" is the OPEN deadline, which claims only Connecting.
\* (The winner's notify_state_change() disarms that deadline; once the state is
\* terminal its handler does nothing, so the step of the disarming is the claim.)
ForceClaim(a) ==
  \E s \in {"forceClose", "forceCloseDrain", "expire"} :
    LET claimed == state \notin Terminal /\ (s = "expire" => state = "Connecting")
        announce == claimed /\ (state = "Connected" \/ (state = "Connecting" /\ op.phase = "Sent"))
        owed == DeferCloseToSender(op, cf)
    IN /\ Doing(a, s)
       /\ IF s = "expire" /\ ~claimed
          THEN UNCHANGED <<state, op, cf, timers>> /\ Then(a, <<>>)
          ELSE /\ state' = IF claimed THEN "Closed" ELSE state
               /\ op' = CancelOpenRetry(op)
               /\ cf' = IF announce THEN NoteCloseOwed(owed) ELSE owed
               /\ timers' = timers \ (IF claimed THEN {"open", "deadline"} ELSE {"open"})
               /\ Then(a, IF announce THEN <<"ownAnnounce">>
                          ELSE IF claimed THEN <<"ownClaimed">>
                          ELSE IF s = "forceCloseDrain" /\ state = "Closed" THEN <<"ownDrain">>
                          ELSE <<"own">>)
       /\ UNCHANGED <<er, co, drv, mx, once, man, emitted, accepted, wire, left, started>>

\* resources_released_.exchange(): flush, announce, fence, kick, notify, in this order.
ForceOwn(a) ==
  \E s \in {"own", "ownDrain", "ownClaimed", "ownAnnounce"} :
    LET claimed == s \in {"ownClaimed", "ownAnnounce"}
        owns == ~once.released
    IN /\ Doing(a, s)
       /\ once' = [once EXCEPT !.released = TRUE]
       /\ Then(a, IF ~claimed /\ ~owns THEN <<>>
                  ELSE (IF owns /\ ~mx.gate THEN <<"driveAll", "flushTail">> ELSE <<>>)
                       \o If(s = "ownAnnounce", "emitClose")
                       \o If(owns, IF s = "ownDrain" THEN "fenceDrain" ELSE "fence")
                       \o <<"driveAll">> \o <<"maybeRelease", "notifyClose">>)
       /\ UNCHANGED <<state, op, cf, er, co, drv, mx, man, emitted, accepted, wire, timers, left, started>>

\* flush_pending_writes(), second half; a handler already dispatched still runs.
FlushTail(a) ==
  /\ Doing(a, "flushTail")
  /\ timers' \in IF Draining THEN {timers} ELSE {timers, timers \ {"coalesce"}}
  /\ Then(a, <<>>)
  /\ UNCHANGED <<state, op, cf, er, co, drv, mx, once, man, emitted, accepted, wire, left, started>>

\* The abort seal and the settlement of a parked ERROR are one section.
Fence(a) ==
  \E s \in {"fence", "fenceDrain"} :
    /\ Doing(a, s)
    /\ co' = PublishAbort(co)
    /\ er' = SettleErrorForShutdown(er)
    /\ timers' = timers \ {"error"}
    /\ Then(a, If(ParkedError(er), "arriveTransportDeferred")
               \o <<"takeFinalizer">>
               \o <<IF s = "fenceDrain" /\ ~mx.gate THEN "drainSocket" ELSE "dropSocket">>)
    /\ UNCHANGED <<state, op, cf, drv, mx, once, man, emitted, accepted, wire, left, started>>

DropSocket(a) ==
  \E s \in {"dropSocket", "drainSocket"} :
    /\ Doing(a, s)
    /\ mx' = [mx EXCEPT !.socket = IF @ # "held" THEN @
                                   ELSE IF s = "drainSocket" THEN "drained" ELSE "forced"]
    /\ Then(a, <<>>)
    /\ UNCHANGED <<state, op, cf, er, co, drv, once, man, emitted, accepted, wire, timers, left, started>>

----------------------------------------------------------------------------
(* The terminal ERROR. *)

\* claim_terminal_error(): the winner raises the id fence and, unless retries
\* were already cancelled or there are no wire bytes, deposits the frame.
ClaimTerminalError(e, deposit) ==
  IF e.claimed THEN e
  ELSE [e EXCEPT !.claimed = TRUE, !.fence = TRUE, !.producer = FALSE, !.transport = FALSE,
                 !.finalize = FALSE, !.slot = deposit /\ ~e.cancelled]

\* send_error(), fail_locally() and the linger branch of close_for_timeout().
SendError(a) ==
  \E s \in {"sendError", "failLocally", "linger"} :
    LET claim == ClaimTerminalError(er, s # "failLocally")
        settle == IF claim.slot THEN "driveAll" ELSE "arriveTransport"
    IN /\ Doing(a, s)
       /\ co' = PublishAbort(co)
       /\ er' = claim
       /\ Then(a, IF er.claimed THEN <<>>
                  ELSE <<settle>> \o (IF s = "linger" THEN <<"lingerClosed", "notifyClose">>
                                      ELSE <<"errorState">>)
                       \o <<"arriveProducer">>)
       /\ UNCHANGED <<state, op, cf, drv, mx, once, man, emitted, accepted, wire, timers, left, started>>

\* The terminal transition of each: Error, or Closed after a linger timeout.
TerminalState(a) ==
  \E s \in {"errorState", "lingerClosed"} :
    /\ Doing(a, s)
    /\ state' = IF state \in Terminal THEN state ELSE IF s = "errorState" THEN "Error" ELSE "Closed"
    /\ timers' = IF state \in Terminal THEN timers ELSE DisarmDeadline
    /\ Then(a, If(state \notin Terminal, "maybeRelease"))
    /\ UNCHANGED <<op, cf, er, co, drv, mx, once, man, emitted, accepted, wire, left, started>>

\* arrive_terminal_error_party(): the second of producer and transport finalizes.
ArriveParty(a) ==
  \E s \in {"arriveTransport", "arriveTransportDeferred", "arriveProducer"} :
    LET mine == IF s = "arriveProducer" THEN er.producer ELSE er.transport
        other == IF s = "arriveProducer" THEN er.transport ELSE er.producer
        last == ~mine /\ other
        deferred == s = "arriveTransportDeferred"
    IN /\ Doing(a, s)
       /\ er' = [er EXCEPT !.producer = @ \/ s = "arriveProducer",
                           !.transport = @ \/ s # "arriveProducer",
                           !.finalize = @ \/ (last /\ deferred)]
       /\ Then(a, If(last /\ ~deferred, "finalizer"))
       /\ UNCHANGED <<state, op, cf, co, drv, mx, once, man, emitted, accepted, wire, timers, left, started>>

\* run_terminal_error_finalizer(): lower the fence, end the CLOSE, notify.
Finalizer(a) ==
  /\ Doing(a, "finalizer")
  /\ er' = [er EXCEPT !.fence = FALSE]
  /\ Then(a, <<"cancelClose", "notifyClose">>)
  /\ UNCHANGED <<state, op, cf, co, drv, mx, once, man, emitted, accepted, wire, timers, left, started>>

\* take_pending_terminal_finalizer()
TakeFinalizer(a) ==
  /\ Doing(a, "takeFinalizer")
  /\ er' = [er EXCEPT !.finalize = FALSE]
  /\ Then(a, If(er.finalize, "finalizer"))
  /\ UNCHANGED <<state, op, cf, co, drv, mx, once, man, emitted, accepted, wire, timers, left, started>>

\* close_for_timeout(): a lingering half-close ends with an ERROR, the rest with close().
TimeoutClose(a) ==
  /\ Doing(a, "timeoutClose")
  /\ Then(a, IF state = "Disconnecting" THEN <<"linger">> ELSE <<"close">>)
  /\ UNCHANGED <<state, op, cf, er, co, drv, mx, once, man, emitted, accepted, wire, timers, left, started>>

----------------------------------------------------------------------------
(* The manager. *)

\* The map entry goes first, under the manager's lock; the id stays reserved,
\* except in close_all_local(), which frees it there.
RemoveEntry(a) ==
  \E s \in {"remove", "closeAll", "abandonAll", "closeAllLocal"} :
    /\ Doing(a, s)
    /\ man' = [man EXCEPT !.present = FALSE,
                          !.idFree = @ \/ (man.present /\ s = "closeAllLocal")]
    /\ Then(a, IF ~man.present THEN <<>>
               ELSE CASE s = "remove" -> <<"setHook", "teardown">>
                      [] s = "closeAll" -> <<"setHook", "teardownAll">>
                      [] s = "abandonAll" -> <<"setHook", "teardownAbandon">>
                      [] s = "closeAllLocal" -> <<"cancelClose", "gate", "forceClose">>)
    /\ UNCHANGED <<state, op, cf, er, co, drv, mx, once, emitted, accepted, wire, timers, left, started>>

\* set_on_id_releasable()
SetHook(a) ==
  /\ Doing(a, "setHook")
  /\ mx' = [mx EXCEPT !.hook = "set"]
  /\ Then(a, <<"maybeRelease">>)
  /\ UNCHANGED <<state, op, cf, er, co, drv, once, man, emitted, accepted, wire, timers, left, started>>

\* The dispatch of remove_tunnel_impl() and of close_all() in its two modes.
Teardown(a) ==
  \E s \in {"teardown", "teardownAll", "teardownAbandon"} :
    /\ Doing(a, s)
    /\ Then(a, IF s = "teardownAbandon" /\ state \in Established THEN <<"sendError">>
               ELSE IF AbortTeardownRequired
                    THEN <<IF s = "teardown" THEN "forceCloseDrain" ELSE "forceClose">>
               ELSE <<"close">> \o If(s = "teardownAbandon", "abandonLate"))
    /\ UNCHANGED <<state, op, cf, er, co, drv, mx, once, man, emitted, accepted, wire, timers, left, started>>

\* close_all(Abandon): a handshake that completed meanwhile is ended after all.
AbandonLate(a) ==
  /\ Doing(a, "abandonLate")
  /\ Then(a, If(state \in Established, "sendError"))
  /\ UNCHANGED <<state, op, cf, er, co, drv, mx, once, man, emitted, accepted, wire, timers, left, started>>

\* close_outbound_gate() after its cancel_close_retry().
CloseGate(a) ==
  /\ Doing(a, "gate")
  /\ co' = PublishAbort(co)
  /\ er' = SettleErrorForShutdown(er)
  /\ mx' = [mx EXCEPT !.gate = TRUE]
  /\ timers' = timers \ {"error"}
  /\ Then(a, If(ParkedError(er), "arriveTransportDeferred"))
  /\ UNCHANGED <<state, op, cf, drv, once, man, emitted, accepted, wire, left, started>>

----------------------------------------------------------------------------
(* The local TCP connection ends; credit for received DATA. *)

\* The disconnect handlers: an abnormal end of an established stream is an ERROR.
LocalDisconnect(a) ==
  \E s \in {"reset", "hangup"} :
    /\ Doing(a, s)
    /\ Then(a, IF ~Client /\ ~man.present THEN <<>>
               ELSE IF s = "reset" /\ state \in Established THEN <<"sendError">>
               ELSE <<"close">>)
    /\ UNCHANGED <<state, op, cf, er, co, drv, mx, once, man, emitted, accepted, wire, timers, left, started>>

\* send_ack(): the state is read, the gate is read, the frame goes out.
SendAck(a) ==
  /\ Doing(a, "ack")
  /\ Then(a, If(state \in Established, "ackSnapshot"))
  /\ UNCHANGED <<state, op, cf, er, co, drv, mx, once, man, emitted, accepted, wire, timers, left, started>>

AckSnapshot(a) ==
  /\ Doing(a, "ackSnapshot")
  /\ Then(a, If(~mx.gate, "ackTransport"))
  /\ UNCHANGED <<state, op, cf, er, co, drv, mx, once, man, emitted, accepted, wire, timers, left, started>>

AckTransport(a) ==
  /\ Doing(a, "ackTransport")
  /\ \E out \in Outcomes :
       /\ Transport(out, Control("ACK"))
       /\ timers' = IF out = "SendqFull" THEN timers \cup {"ack"} ELSE timers
  /\ Then(a, <<>>)
  /\ UNCHANGED <<state, op, cf, er, co, drv, mx, once, man, emitted, accepted, started>>

TeardownStep(a) ==
  \/ AbandonClose(a) \/ CancelClose(a) \/ MaybeRelease(a) \/ ReleaseId(a) \/ NotifyClose(a)
  \/ Close(a) \/ CloseHandshake(a) \/ CloseCas(a) \/ CloseConnected(a)
  \/ EmitCloseAndTransition(a) \/ CasDisconnecting(a)
  \/ TcpEof(a) \/ EofStream(a) \/ RxClose(a) \/ FinalizeRemote(a) \/ RxError(a)
  \/ ForceClaim(a) \/ ForceOwn(a) \/ FlushTail(a) \/ Fence(a) \/ DropSocket(a)
  \/ SendError(a) \/ TerminalState(a) \/ ArriveParty(a) \/ Finalizer(a) \/ TakeFinalizer(a)
  \/ TimeoutClose(a) \/ RemoveEntry(a) \/ SetHook(a) \/ Teardown(a) \/ AbandonLate(a)
  \/ CloseGate(a) \/ LocalDisconnect(a) \/ SendAck(a) \/ AckSnapshot(a) \/ AckTransport(a)
============================================================================
