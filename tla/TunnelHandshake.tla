-------------------------- MODULE TunnelHandshake --------------------------
(***************************************************************************)
(* TUNNEL_OPEN from the client's side: open(), attempt_open_send(), its    *)
(* SENDQ retry, the OPEN_ACK deadline, and the ACK that completes it.  The *)
(* caller ("app") of an open() that returns false removes the tunnel.      *)
(***************************************************************************)
EXTENDS TunnelState

\* open(): claim None -> Connecting and reset the phase in one critical section.
Open(a) ==
  /\ Doing(a, "open")
  /\ IF state = "None"
     THEN /\ state' = "Connecting"
          /\ op' = [op EXCEPT !.phase = "Pending", !.abandon = FALSE]
          /\ Then(a, <<"attemptOpen">>)
     ELSE /\ Then(a, <<"remove">>)
          /\ UNCHANGED <<state, op>>
  /\ UNCHANGED <<cf, er, co, drv, mx, once, man, emitted, accepted, wire, timers, left, started>>

\* attempt_open_send(), first critical section: only one attempt may be Sending.
AttemptOpen(a) ==
  /\ Doing(a, "attemptOpen")
  /\ IF op.phase = "Pending" /\ state = "Connecting"
     THEN /\ op' = [op EXCEPT !.phase = "Sending"]
          /\ Then(a, <<"openSnapshot">>)
     ELSE /\ op' = op
          /\ Then(a, If(a = "app", "remove"))
  /\ UNCHANGED <<state, cf, er, co, drv, mx, once, man, emitted, accepted, wire, timers, left, started>>

\* send_frame_to_tox_typed(): behind a closed gate the frame is dropped as Sent.
OpenSnapshot(a) ==
  /\ Doing(a, "openSnapshot")
  /\ Then(a, IF mx.gate THEN <<"openSent">> ELSE <<"openTransport">>)
  /\ UNCHANGED <<state, op, cf, er, co, drv, mx, once, man, emitted, accepted, wire, timers, left, started>>

OpenTransport(a) ==
  /\ Doing(a, "openTransport")
  /\ \E out \in Outcomes :
       /\ Transport(out, Control("OPEN"))
       /\ Then(a, CASE out = "Sent" -> <<"openSent">>
                    [] out = "SendqFull" -> <<"openFull">>
                    [] out = "PermanentFail" -> <<"openFail">>)
  /\ UNCHANGED <<state, op, cf, er, co, drv, mx, once, man, emitted, accepted, timers, started>>

\* Mutant: the CLOSE a concurrent close left to the sender is forgotten.
OpenSentForgets(a) ==
  /\ Doing(a, "openSent")
  /\ op' = [op EXCEPT !.phase = "Sent", !.owed = FALSE]
  /\ Then(a, If(a = "app", "armDeadline"))
  /\ UNCHANGED <<state, cf, er, co, drv, mx, once, man, emitted, accepted, wire, timers, left, started>>

\* The verdict on a delivered OPEN; a close that came during the send is paid now.
OpenSent(a) ==
  /\ Doing(a, "openSent")
  /\ op' = [op EXCEPT !.phase = "Sent", !.owed = FALSE]
  /\ Then(a, IF op.owed THEN <<"emitClose">> \o If(a = "app", "remove")
             ELSE If(a = "app", "armDeadline"))
  /\ UNCHANGED <<state, cf, er, co, drv, mx, once, man, emitted, accepted, wire, timers, left, started>>

\* The verdict on SENDQ full: the tunnel keeps the frame unless it was abandoned.
OpenFull(a) ==
  /\ Doing(a, "openFull")
  /\ op' = [op EXCEPT !.phase = IF op.abandon THEN "Abandoned" ELSE "Pending", !.owed = FALSE]
  /\ Then(a, If(op.owed, "abandonClose") \o If(~op.abandon, "armOpenRetry")
             \o If(a = "app", "armDeadline"))
  /\ UNCHANGED <<state, cf, er, co, drv, mx, once, man, emitted, accepted, wire, timers, left, started>>

\* The verdict on a permanent failure: owns_resolution unless a close got there first.
OpenFail(a) ==
  /\ Doing(a, "openFail")
  /\ op' = [op EXCEPT !.phase = IF op.abandon THEN "Abandoned" ELSE "Failed", !.owed = FALSE]
  /\ Then(a, If(op.owed, "abandonClose")
             \o (IF op.abandon THEN If(a = "app", "remove")
                 ELSE IF a = "app" THEN <<"rollback", "remove">> ELSE <<"retryFailed">>))
  /\ UNCHANGED <<state, cf, er, co, drv, mx, once, man, emitted, accepted, wire, timers, left, started>>

\* arm_open_retry_timer() refuses once the handshake was abandoned.
ArmOpenRetry(a) ==
  /\ Doing(a, "armOpenRetry")
  /\ timers' = IF op.abandon THEN timers ELSE timers \cup {"open"}
  /\ Then(a, <<>>)
  /\ UNCHANGED <<state, op, cf, er, co, drv, mx, once, man, emitted, accepted, wire, left, started>>

\* arm_open_deadline_timer()
ArmDeadline(a) ==
  /\ Doing(a, "armDeadline")
  /\ timers' = timers \cup {"deadline"}
  /\ Then(a, <<>>)
  /\ UNCHANGED <<state, op, cf, er, co, drv, mx, once, man, emitted, accepted, wire, left, started>>

\* open()'s rollback edge Connecting -> None ...
Rollback(a) ==
  /\ Doing(a, "rollback")
  /\ IF state = "Connecting"
     THEN /\ state' = "None"
          /\ timers' = DisarmDeadline
          /\ Then(a, <<"maybeRelease", "resetPhase">>)
     ELSE /\ UNCHANGED <<state, timers>>
          /\ Then(a, <<>>)
  /\ UNCHANGED <<op, cf, er, co, drv, mx, once, man, emitted, accepted, wire, left, started>>

\* ... after which the Failed phase is cleared for a later open().
ResetPhase(a) ==
  /\ Doing(a, "resetPhase")
  /\ op' = [op EXCEPT !.phase = "Pending", !.abandon = FALSE]
  /\ Then(a, <<>>)
  /\ UNCHANGED <<state, cf, er, co, drv, mx, once, man, emitted, accepted, wire, timers, left, started>>

\* retry_open_send(): the pre-check, then another attempt.
RetryOpen(a) ==
  /\ Doing(a, "retryOpen")
  /\ Then(a, If(state = "Connecting" /\ ~mx.gate, "attemptOpen"))
  /\ UNCHANGED <<state, op, cf, er, co, drv, mx, once, man, emitted, accepted, wire, timers, left, started>>

\* Mutant: the retry's failure is not announced to the manager.
RetryFailedSilently(a) ==
  /\ Doing(a, "retryFailed")
  /\ state' = IF state = "Connecting" THEN "Error" ELSE state
  /\ timers' = IF state = "Connecting" THEN DisarmDeadline ELSE timers
  /\ Then(a, If(state = "Connecting", "maybeRelease"))
  /\ UNCHANGED <<op, cf, er, co, drv, mx, once, man, emitted, accepted, wire, left, started>>

\* retry_open_send(): a permanent failure on a retry resolves to Error.
RetryFailed(a) ==
  /\ Doing(a, "retryFailed")
  /\ IF state = "Connecting"
     THEN /\ state' = "Error"
          /\ timers' = DisarmDeadline
          /\ Then(a, <<"maybeRelease", "notifyClose">>)
     ELSE /\ UNCHANGED <<state, timers>>
          /\ Then(a, <<>>)
  /\ UNCHANGED <<op, cf, er, co, drv, mx, once, man, emitted, accepted, wire, left, started>>

\* handle_tunnel_ack_frame() while Connecting: the state is read here ...
RxAck(a) ==
  /\ Doing(a, "rxAck")
  /\ Then(a, If(state = "Connecting", "ackConnect"))
  /\ UNCHANGED <<state, op, cf, er, co, drv, mx, once, man, emitted, accepted, wire, timers, left, started>>

\* ... and transition_state(Connected) claims it, unless it became terminal.
AckConnect(a) ==
  /\ Doing(a, "ackConnect")
  /\ IF state \in Terminal \cup {"Connected"}
     THEN /\ UNCHANGED <<state, timers>>
          /\ Then(a, <<>>)
     ELSE /\ state' = "Connected"
          /\ timers' = DisarmDeadline
          /\ Then(a, <<"maybeRelease">>)
  /\ UNCHANGED <<op, cf, er, co, drv, mx, once, man, emitted, accepted, wire, left, started>>

HandshakeStep(a) ==
  \/ Open(a) \/ AttemptOpen(a) \/ OpenSnapshot(a) \/ OpenTransport(a)
  \/ OpenSent(a) \/ OpenFull(a) \/ OpenFail(a) \/ ArmOpenRetry(a) \/ ArmDeadline(a)
  \/ Rollback(a) \/ ResetPhase(a) \/ RetryOpen(a) \/ RetryFailed(a)
  \/ RxAck(a) \/ AckConnect(a)
============================================================================
