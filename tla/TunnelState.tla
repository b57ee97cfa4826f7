---------------------------- MODULE TunnelState ----------------------------
(***************************************************************************)
(* The state of one TunnelImpl (src/src/tunnel/tunnel.cpp) and of its slot *)
(* in the TunnelManager, grouped by the mutex that guards it, with the     *)
(* operators the handlers share.                                           *)
(*                                                                         *)
(* Threads.  Each actor is a strand or timer of the io_context.  What an   *)
(* actor still has to do in its current handler is todo[a], a stack of     *)
(* steps: a step is one critical section (or one atomic access) and        *)
(* replaces itself by the calls it makes, so the call tree of the C++ code *)
(* unfolds at lock granularity and every interleaving of critical sections *)
(* of different threads is a behaviour.                                    *)
(***************************************************************************)
EXTENDS Naturals, Sequences, FiniteSets

CONSTANTS
  StartState,   \* "None": a client tunnel; "Connected": a published server tunnel
  Scenarios,    \* each says how often every outside event and transport fault may happen
  Policies,     \* the verdicts WriteCoalescer::decide() may give
  CoalesceCap,  \* coalesce_max_bytes_, in units of one TCP read
  WireCap       \* kMaxTcpPayloadPerToxFrame, in the same unit

\* Timers of the tunnel; each is also the actor that runs its handler.
Timers == {"open", "deadline", "coalesce", "close", "error", "ack"}
\* close_retry_timer_ and error_retry_timer_ capture a strong reference.
StrongTimers == {"close", "error"}
Actors == {"app", "inbound", "tcp", "mgr", "reaper", "io"} \cup Timers

Ops == {"open", "rxAck", "rxData", "rxClose", "rxError",
        "tcpData", "eof", "reset", "hangup",
        "reap", "remove", "closeAll", "abandonAll", "closeAllLocal", "failLocally"}
Faults == {"full", "fail"}

ASSUME StartAssumption == StartState \in {"None", "Connected"}
ASSUME ScenarioAssumption == Scenarios \subseteq [Ops \cup Faults -> Nat]
\* The client opens a tunnel it has created once; the server's are open from the start.
ASSUME OpenOnceAssumption ==
  \A s \in Scenarios : s["open"] <= (IF StartState = "None" THEN 1 ELSE 0)
ASSUME PolicyAssumption == Policies \subseteq {"Bypass", "Batch", "Drain"}
ASSUME CapAssumption == CoalesceCap \in Nat \ {0} /\ WireCap \in Nat \ {0}

Client == StartState = "None"

VARIABLES
  state,     \* state_, an atomic word
  op,        \* OPEN handshake, open_retry_mutex_
  cf,        \* the one TUNNEL_CLOSE, close_frame_mutex_
  er,        \* the one terminal TUNNEL_ERROR, coalesce_mutex_ (two flags are atomics)
  co,        \* outbound FIFO and close bookkeeping, coalesce_mutex_
  drv,       \* the local variables of the running emission driver; pc "idle" iff ~driver_active_
  mx,        \* outbound gate, id hook, TCP socket, mutex_
  once,      \* resources_released_ and close_notified_, exchanged atomically
  man,       \* the manager's side: map entry, id, posted removal, object lifetime
  emitted,   \* total_bytes_emitted_
  accepted,  \* total_bytes_sent_: bytes admitted from TCP, numbered 1, 2, ...
  wire,      \* frames the transport has accepted, oldest first
  timers,    \* timers armed with their current epoch
  todo,      \* the remaining steps of each actor
  left,      \* what may still happen in the chosen scenario
  started    \* the outside events that have happened

vars == <<state, op, cf, er, co, drv, mx, once, man, emitted, accepted, wire,
          timers, todo, left, started>>

----------------------------------------------------------------------------
States == {"None", "Connecting", "Connected", "Disconnecting", "Closed", "Error"}
Terminal == {"Closed", "Error"}
Established == {"Connected", "Disconnecting"}
OpenPhases == {"Pending", "Sending", "Sent", "Abandoned", "Failed"}
CloseFrameStates == {"NotOwed", "Owed", "InFlight", "Resolved", "Abandoned"}
Outcomes == {"Sent", "SendqFull", "PermanentFail"}
FrameKinds == {"OPEN", "DATA", "CLOSE", "ERROR", "ACK"}

Frames == [kind : FrameKinds, from : Nat, to : Nat]
Control(k) == [kind |-> k, from |-> 0, to |-> 0]
Data(i, n) == [kind |-> "DATA", from |-> i, to |-> i + n - 1]
OnWire(k) == \E i \in DOMAIN wire : wire[i].kind = k

Steps == {"open", "attemptOpen", "openSnapshot", "openTransport",
          "openSent", "openFull", "openFail", "armOpenRetry", "armDeadline",
          "rollback", "resetPhase", "retryOpen", "retryFailed",
          "driveAll", "driveFull", "driveFullArm", "drive", "armClose", "armError",
          "emitClose", "abandonClose", "maybeRelease", "releaseId", "cancelClose",
          "close", "closeHandshake", "closeCas", "closeConnected",
          "emitCloseAndTransition", "casDisconnecting",
          "finalizeRemote", "notifyClose", "timeoutClose", "linger", "lingerClosed",
          "forceClose", "forceCloseDrain", "expire",
          "own", "ownDrain", "ownClaimed", "ownAnnounce", "flushTail",
          "fence", "fenceDrain", "takeFinalizer", "dropSocket", "drainSocket",
          "sendError", "failLocally", "errorState", "arriveTransport",
          "arriveTransportDeferred", "arriveProducer", "finalizer",
          "remove", "setHook", "teardown", "closeAll", "abandonAll",
          "teardownAll", "teardownAbandon", "abandonLate", "closeAllLocal", "gate",
          "rxAck", "ackConnect", "rxClose", "rxError", "ack", "ackSnapshot", "ackTransport",
          "tcpData", "append", "eof", "eofStream", "reset", "hangup"}

----------------------------------------------------------------------------
(* Control: what actor a does now, and what it does next. *)

Doing(a, s) == todo[a] # <<>> /\ Head(todo[a]) = s
Then(a, steps) == todo' = [todo EXCEPT ![a] = steps \o Tail(@)]
If(b, s) == IF b THEN <<s>> ELSE <<>>

\* The transport (ToxAdapter behind the friend's send gate) takes the frame,
\* reports SENDQ full, or rejects it for good.
Transport(out, f) ==
  \/ out = "Sent" /\ wire' = Append(wire, f) /\ left' = left
  \/ out = "SendqFull" /\ left["full"] > 0 /\ wire' = wire
     /\ left' = [left EXCEPT !["full"] = @ - 1]
  \/ out = "PermanentFail" /\ left["fail"] > 0 /\ wire' = wire
     /\ left' = [left EXCEPT !["fail"] = @ - 1]

----------------------------------------------------------------------------
(* Helpers named after the functions they translate; each takes and        *)
(* returns the record its mutex guards.                                    *)

\* note_close_owed_locked()
NoteCloseOwed(c) ==
  IF c.frame # "NotOwed" THEN c
  ELSE [c EXCEPT !.frame = IF c.cancelled THEN "Abandoned" ELSE "Owed"]

\* Mutant: the abort forgets to drop the queued cohorts.
PublishAbortKeeps(c) ==
  [c EXCEPT !.abort = TRUE, !.closing = FALSE, !.closingFull = FALSE, !.remotePending = FALSE]

\* publish_abort_locked()
PublishAbort(c) ==
  [c EXCEPT !.abort = TRUE, !.fifo = <<>>, !.closing = FALSE,
            !.closingFull = FALSE, !.remotePending = FALSE]

\* settle_error_for_shutdown_locked(): the slot survives only inside an attempt.
SettleErrorForShutdown(e) ==
  [e EXCEPT !.cancelled = TRUE, !.armed = FALSE, !.slot = e.slot /\ e.sending]
ParkedError(e) == e.slot /\ ~e.sending

\* Mutant: a terminal state alone frees the id, whatever frame is still owed.
IdReleasableEarly == ~er.fence /\ state \in Terminal

\* id_releasable_locked()
IdReleasable ==
  /\ ~er.fence
  /\ \/ cf.frame = "Resolved"
     \/ cf.frame \in {"NotOwed", "Abandoned"} /\ state \in Terminal

\* abort_teardown_required()
AbortTeardownRequired == state \notin {"Connecting", "Connected"} \/ co.abort

\* The driver's admission tests, and control_obligation_eligible_locked().
ErrorEligible == er.slot /\ ~er.armed /\ ~er.sending
CloseEligible == cf.req /\ cf.frame = "Owed" /\ ~cf.cancelled /\ ~er.claimed
ControlEligible == (ErrorEligible /\ ~er.cancelled) \/ CloseEligible

\* cancel_open_retry_locked(): the phase decides who owes the TUNNEL_CLOSE.
CancelOpenRetry(o) ==
  [o EXCEPT !.abandon = TRUE,
            !.phase = IF @ = "Pending" THEN "Abandoned" ELSE @,
            !.owed = @ \/ o.phase = "Sending"]
DeferCloseToSender(o, c) == IF o.phase = "Sending" THEN NoteCloseOwed(c) ELSE c

\* emit_local_close_only(): our half of a half-close.
EmitLocalClose == <<"emitClose", "casDisconnecting">>

\* No driver is running.
NoDriver == [owner |-> "app", pc |-> "idle", kind |-> "none", from |-> 0, n |-> 0,
             out |-> "Sent", arm |-> TRUE]

\* Mutant: a backpressured FIFO is left without a timer.
ArmCoalesceNever(q) == timers

\* coalesce_arm_timer_locked() for the FIFO q.
ArmCoalesce(q) == IF q = <<>> THEN timers ELSE timers \cup {"coalesce"}

\* notify_state_change(): every state but Connecting disarms the OPEN deadline.
DisarmDeadline == timers \ {"deadline"}

\* Somebody holds a strong reference to the TunnelImpl.
Referenced ==
  \/ man.present \/ left["open"] > 0
  \/ \E a \in Actors : todo[a] # <<>>
  \/ timers \cap StrongTimers # {}
============================================================================
