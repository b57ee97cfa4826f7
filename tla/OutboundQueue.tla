--------------------------- MODULE OutboundQueue ---------------------------
(* The retry queue of TunnelManager: control frames (PING, PONG, INFO,       *)
(* RESUME, "tunnel not found" ERRORs) that toxcore refuses with SENDQ-full   *)
(* are parked in FIFO order and retried by a timer, while every other sender *)
(* keeps behind them.  A frame is named by its sender.  Three kinds of       *)
(* sender: "control" (send_frame: parks), "typed" (send_frame_typed: keeps   *)
(* its frame) and "driver" (the per-tunnel senders of an OPEN, OPEN_ACK or   *)
(* DATA, whose driver re-offers the frame).  The transport answers "Sent",   *)
(* "Full" or "Fail"; budget bounds its faults and the invalidations.         *)
EXTENDS Integers, Sequences, SequencesExt, FiniteSets

CONSTANTS Senders,    \* one frame each
          Kind,       \* [Senders -> {"control", "typed", "driver"}]
          Drains,     \* drain handlers that may be running at once
          MaxPending  \* kMaxPendingOutbound

ASSUME QueueAssumption == /\ Kind \in [Senders -> {"control", "typed", "driver"}]
                          /\ MaxPending \in Nat \ {0}

VARIABLES
  q,       \* what pending_mutex_ guards
  gate,    \* send_gate_closed_, under handler_mutex_
  timer,   \* pending_drain_timer_: the epoch its wait captured, or NoWait
  dr,      \* the drain handlers
  snd,     \* the senders
  clr,     \* clear_pending_outbound(): "idle" or about to "cancel" the timer
  mut,     \* close_all_local(): "idle", "mute", "cancel", "gate", "detach", "done"
  wire,    \* frames toxcore accepted, in order
  dropped, \* frames an invalidation found parked
  passed,  \* pairs <<f, g>>: g went out while f, parked before g started, had not
  budget   \* how often each event may still happen

queueVars == <<q, gate, timer, dr, snd, clr, mut, wire, dropped, passed, budget>>

NoWait == -1
Idle == [pc |-> "idle", epoch |-> 0, frame |-> <<>>]

InDrains == UNION {ToSet(dr[d].frame) : d \in Drains}
Unsent == ToSet(q.items) \cup InDrains

Spend(e) == budget[e] > 0 /\ budget' = [budget EXCEPT ![e] = @ - 1]

\* What a frame handed to the transport may meet.
Verdict(v) == \/ v = "Sent" /\ UNCHANGED budget
              \/ v = "Full" /\ Spend("full")
              \/ v = "Fail" /\ Spend("fail")

QueueInit(budgets) ==
  /\ q = [items |-> <<>>, armed |-> FALSE, epoch |-> 0, inflight |-> FALSE, muted |-> FALSE]
  /\ gate = FALSE
  /\ timer = NoWait
  /\ dr = [d \in Drains |-> Idle]
  /\ snd = [s \in Senders |-> [pc |-> "off", before |-> {}]]
  /\ clr = "idle" /\ mut = "idle"
  /\ wire = <<>> /\ dropped = {} /\ passed = {}
  /\ budget \in budgets

----------------------------------------------------------------------------
(* The queue operations, each under pending_mutex_. *)

\* Mutant: only the deque counts, not the frame a drain has popped.
deque_busy(x) == x.items /= <<>>

outbound_queue_busy(x) == x.items /= <<>> \/ x.inflight

\* arm_pending_drain_timer_locked on the queue x: one wait is enough, and
\* expires_after replaces a wait still pending.
arm(x) == IF x.armed \/ x.items = <<>> \/ x.muted
          THEN q' = x /\ UNCHANGED timer
          ELSE q' = [x EXCEPT !.armed = TRUE] /\ timer' = x.epoch

Enqueue(f) == arm([q EXCEPT !.items = Append(@, f)])

----------------------------------------------------------------------------
(* Senders. *)

\* Whose frame a refusal leaves with its owner (driver_owns_retry,
\* route_sendq_full), and who waits behind the queue instead of joining it
\* (frame_must_respect_outbound_barrier and the senders' rule for DATA).
KeepsFrame(s) == Kind[s] /= "control"

Goto(s, pc) == snd' = [snd EXCEPT ![s].pc = pc]

\* The entry mute check and SendSnapshot: the gate test and the handler copy
\* are one step.  A per-tunnel driver has its tunnel's gate instead.
SendStart(s) ==
  /\ snd[s].pc = "new"
  /\ snd' = [snd EXCEPT ![s] =
       [pc     |-> IF Kind[s] /= "driver" /\ (q.muted \/ gate) THEN "failed" ELSE "barrier",
        before |-> Unsent]]
  /\ UNCHANGED <<q, gate, timer, dr, clr, mut, wire, dropped, passed, budget>>

\* The FIFO barrier: park behind what is parked or mid-drain, or report
\* SENDQ-full and be offered again.
SendBarrier(s) ==
  /\ snd[s].pc = "barrier"
  /\ IF q.muted /\ Kind[s] /= "driver"
     THEN Goto(s, "failed") /\ UNCHANGED <<q, timer>>
     ELSE IF ~outbound_queue_busy(q)
     THEN Goto(s, IF Kind[s] = "driver" THEN "call" ELSE "recheck") /\ UNCHANGED <<q, timer>>
     ELSE IF KeepsFrame(s)
     THEN Goto(s, "new") /\ UNCHANGED <<q, timer>>
     ELSE IF Len(q.items) >= MaxPending
     THEN Goto(s, "failed") /\ UNCHANGED <<q, timer>>
     ELSE Enqueue(s) /\ Goto(s, "parked")
  /\ UNCHANGED <<gate, dr, clr, mut, wire, dropped, passed, budget>>

\* The last look at the mute, outside the mutex.
SendRecheck(s) ==
  /\ snd[s].pc = "recheck"
  /\ Goto(s, IF q.muted THEN "failed" ELSE "call")
  /\ UNCHANGED <<q, gate, timer, dr, clr, mut, wire, dropped, passed, budget>>

\* handler(wire), no lock held.  route_sendq_full hands a SENDQ-full verdict
\* back verbatim to the owner of a driver frame.
SendCall(s) ==
  /\ snd[s].pc = "call"
  /\ \E v \in {"Sent", "Full", "Fail"} :
       /\ Verdict(v)
       /\ wire' = IF v = "Sent" THEN Append(wire, s) ELSE wire
       /\ passed' = IF v = "Sent" THEN passed \cup ((snd[s].before \cap Unsent) \X {s}) ELSE passed
       /\ Goto(s, CASE v = "Sent" -> "sent"
                    [] v = "Fail" -> "failed"
                    [] v = "Full" -> IF KeepsFrame(s) THEN "new" ELSE "park")
  /\ UNCHANGED <<q, gate, timer, dr, clr, mut, dropped>>

\* After the refusal: the mutex again, the mute again, the cap again
\* (send_frame_impl's tail and queue_outbound_for_retry).
SendPark(s) ==
  /\ snd[s].pc = "park"
  /\ IF q.muted \/ Len(q.items) >= MaxPending
     THEN Goto(s, "failed") /\ UNCHANGED <<q, timer>>
     ELSE Enqueue(s) /\ Goto(s, "parked")
  /\ UNCHANGED <<gate, dr, clr, mut, wire, dropped, passed, budget>>

----------------------------------------------------------------------------
(* The drain: drain_pending_outbound(armed_epoch). *)

DrainGoto(d, pc) == dr' = [dr EXCEPT ![d].pc = pc]

\* The timer's wait completes and its handler is dispatched.
DrainFire(d) ==
  /\ timer /= NoWait /\ dr[d].pc = "idle"
  /\ dr' = [dr EXCEPT ![d] = [pc |-> "enter", epoch |-> timer, frame |-> <<>>]]
  /\ timer' = NoWait
  /\ UNCHANGED <<q, gate, snd, clr, mut, wire, dropped, passed, budget>>

\* One SendSnapshot for the whole drain.
DrainEnter(d) ==
  /\ dr[d].pc = "enter"
  /\ IF gate
     THEN q' = [q EXCEPT !.items = <<>>, !.armed = FALSE] /\ dr' = [dr EXCEPT ![d] = Idle]
     ELSE DrainGoto(d, "pop") /\ UNCHANGED q
  /\ UNCHANGED <<gate, timer, snd, clr, mut, wire, dropped, passed, budget>>

\* The locked head of the loop: provenance, mute, empty, else pop one frame
\* and keep the barrier closed.
DrainPop(d) ==
  /\ dr[d].pc = "pop"
  /\ IF dr[d].epoch /= q.epoch
     THEN q' = [q EXCEPT !.armed = FALSE] /\ dr' = [dr EXCEPT ![d] = Idle]
     ELSE IF q.muted \/ q.items = <<>>
     THEN q' = [q EXCEPT !.items = <<>>, !.armed = FALSE] /\ dr' = [dr EXCEPT ![d] = Idle]
     ELSE /\ q' = [q EXCEPT !.items = Tail(@), !.inflight = TRUE]
          /\ dr' = [dr EXCEPT ![d].pc = "check", ![d].frame = <<Head(q.items)>>]
  /\ UNCHANGED <<gate, timer, snd, clr, mut, wire, dropped, passed, budget>>

\* The mute once more, then the transport, without a lock.
DrainCheck(d) ==
  /\ dr[d].pc = "check"
  /\ dr' = [dr EXCEPT ![d] = IF q.muted THEN [@ EXCEPT !.pc = "leave", !.frame = <<>>]
                                        ELSE [@ EXCEPT !.pc = "call"]]
  /\ UNCHANGED <<q, gate, timer, snd, clr, mut, wire, dropped, passed, budget>>

DrainCall(d) ==
  /\ dr[d].pc = "call"
  /\ \E v \in {"Sent", "Full", "Fail"} :
       /\ Verdict(v)
       /\ wire' = IF v = "Sent" THEN wire \o dr[d].frame ELSE wire
       /\ dr' = [dr EXCEPT ![d] = IF v = "Full" THEN [@ EXCEPT !.pc = "requeue"]
                                  ELSE [@ EXCEPT !.pc = "next", !.frame = <<>>]]
  /\ UNCHANGED <<q, gate, timer, snd, clr, mut, dropped, passed>>

\* Mutant: the frame goes back but the armed flag is left standing.
DrainRequeueUnarmed(d) ==
  /\ dr[d].pc = "requeue"
  /\ q' = [q EXCEPT !.items = dr[d].frame \o @]
  /\ dr' = [dr EXCEPT ![d].pc = "leave", ![d].frame = <<>>]
  /\ UNCHANGED <<gate, timer, snd, clr, mut, wire, dropped, passed, budget>>

\* SENDQ still full: back to the front and re-armed, unless the queue was
\* invalidated meanwhile.  (The mute is not looked at.)
DrainRequeue(d) ==
  /\ dr[d].pc = "requeue"
  /\ IF dr[d].epoch /= q.epoch
     THEN q' = [q EXCEPT !.armed = FALSE] /\ UNCHANGED timer
     ELSE arm([q EXCEPT !.items = dr[d].frame \o @, !.armed = FALSE])
  /\ dr' = [dr EXCEPT ![d].pc = "leave", ![d].frame = <<>>]
  /\ UNCHANGED <<gate, snd, clr, mut, wire, dropped, passed, budget>>

\* ~DrainInFlightGuard, at the end of every iteration.
DrainGuard(d) ==
  /\ dr[d].pc \in {"next", "leave"}
  /\ q' = [q EXCEPT !.inflight = FALSE]
  /\ dr' = [dr EXCEPT ![d] = IF @.pc = "next" THEN [@ EXCEPT !.pc = "pop"] ELSE Idle]
  /\ UNCHANGED <<gate, timer, snd, clr, mut, wire, dropped, passed, budget>>

----------------------------------------------------------------------------
(* Invalidation. *)

\* clear_pending_outbound(): the client's disconnect or endpoint switch.  The
\* queue is emptied and its epoch retired under the mutex ...
Clear ==
  /\ clr = "idle" /\ Spend("clear")
  /\ q' = [q EXCEPT !.items = <<>>, !.armed = FALSE, !.epoch = @ + 1]
  /\ dropped' = dropped \cup ToSet(q.items)
  /\ clr' = "cancel"
  /\ UNCHANGED <<gate, timer, dr, snd, mut, wire, passed>>

\* ... and the timer is cancelled after the unlock, whatever it waits for now.
ClearCancel ==
  /\ clr = "cancel"
  /\ timer' = NoWait /\ clr' = "idle"
  /\ UNCHANGED <<q, gate, dr, snd, mut, wire, dropped, passed, budget>>

\* close_all_local() steps 2 and 3: mute and empty in one critical section,
\* cancel the timer, close the gate.
Mute ==
  /\ mut = "mute"
  /\ q' = [q EXCEPT !.muted = TRUE, !.items = <<>>, !.armed = FALSE]
  /\ dropped' = dropped \cup ToSet(q.items)
  /\ mut' = "cancel"
  /\ UNCHANGED <<gate, timer, dr, snd, clr, wire, passed, budget>>

MuteCancel ==
  /\ mut = "cancel"
  /\ timer' = NoWait /\ mut' = "gate"
  /\ UNCHANGED <<q, gate, dr, snd, clr, wire, dropped, passed, budget>>

MuteGate ==
  /\ mut = "gate"
  /\ gate' = TRUE /\ mut' = "detach"
  /\ UNCHANGED <<q, timer, dr, snd, clr, wire, dropped, passed, budget>>
============================================================================
