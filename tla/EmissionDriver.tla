--------------------------- MODULE EmissionDriver ---------------------------
(***************************************************************************)
(* The one emitter of DATA, CLOSE and ERROR: run_emission_driver(), what   *)
(* its producers deposit for it, and the SENDQ retries that restart it.    *)
(***************************************************************************)
EXTENDS TunnelState

Active == drv.pc # "idle"
Driving(a, pc) == Doing(a, "drive") /\ drv.owner = a /\ drv.pc = pc
Idle == NoDriver
Selecting == [NoDriver EXCEPT !.pc = "select", !.owner = drv.owner, !.arm = drv.arm]

\* The front cohort: how many bytes at the front were admitted under one cap.
FrontPending(q) ==
  Cardinality({n \in 1 .. Len(q) : \A i \in 1 .. n : q[i].cap = q[1].cap})

\* How much of the front cohort the next frame takes; 0 leaves a remainder.
FrameBytes(c) ==
  IF FrontPending(c.fifo) >= c.fifo[1].cap THEN c.fifo[1].cap
  ELSE IF c.flush THEN FrontPending(c.fifo) ELSE 0

\* Mutant: an off-by-one in the consumed count.
ConsumeOneMore(q, n) == IF Len(q) <= n + 1 THEN <<>> ELSE SubSeq(q, n + 2, Len(q))

\* front.consumed += frame_bytes, unless an abort emptied the FIFO meanwhile.
Consume(q, n) == IF Len(q) <= n THEN <<>> ELSE SubSeq(q, n + 1, Len(q))

\* run_emission_driver(), entry: latch a flush request, or become the emitter.
Drive(a) ==
  /\ \E s \in {"driveAll", "driveFull", "driveFullArm"} :
       /\ Doing(a, s)
       /\ co' = [co EXCEPT !.flush = @ \/ s = "driveAll"]
       /\ IF Active
          THEN drv' = drv /\ Then(a, <<>>)
          ELSE /\ drv' = [Selecting EXCEPT !.owner = a, !.arm = s # "driveFull"]
               /\ Then(a, <<"drive">>)
  /\ UNCHANGED <<state, op, cf, er, mx, once, man, emitted, accepted, wire, timers, left, started>>

\* Selection: the terminal ERROR is ahead of everything.
SelectError(a) ==
  /\ Driving(a, "select")
  /\ ErrorEligible
  /\ er' = [er EXCEPT !.sending = TRUE]
  /\ drv' = [drv EXCEPT !.pc = "snapshot", !.kind = "ERROR"]
  /\ UNCHANGED <<state, op, cf, co, mx, once, man, emitted, accepted, wire, timers, todo, left, started>>

\* Selection: a full frame, or what is pending if a flush was requested.
SelectData(a) ==
  /\ Driving(a, "select")
  /\ ~ErrorEligible /\ co.fifo # <<>> /\ FrameBytes(co) > 0
  /\ drv' = [drv EXCEPT !.pc = "authorise", !.kind = "DATA",
                        !.from = co.fifo[1].id, !.n = FrameBytes(co)]
  /\ UNCHANGED <<state, op, cf, er, co, mx, once, man, emitted, accepted, wire, timers, todo, left, started>>

\* Selection: a sub-cap remainder waits for its timer; the driver leaves unless
\* a producer has already latched a control frame and is about to request a flush.
LeaveRemainder(a) ==
  /\ Driving(a, "select")
  /\ ~ErrorEligible /\ co.fifo # <<>> /\ FrameBytes(co) = 0
  /\ timers' = IF drv.arm THEN ArmCoalesce(co.fifo) ELSE timers
  /\ IF ControlEligible
     THEN UNCHANGED <<drv, todo>>
     ELSE drv' = Idle /\ Then(a, <<>>)
  /\ UNCHANGED <<state, op, cf, er, co, mx, once, man, emitted, accepted, wire, left, started>>

\* Selection: the requested CLOSE, only behind an empty FIFO.
SelectClose(a) ==
  /\ Driving(a, "select")
  /\ ~ErrorEligible /\ co.fifo = <<>> /\ CloseEligible
  /\ cf' = [cf EXCEPT !.frame = "InFlight", !.req = FALSE]
  /\ drv' = [drv EXCEPT !.pc = "snapshot", !.kind = "CLOSE"]
  /\ UNCHANGED <<state, op, er, co, mx, once, man, emitted, accepted, wire, timers, todo, left, started>>

\* Nothing left: hand the deferred close bookkeeping to the calls after the loop.
DrainComplete(a) ==
  LET full == co.closing /\ co.closingFull
      local == co.closing /\ ~co.closingFull /\ ~co.closeSent
      finalize == IF full THEN co.remotePending
                  ELSE IF local THEN co.remoteSeen
                  ELSE co.remotePending /\ co.streamDone
  IN /\ Driving(a, "select")
     /\ ~ErrorEligible /\ co.fifo = <<>> /\ ~CloseEligible
     /\ co' = [co EXCEPT !.closing = FALSE, !.closingFull = FALSE, !.remotePending = FALSE,
                         !.closeSent = @ \/ local, !.streamDone = @ \/ local, !.flush = FALSE]
     /\ drv' = Idle
     /\ Then(a, If(full, "emitCloseAndTransition") \o (IF local THEN EmitLocalClose ELSE <<>>)
                \o If(finalize, "finalizeRemote"))
     /\ UNCHANGED <<state, op, cf, er, mx, once, man, emitted, accepted, wire, timers, left, started>>

\* The last look at the abort seal before a DATA frame is handed over.
AuthoriseData(a) ==
  /\ Driving(a, "authorise")
  /\ IF ~co.abort
     THEN /\ emitted' = emitted + drv.n
          /\ drv' = [drv EXCEPT !.pc = "snapshot"]
          /\ UNCHANGED <<co, todo>>
     ELSE /\ emitted' = emitted
          /\ IF ControlEligible
             THEN drv' = Selecting /\ UNCHANGED <<co, todo>>
             ELSE drv' = Idle /\ co' = [co EXCEPT !.flush = FALSE] /\ Then(a, <<>>)
  /\ UNCHANGED <<state, op, cf, er, mx, once, man, accepted, wire, timers, left, started>>

\* OutboundSnapshot: a closed gate discards the frame and reports Sent.
Snapshot(a) ==
  /\ Driving(a, "snapshot")
  /\ drv' = IF mx.gate THEN [drv EXCEPT !.pc = "commit", !.out = "Sent"]
            ELSE [drv EXCEPT !.pc = "transport"]
  /\ UNCHANGED <<state, op, cf, er, co, mx, once, man, emitted, accepted, wire, timers, todo, left, started>>

\* The send callback, outside every lock.
Send(a) ==
  /\ Driving(a, "transport")
  /\ \E out \in Outcomes :
       /\ Transport(out, IF drv.kind = "DATA" THEN Data(drv.from, drv.n) ELSE Control(drv.kind))
       /\ drv' = [drv EXCEPT !.pc = "commit", !.out = out]
  /\ UNCHANGED <<state, op, cf, er, co, mx, once, man, emitted, accepted, timers, todo, started>>

\* ERROR verdict: SENDQ full parks it for its timer, anything else settles it.
CommitError(a) ==
  /\ Driving(a, "commit") /\ drv.kind = "ERROR"
  /\ IF drv.out = "SendqFull" /\ ~er.cancelled
     THEN /\ er' = [er EXCEPT !.sending = FALSE, !.armed = TRUE]
          /\ co' = [co EXCEPT !.flush = FALSE]
          /\ drv' = Idle
          /\ Then(a, <<"armError">>)
     ELSE /\ er' = [er EXCEPT !.sending = FALSE, !.slot = FALSE]
          /\ co' = co
          /\ drv' = Selecting
          /\ Then(a, <<"arriveTransport", "drive">>)
  /\ UNCHANGED <<state, op, cf, mx, once, man, emitted, accepted, wire, timers, left, started>>

\* CLOSE verdict, fenced by a cancellation or by a terminal ERROR.
CommitClose(a) ==
  /\ Driving(a, "commit") /\ drv.kind = "CLOSE"
  /\ IF cf.cancelled \/ er.claimed
     THEN /\ cf' = [cf EXCEPT !.frame = IF drv.out = "Sent" THEN "Resolved" ELSE "Abandoned"]
          /\ Then(a, <<"maybeRelease", "drive">>)
     ELSE IF drv.out = "SendqFull"
     THEN /\ cf' = [cf EXCEPT !.frame = "Owed", !.armed = TRUE]
          /\ Then(a, <<"armClose", "drive">>)
     ELSE /\ cf' = [cf EXCEPT !.frame = "Resolved"]
          /\ Then(a, <<"maybeRelease", "drive">>)
  /\ drv' = Selecting
  /\ UNCHANGED <<state, op, er, co, mx, once, man, emitted, accepted, wire, timers, left, started>>

\* Mutant: the undo of a failed send subtracts one byte too many.
CommitDataOverUndo(a) ==
  /\ Driving(a, "commit") /\ drv.kind = "DATA"
  /\ IF drv.out = "Sent"
     THEN /\ co' = [co EXCEPT !.fifo = Consume(@, drv.n)]
          /\ drv' = Selecting
          /\ UNCHANGED <<emitted, timers, todo>>
     ELSE /\ emitted' = emitted - drv.n - 1
          /\ timers' = ArmCoalesce(co.fifo)
          /\ drv' = Idle /\ co' = [co EXCEPT !.flush = FALSE] /\ Then(a, <<>>)
  /\ UNCHANGED <<state, op, cf, er, mx, once, man, accepted, wire, left, started>>

\* DATA verdict: consume what was sent, or keep it and ride the retry timer.
CommitData(a) ==
  /\ Driving(a, "commit") /\ drv.kind = "DATA"
  /\ IF drv.out = "Sent"
     THEN /\ co' = [co EXCEPT !.fifo = Consume(@, drv.n)]
          /\ drv' = Selecting
          /\ UNCHANGED <<emitted, timers, todo>>
     ELSE /\ emitted' = emitted - drv.n
          /\ timers' = ArmCoalesce(co.fifo)
          /\ IF ErrorEligible /\ ~er.cancelled
             THEN drv' = Selecting /\ UNCHANGED <<co, todo>>
             ELSE drv' = Idle /\ co' = [co EXCEPT !.flush = FALSE] /\ Then(a, <<>>)
  /\ UNCHANGED <<state, op, cf, er, mx, once, man, accepted, wire, left, started>>

\* Mutants: a backpressured CLOSE or ERROR is parked without its timer.
ArmCloseNever(a) ==
  /\ Doing(a, "armClose")
  /\ Then(a, <<>>)
  /\ UNCHANGED <<state, op, cf, er, co, drv, mx, once, man, emitted, accepted, wire, timers, left, started>>

ArmErrorNever(a) ==
  /\ Doing(a, "armError")
  /\ Then(a, <<>>)
  /\ UNCHANGED <<state, op, cf, er, co, drv, mx, once, man, emitted, accepted, wire, timers, left, started>>

\* arm_close_retry_timer() and arm_error_retry_timer(): not if fenced meanwhile.
ArmClose(a) ==
  /\ Doing(a, "armClose")
  /\ timers' = IF cf.armed /\ ~cf.cancelled /\ cf.frame = "Owed"
               THEN timers \cup {"close"} ELSE timers
  /\ Then(a, <<>>)
  /\ UNCHANGED <<state, op, cf, er, co, drv, mx, once, man, emitted, accepted, wire, left, started>>

ArmError(a) ==
  /\ Doing(a, "armError")
  /\ timers' = IF er.armed /\ ~er.cancelled /\ er.slot
               THEN timers \cup {"error"} ELSE timers
  /\ Then(a, <<>>)
  /\ UNCHANGED <<state, op, cf, er, co, drv, mx, once, man, emitted, accepted, wire, left, started>>

----------------------------------------------------------------------------
(* What producers deposit. *)

\* emit_close_frame_once(): request the one CLOSE, then kick the driver.
EmitClose(a) ==
  /\ Doing(a, "emitClose")
  /\ IF cf.cancelled \/ er.claimed \/ cf.frame \notin {"NotOwed", "Owed"} \/ cf.req \/ cf.armed
     THEN cf' = cf /\ Then(a, <<>>)
     ELSE /\ cf' = [cf EXCEPT !.frame = "Owed", !.req = TRUE]
          /\ Then(a, <<"driveAll">>)
  /\ UNCHANGED <<state, op, er, co, drv, mx, once, man, emitted, accepted, wire, timers, left, started>>

\* on_tcp_data_received() and send_data_to_tox(): the lock-free admission test.
TcpData(a) ==
  /\ Doing(a, "tcpData")
  /\ Then(a, If(state = "Connected" /\ ~co.abort, "append"))
  /\ UNCHANGED <<state, op, cf, er, co, drv, mx, once, man, emitted, accepted, wire, timers, left, started>>

\* send_data_to_tox(): the authoritative test and the append are one section.
AppendBytes(a) ==
  /\ Doing(a, "append")
  /\ IF co.abort
     THEN UNCHANGED <<co, accepted, timers>> /\ Then(a, <<>>)
     ELSE \E p \in Policies :
            LET byte == [id |-> accepted + 1,
                         cap |-> IF p = "Bypass" THEN WireCap ELSE CoalesceCap]
            IN /\ co' = [co EXCEPT !.fifo = Append(@, byte)]
               /\ accepted' = accepted + 1
               /\ timers' = IF p = "Batch" THEN timers \cup {"coalesce"} ELSE timers
               /\ Then(a, CASE p = "Bypass" -> <<"driveAll">>
                            [] p = "Drain" -> <<"driveFull">>
                            [] p = "Batch" -> <<"driveFullArm">>)
  /\ UNCHANGED <<state, op, cf, er, drv, mx, once, man, emitted, wire, left, started>>

DriverStep(a) ==
  \/ Drive(a) \/ SelectError(a) \/ SelectData(a) \/ LeaveRemainder(a) \/ SelectClose(a)
  \/ DrainComplete(a) \/ AuthoriseData(a) \/ Snapshot(a) \/ Send(a)
  \/ CommitError(a) \/ CommitClose(a) \/ CommitData(a) \/ ArmClose(a) \/ ArmError(a)
  \/ EmitClose(a) \/ TcpData(a) \/ AppendBytes(a)
============================================================================
