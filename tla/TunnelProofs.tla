--------------------------- MODULE TunnelProofs ---------------------------
(***************************************************************************)
(* Tunnel, in three parts.  Types: one lemma per component and one case    *)
(* per action, first the stack of the acting thread, then each record the  *)
(* action writes.  Types alone are not inductive: the undo of a failed     *)
(* DATA frame needs InFlightCounted, the frame itself needs KindKnown.     *)
(* Then the stream: a tunnel implements OutboundStream.  StreamInv is      *)
(* inductive: a step of anybody but the driver moves the CLOSE, the ERROR  *)
(* and the seal only forward (Forward below), which StreamInv survives     *)
(* whatever frame the driver holds; the driver's own steps are taken one   *)
(* by one.  Last the ending: EndInv says of everything an ending still     *)
(* needs (the close callback, the settlement of the ERROR, the hook that   *)
(* frees the id) who is going to do it; EarlyInv says the same of a        *)
(* client's tunnel that is removed before it was opened.                   *)
(***************************************************************************)
EXTENDS TunnelInvariant, SequenceTheorems, FiniteSetTheorems, TLAPS

TodoOK == todo \in [Actors -> Seq(Steps)]

\* A step replaces itself by the calls it makes: the stacks stay stacks of steps.
LEMMA ThenType ==
  ASSUME TodoOK, NEW a \in Actors, NEW s \in Seq(Steps), todo[a] # <<>>, Then(a, s)
  PROVE  TodoOK'
<1>1. Tail(todo[a]) \in Seq(Steps)
  BY HeadTailProperties DEF TodoOK
<1>2. s \o Tail(todo[a]) \in Seq(Steps)
  BY <1>1, ConcatProperties
<1> QED BY <1>2 DEF TodoOK, Then

\* A conditional call is a stack of at most one step.
LEMMA IfType == \A b, s : s \in Steps => If(b, s) \in Seq(Steps)
BY DEF If

\* Calls made one after the other form a stack.
LEMMA ConcatType == \A p, q \in Seq(Steps) : p \o q \in Seq(Steps)
BY ConcatProperties

\* note_close_owed_locked() keeps the CLOSE record well-formed.
LEMMA NoteType == \A c \in CloseRecord : NoteCloseOwed(c) \in CloseRecord
BY DEF CloseRecord, NoteCloseOwed, CloseFrameStates

\* So does publish_abort_locked() the outbound record ...
LEMMA AbortType == \A c \in OutboundRecord : PublishAbort(c) \in OutboundRecord
<1>1. <<>> \in Seq(Bytes)
  OBVIOUS
<1> QED BY <1>1 DEF OutboundRecord, PublishAbort

\* ... and settle_error_for_shutdown_locked() the ERROR record ...
LEMMA SettleType == \A e \in ErrorRecord : SettleErrorForShutdown(e) \in ErrorRecord
BY DEF ErrorRecord, SettleErrorForShutdown

\* ... and claim_terminal_error().
LEMMA ClaimType ==
  \A e \in ErrorRecord, d \in BOOLEAN : ClaimTerminalError(e, d) \in ErrorRecord
BY DEF ErrorRecord, ClaimTerminalError

\* cancel_open_retry_locked() keeps the handshake record well-formed ...
LEMMA CancelOpenType == \A o \in OpenRecord : CancelOpenRetry(o) \in OpenRecord
BY DEF OpenRecord, OpenPhases, CancelOpenRetry

\* ... and so does leaving the CLOSE to the sender of the OPEN.
LEMMA DeferType ==
  \A o \in OpenRecord, c \in CloseRecord : DeferCloseToSender(o, c) \in CloseRecord
BY NoteType DEF DeferCloseToSender

\* The front cohort of a non-empty FIFO has a byte and at most all of them.
LEMMA FrontPendingBound ==
  ASSUME NEW q \in Seq(Bytes), q # <<>>
  PROVE  FrontPending(q) \in 1 .. Len(q)
<1> DEFINE F == {n \in 1 .. Len(q) : \A i \in 1 .. n : q[i].cap = q[1].cap}
<1>1. Len(q) \in Nat \ {0}
  BY EmptySeq, LenProperties
<1>2. IsFiniteSet(1 .. Len(q)) /\ Cardinality(1 .. Len(q)) = Len(q)
  BY <1>1, FS_Interval
<1>3. IsFiniteSet(F) /\ Cardinality(F) \in Nat /\ Cardinality(F) <= Len(q)
  BY <1>2, FS_Subset, FS_CardinalityType
<1>4. 1 \in F
  BY <1>1
<1>5. Cardinality(F) # 0
  BY <1>3, <1>4, FS_EmptySet
<1> QED BY <1>1, <1>3, <1>5 DEF FrontPending

\* Consuming a frame leaves a FIFO.
LEMMA ConsumeType ==
  ASSUME NEW q \in Seq(Bytes), NEW n \in Nat
  PROVE  Consume(q, n) \in Seq(Bytes)
BY SubSeqProperties, LenProperties DEF Consume

\* The transport takes a frame or spends a fault of the scenario.
LEMMA TransportType ==
  ASSUME wire \in Seq(Frames), left \in Budget,
         NEW out \in Outcomes, NEW f \in Frames, Transport(out, f)
  PROVE  wire' \in Seq(Frames) /\ left' \in Budget
BY DEF Transport, Budget, Faults

\* The driver at rest, and between two frames.
LEMMA IdleType == Idle \in DriverRecord /\ Idle.pc = "idle" /\ Idle.kind = "none"
BY DEF Idle, NoDriver, DriverRecord, Actors, Outcomes

\* The driver about to choose its next frame keeps its owner and mode.
LEMMA SelectingType ==
  ASSUME drv \in DriverRecord
  PROVE  Selecting \in DriverRecord /\ Selecting.pc = "select" /\ Selecting.kind = "none"
BY DEF Selecting, NoDriver, DriverRecord, Outcomes

\* The OPEN handshake keeps the types.
LEMMA HandshakeType ==
  ASSUME TypeOK, NEW a \in Actors, HandshakeStep(a)
  PROVE  TypeOK'
<1>1. CASE Open(a)
  <2>1. /\ <<"remove">> \in Seq(Steps)
        /\ <<"attemptOpen">> \in Seq(Steps)
        /\ todo[a] # <<>>
    BY <1>1 DEF Steps, Doing, Open
  <2>2. TodoOK'
    BY <1>1, <2>1, ThenType DEF TypeOK, TodoOK, Open
  <2>3. state' \in States
    BY <1>1 DEF TypeOK, Open, States
  <2>4. op' \in OpenRecord
    BY <1>1 DEF TypeOK, Open, OpenRecord, OpenPhases
  <2> QED BY <1>1, <2>2, <2>3, <2>4 DEF TypeOK, TodoOK, Open
<1>2. CASE AttemptOpen(a)
  <2>1. /\ If(a = "app", "remove") \in Seq(Steps)
        /\ <<"openSnapshot">> \in Seq(Steps)
        /\ todo[a] # <<>>
    BY <1>2, IfType DEF Steps, Doing, AttemptOpen
  <2>2. TodoOK'
    BY <1>2, <2>1, ThenType DEF TypeOK, TodoOK, AttemptOpen
  <2>3. op' \in OpenRecord
    BY <1>2 DEF TypeOK, AttemptOpen, OpenRecord, OpenPhases
  <2> QED BY <1>2, <2>2, <2>3 DEF TypeOK, TodoOK, AttemptOpen
<1>3. CASE OpenSnapshot(a)
  <2>1. /\ <<"openTransport">> \in Seq(Steps)
        /\ <<"openSent">> \in Seq(Steps)
        /\ todo[a] # <<>>
    BY <1>3 DEF Steps, Doing, OpenSnapshot
  <2>2. TodoOK'
    BY <1>3, <2>1, ThenType DEF TypeOK, TodoOK, OpenSnapshot
  <2> QED BY <1>3, <2>2 DEF TypeOK, TodoOK, OpenSnapshot
<1>4. CASE OpenTransport(a)
  <2>1. /\ <<"openFail">> \in Seq(Steps)
        /\ <<"openFull">> \in Seq(Steps)
        /\ <<"openSent">> \in Seq(Steps)
        /\ todo[a] # <<>>
    BY <1>4 DEF Steps, Doing, OpenTransport
  <2>2. TodoOK'
    BY <1>4, <2>1, ThenType DEF TypeOK, TodoOK, OpenTransport, Outcomes
  <2>3. wire' \in Seq(Frames) /\ left' \in Budget
    <3>1. \E out \in Outcomes : Transport(out, Control("OPEN"))
      BY <1>4 DEF OpenTransport
    <3>2. Control("OPEN") \in Frames
      BY DEF Frames, FrameKinds, Control
    <3> QED BY <3>1, <3>2, TransportType DEF TypeOK
  <2> QED BY <1>4, <2>2, <2>3 DEF TypeOK, TodoOK, OpenTransport
<1>5. CASE OpenSent(a)
  <2>1. /\ If(a = "app", "armDeadline") \in Seq(Steps)
        /\ If(a = "app", "remove") \in Seq(Steps)
        /\ <<"emitClose">> \in Seq(Steps)
        /\ todo[a] # <<>>
    BY <1>5, IfType DEF Steps, Doing, OpenSent
  <2>2. TodoOK'
    BY <1>5, <2>1, ConcatType, ThenType DEF TypeOK, TodoOK, OpenSent
  <2>3. op' \in OpenRecord
    BY <1>5 DEF TypeOK, OpenSent, OpenRecord, OpenPhases
  <2> QED BY <1>5, <2>2, <2>3 DEF TypeOK, TodoOK, OpenSent
<1>6. CASE OpenFull(a)
  <2>1. /\ If(a = "app", "armDeadline") \in Seq(Steps)
        /\ If(~op.abandon, "armOpenRetry") \in Seq(Steps)
        /\ If(op.owed, "abandonClose") \in Seq(Steps)
        /\ todo[a] # <<>>
    BY <1>6, IfType DEF Steps, Doing, OpenFull
  <2>2. TodoOK'
    BY <1>6, <2>1, ConcatType, ThenType DEF TypeOK, TodoOK, OpenFull
  <2>3. op' \in OpenRecord
    BY <1>6 DEF TypeOK, OpenFull, OpenRecord, OpenPhases
  <2> QED BY <1>6, <2>2, <2>3 DEF TypeOK, TodoOK, OpenFull
<1>7. CASE OpenFail(a)
  <2>1. /\ <<"retryFailed">> \in Seq(Steps)
        /\ <<"rollback", "remove">> \in Seq(Steps)
        /\ If(a = "app", "remove") \in Seq(Steps)
        /\ If(op.owed, "abandonClose") \in Seq(Steps)
        /\ todo[a] # <<>>
    BY <1>7, IfType DEF Steps, Doing, OpenFail
  <2>2. TodoOK'
    BY <1>7, <2>1, ConcatType, ThenType DEF TypeOK, TodoOK, OpenFail
  <2>3. op' \in OpenRecord
    BY <1>7 DEF TypeOK, OpenFail, OpenRecord, OpenPhases
  <2> QED BY <1>7, <2>2, <2>3 DEF TypeOK, TodoOK, OpenFail
<1>8. CASE ArmOpenRetry(a)
  <2>1. <<>> \in Seq(Steps) /\ todo[a] # <<>>
    BY <1>8 DEF Steps, Doing, ArmOpenRetry
  <2>2. TodoOK'
    BY <1>8, <2>1, ThenType DEF TypeOK, TodoOK, ArmOpenRetry
  <2>3. timers' \subseteq Timers
    BY <1>8 DEF TypeOK, ArmOpenRetry, Timers, DisarmDeadline
  <2> QED BY <1>8, <2>2, <2>3 DEF TypeOK, TodoOK, ArmOpenRetry
<1>9. CASE ArmDeadline(a)
  <2>1. <<>> \in Seq(Steps) /\ todo[a] # <<>>
    BY <1>9 DEF Steps, Doing, ArmDeadline
  <2>2. TodoOK'
    BY <1>9, <2>1, ThenType DEF TypeOK, TodoOK, ArmDeadline
  <2>3. timers' \subseteq Timers
    BY <1>9 DEF TypeOK, ArmDeadline, Timers, DisarmDeadline
  <2> QED BY <1>9, <2>2, <2>3 DEF TypeOK, TodoOK, ArmDeadline
<1>10. CASE Rollback(a)
  <2>1. /\ <<>> \in Seq(Steps)
        /\ <<"maybeRelease", "resetPhase">> \in Seq(Steps)
        /\ todo[a] # <<>>
    BY <1>10 DEF Steps, Doing, Rollback
  <2>2. TodoOK'
    BY <1>10, <2>1, ThenType DEF TypeOK, TodoOK, Rollback
  <2>3. state' \in States
    BY <1>10 DEF TypeOK, Rollback, States
  <2>4. timers' \subseteq Timers
    BY <1>10 DEF TypeOK, Rollback, Timers, DisarmDeadline
  <2> QED BY <1>10, <2>2, <2>3, <2>4 DEF TypeOK, TodoOK, Rollback
<1>11. CASE ResetPhase(a)
  <2>1. <<>> \in Seq(Steps) /\ todo[a] # <<>>
    BY <1>11 DEF Steps, Doing, ResetPhase
  <2>2. TodoOK'
    BY <1>11, <2>1, ThenType DEF TypeOK, TodoOK, ResetPhase
  <2>3. op' \in OpenRecord
    BY <1>11 DEF TypeOK, ResetPhase, OpenRecord, OpenPhases
  <2> QED BY <1>11, <2>2, <2>3 DEF TypeOK, TodoOK, ResetPhase
<1>12. CASE RetryOpen(a)
  <2>1. If(state = "Connecting" /\ ~mx.gate, "attemptOpen") \in Seq(Steps) /\ todo[a] # <<>>
    BY <1>12, IfType DEF Steps, Doing, RetryOpen
  <2>2. TodoOK'
    BY <1>12, <2>1, ThenType DEF TypeOK, TodoOK, RetryOpen
  <2> QED BY <1>12, <2>2 DEF TypeOK, TodoOK, RetryOpen
<1>13. CASE RetryFailed(a)
  <2>1. /\ <<>> \in Seq(Steps)
        /\ <<"maybeRelease", "notifyClose">> \in Seq(Steps)
        /\ todo[a] # <<>>
    BY <1>13 DEF Steps, Doing, RetryFailed
  <2>2. TodoOK'
    BY <1>13, <2>1, ThenType DEF TypeOK, TodoOK, RetryFailed
  <2>3. state' \in States
    BY <1>13 DEF TypeOK, RetryFailed, States
  <2>4. timers' \subseteq Timers
    BY <1>13 DEF TypeOK, RetryFailed, Timers, DisarmDeadline
  <2> QED BY <1>13, <2>2, <2>3, <2>4 DEF TypeOK, TodoOK, RetryFailed
<1>14. CASE RxAck(a)
  <2>1. If(state = "Connecting", "ackConnect") \in Seq(Steps) /\ todo[a] # <<>>
    BY <1>14, IfType DEF Steps, Doing, RxAck
  <2>2. TodoOK'
    BY <1>14, <2>1, ThenType DEF TypeOK, TodoOK, RxAck
  <2> QED BY <1>14, <2>2 DEF TypeOK, TodoOK, RxAck
<1>15. CASE AckConnect(a)
  <2>1. /\ <<"maybeRelease">> \in Seq(Steps)
        /\ <<>> \in Seq(Steps)
        /\ todo[a] # <<>>
    BY <1>15 DEF Steps, Doing, AckConnect
  <2>2. TodoOK'
    BY <1>15, <2>1, ThenType DEF TypeOK, TodoOK, AckConnect
  <2>3. state' \in States
    BY <1>15 DEF TypeOK, AckConnect, States
  <2>4. timers' \subseteq Timers
    BY <1>15 DEF TypeOK, AckConnect, Timers, DisarmDeadline
  <2> QED BY <1>15, <2>2, <2>3, <2>4 DEF TypeOK, TodoOK, AckConnect
<1> QED BY <1>1, <1>2, <1>3, <1>4, <1>5, <1>6, <1>7, <1>8, <1>9, <1>10, <1>11, <1>12, <1>13,
       <1>14, <1>15 DEF HandshakeStep

\* The emission driver and its producers keep the types.
LEMMA DriverType ==
  ASSUME TypeOK, DriverOK, NEW a \in Actors, DriverStep(a)
  PROVE  TypeOK'
<1>1. CASE Drive(a)
  <2>1. /\ <<"drive">> \in Seq(Steps)
        /\ <<>> \in Seq(Steps)
        /\ todo[a] # <<>>
    BY <1>1 DEF Steps, Doing, Drive
  <2>2. TodoOK'
    BY <1>1, <2>1, ThenType DEF TypeOK, TodoOK, Drive
  <2>3. co' \in OutboundRecord
    BY <1>1 DEF TypeOK, Drive, OutboundRecord
  <2>4. drv' \in DriverRecord
    BY <1>1, IdleType, SelectingType DEF TypeOK, Drive, DriverRecord
  <2> QED BY <1>1, <2>2, <2>3, <2>4 DEF TypeOK, TodoOK, Drive
<1>2. CASE SelectError(a)
  <2>1. er' \in ErrorRecord
    BY <1>2 DEF TypeOK, SelectError, ErrorRecord
  <2>2. drv' \in DriverRecord
    BY <1>2 DEF TypeOK, SelectError, DriverRecord
  <2> QED BY <1>2, <2>1, <2>2 DEF TypeOK, TodoOK, SelectError
<1>3. CASE SelectData(a)
  <2>1. FrameBytes(co) \in Nat /\ co.fifo[1].id \in Nat
    <3>1. co.fifo \in Seq(Bytes) /\ co.fifo # <<>> /\ co.fifo[1] \in Bytes
      BY <1>3, EmptySeq, LenProperties, ElementOfSeq DEF TypeOK, OutboundRecord, SelectData
    <3>2. FrontPending(co.fifo) \in Nat
      BY <3>1, FrontPendingBound, LenProperties
    <3> QED BY <3>1, <3>2 DEF FrameBytes, Bytes
  <2>2. drv' \in DriverRecord
    BY <1>3, <2>1 DEF TypeOK, SelectData, DriverRecord
  <2> QED BY <1>3, <2>2 DEF TypeOK, TodoOK, SelectData
<1>4. CASE LeaveRemainder(a)
  <2>1. <<>> \in Seq(Steps) /\ todo[a] # <<>>
    BY <1>4 DEF Steps, Doing, Driving, LeaveRemainder
  <2>2. TodoOK'
    BY <1>4, <2>1, ThenType DEF TypeOK, TodoOK, LeaveRemainder
  <2>3. drv' \in DriverRecord
    BY <1>4, IdleType, SelectingType DEF TypeOK, LeaveRemainder, DriverRecord
  <2>4. timers' \subseteq Timers
    BY <1>4 DEF TypeOK, LeaveRemainder, Timers, ArmCoalesce
  <2> QED BY <1>4, <2>2, <2>3, <2>4 DEF TypeOK, TodoOK, LeaveRemainder
<1>5. CASE SelectClose(a)
  <2>1. cf' \in CloseRecord
    BY <1>5 DEF TypeOK, SelectClose, CloseRecord, CloseFrameStates
  <2>2. drv' \in DriverRecord
    BY <1>5 DEF TypeOK, SelectClose, DriverRecord
  <2> QED BY <1>5, <2>1, <2>2 DEF TypeOK, TodoOK, SelectClose
<1>6. CASE DrainComplete(a)
  <2>1. /\ \A b : If(b, "finalizeRemote") \in Seq(Steps)
        /\ \A b : If(b, "emitCloseAndTransition") \in Seq(Steps)
        /\ EmitLocalClose \in Seq(Steps)
        /\ <<>> \in Seq(Steps)
        /\ todo[a] # <<>>
    BY <1>6, IfType DEF Steps, Doing, Driving, DrainComplete, EmitLocalClose
  <2>2. TodoOK'
    BY <1>6, <2>1, ConcatType, ThenType DEF TypeOK, TodoOK, DrainComplete
  <2>3. co' \in OutboundRecord
    BY <1>6 DEF TypeOK, DrainComplete, OutboundRecord
  <2>4. drv' \in DriverRecord
    BY <1>6, IdleType, SelectingType DEF TypeOK, DrainComplete, DriverRecord
  <2> QED BY <1>6, <2>2, <2>3, <2>4 DEF TypeOK, TodoOK, DrainComplete
<1>7. CASE AuthoriseData(a)
  <2>1. <<>> \in Seq(Steps) /\ todo[a] # <<>>
    BY <1>7 DEF Steps, Doing, Driving, AuthoriseData
  <2>2. TodoOK'
    BY <1>7, <2>1, ThenType DEF TypeOK, TodoOK, AuthoriseData
  <2>3. co' \in OutboundRecord
    BY <1>7 DEF TypeOK, AuthoriseData, OutboundRecord
  <2>4. drv' \in DriverRecord
    BY <1>7, IdleType, SelectingType DEF TypeOK, AuthoriseData, DriverRecord
  <2>5. emitted' \in Nat
    BY <1>7 DEF TypeOK, AuthoriseData, DriverRecord
  <2> QED BY <1>7, <2>2, <2>3, <2>4, <2>5 DEF TypeOK, TodoOK, AuthoriseData
<1>8. CASE Snapshot(a)
  <2>1. drv' \in DriverRecord
    BY <1>8 DEF TypeOK, Snapshot, DriverRecord, Outcomes
  <2> QED BY <1>8, <2>1 DEF TypeOK, TodoOK, Snapshot
<1>9. CASE Send(a)
  <2>1. drv.from \in Nat /\ drv.n \in Nat /\ drv.kind \in {"DATA", "CLOSE", "ERROR"}
    BY <1>9 DEF TypeOK, DriverRecord, DriverOK, KindKnown, Send, Driving
  <2>2. drv.kind = "DATA" => drv.n >= 1
    BY DEF DriverOK, KindKnown
  <2>3. drv.kind = "DATA" => Data(drv.from, drv.n) \in Frames
    BY <2>1, <2>2 DEF Data, Frames, FrameKinds
  <2>4. Control(drv.kind) \in Frames
    BY <2>1 DEF Control, Frames, FrameKinds
  <2>5. PICK out \in Outcomes :
          /\ Transport(out, IF drv.kind = "DATA" THEN Data(drv.from, drv.n) ELSE Control(drv.kind))
          /\ drv' = [drv EXCEPT !.pc = "commit", !.out = out]
    BY <1>9 DEF Send
  <2>6. (IF drv.kind = "DATA" THEN Data(drv.from, drv.n) ELSE Control(drv.kind)) \in Frames
    BY <2>3, <2>4
  <2>7. wire' \in Seq(Frames) /\ left' \in Budget
    BY <2>5, <2>6, TransportType DEF TypeOK
  <2>8. drv' \in DriverRecord
    BY <2>5 DEF TypeOK, DriverRecord
  <2> QED BY <1>9, <2>7, <2>8 DEF TypeOK, TodoOK, Send
<1>10. CASE CommitError(a)
  <2>1. /\ <<"arriveTransport", "drive">> \in Seq(Steps)
        /\ <<"armError">> \in Seq(Steps)
        /\ todo[a] # <<>>
    BY <1>10 DEF Steps, Doing, Driving, CommitError
  <2>2. TodoOK'
    BY <1>10, <2>1, ThenType DEF TypeOK, TodoOK, CommitError
  <2>3. er' \in ErrorRecord
    BY <1>10 DEF TypeOK, CommitError, ErrorRecord
  <2>4. co' \in OutboundRecord
    BY <1>10 DEF TypeOK, CommitError, OutboundRecord
  <2>5. drv' \in DriverRecord
    BY <1>10, IdleType, SelectingType DEF TypeOK, CommitError, DriverRecord
  <2> QED BY <1>10, <2>2, <2>3, <2>4, <2>5 DEF TypeOK, TodoOK, CommitError
<1>11. CASE CommitClose(a)
  <2>1. /\ <<"armClose", "drive">> \in Seq(Steps)
        /\ <<"maybeRelease", "drive">> \in Seq(Steps)
        /\ todo[a] # <<>>
    BY <1>11 DEF Steps, Doing, Driving, CommitClose
  <2>2. TodoOK'
    BY <1>11, <2>1, ThenType DEF TypeOK, TodoOK, CommitClose
  <2>3. cf' \in CloseRecord
    BY <1>11 DEF TypeOK, CommitClose, CloseRecord, CloseFrameStates
  <2>4. drv' \in DriverRecord
    BY <1>11, IdleType, SelectingType DEF TypeOK, CommitClose, DriverRecord
  <2> QED BY <1>11, <2>2, <2>3, <2>4 DEF TypeOK, TodoOK, CommitClose
<1>12. CASE CommitData(a)
  <2>1. <<>> \in Seq(Steps) /\ todo[a] # <<>>
    BY <1>12 DEF Steps, Doing, Driving, CommitData
  <2>2. TodoOK'
    BY <1>12, <2>1, ThenType DEF TypeOK, TodoOK, CommitData
  <2>3. co' \in OutboundRecord
    <3>1. Consume(co.fifo, drv.n) \in Seq(Bytes)
      BY ConsumeType DEF TypeOK, OutboundRecord, DriverRecord
    <3>2. co' \in {co, [co EXCEPT !.flush = FALSE], [co EXCEPT !.fifo = Consume(co.fifo, drv.n)]}
      BY <1>12 DEF CommitData
    <3> QED BY <3>1, <3>2 DEF TypeOK, OutboundRecord
  <2>4. drv' \in DriverRecord
    BY <1>12, IdleType, SelectingType DEF TypeOK, CommitData, DriverRecord
  <2>5. emitted' \in Nat
    <3>1. emitted \in Nat /\ drv.n \in Nat /\ emitted >= drv.n
      BY <1>12 DEF TypeOK, CommitData, DriverRecord, DriverOK, InFlightCounted, Holding, Driving
    <3>2. emitted' \in {emitted, emitted - drv.n}
      BY <1>12 DEF CommitData
    <3> QED BY <3>1, <3>2
  <2>6. timers' \subseteq Timers
    BY <1>12 DEF TypeOK, CommitData, Timers, ArmCoalesce
  <2> QED BY <1>12, <2>2, <2>3, <2>4, <2>5, <2>6 DEF TypeOK, TodoOK, CommitData
<1>13. CASE ArmClose(a)
  <2>1. <<>> \in Seq(Steps) /\ todo[a] # <<>>
    BY <1>13 DEF Steps, Doing, ArmClose
  <2>2. TodoOK'
    BY <1>13, <2>1, ThenType DEF TypeOK, TodoOK, ArmClose
  <2>3. timers' \subseteq Timers
    BY <1>13 DEF TypeOK, ArmClose, Timers
  <2> QED BY <1>13, <2>2, <2>3 DEF TypeOK, TodoOK, ArmClose
<1>14. CASE ArmError(a)
  <2>1. <<>> \in Seq(Steps) /\ todo[a] # <<>>
    BY <1>14 DEF Steps, Doing, ArmError
  <2>2. TodoOK'
    BY <1>14, <2>1, ThenType DEF TypeOK, TodoOK, ArmError
  <2>3. timers' \subseteq Timers
    BY <1>14 DEF TypeOK, ArmError, Timers
  <2> QED BY <1>14, <2>2, <2>3 DEF TypeOK, TodoOK, ArmError
<1>15. CASE EmitClose(a)
  <2>1. /\ <<"driveAll">> \in Seq(Steps)
        /\ <<>> \in Seq(Steps)
        /\ todo[a] # <<>>
    BY <1>15 DEF Steps, Doing, EmitClose
  <2>2. TodoOK'
    BY <1>15, <2>1, ThenType DEF TypeOK, TodoOK, EmitClose
  <2>3. cf' \in CloseRecord
    BY <1>15 DEF TypeOK, EmitClose, CloseRecord, CloseFrameStates
  <2> QED BY <1>15, <2>2, <2>3 DEF TypeOK, TodoOK, EmitClose
<1>16. CASE TcpData(a)
  <2>1. If(state = "Connected" /\ ~co.abort, "append") \in Seq(Steps) /\ todo[a] # <<>>
    BY <1>16, IfType DEF Steps, Doing, TcpData
  <2>2. TodoOK'
    BY <1>16, <2>1, ThenType DEF TypeOK, TodoOK, TcpData
  <2> QED BY <1>16, <2>2 DEF TypeOK, TodoOK, TcpData
<1>17. CASE AppendBytes(a)
  <2>1. /\ <<"driveFullArm">> \in Seq(Steps)
        /\ <<"driveFull">> \in Seq(Steps)
        /\ <<"driveAll">> \in Seq(Steps)
        /\ <<>> \in Seq(Steps)
        /\ todo[a] # <<>>
    BY <1>17 DEF Steps, Doing, AppendBytes
  <2>2. TodoOK'
    BY <1>17, <2>1, ThenType, PolicyAssumption DEF TypeOK, TodoOK, AppendBytes
  <2>3. co' \in OutboundRecord /\ accepted' \in Nat
    <3>1. CASE co.abort
      BY <1>17, <3>1 DEF TypeOK, AppendBytes
    <3>2. CASE ~co.abort
      <4>1. PICK c \in {WireCap, CoalesceCap} :
              co' = [co EXCEPT !.fifo = Append(@, [id |-> accepted + 1, cap |-> c])]
        BY <1>17, <3>2 DEF AppendBytes
      <4>2. accepted' = accepted + 1 /\ accepted \in Nat
        BY <1>17, <3>2 DEF TypeOK, AppendBytes
      <4>3. [id |-> accepted + 1, cap |-> c] \in Bytes
        BY <4>2, CapAssumption DEF Bytes
      <4>4. Append(co.fifo, [id |-> accepted + 1, cap |-> c]) \in Seq(Bytes)
        BY <4>3 DEF TypeOK, OutboundRecord
      <4>5. co' \in OutboundRecord
      BY <4>1, <4>4 DEF TypeOK, OutboundRecord
    <4> QED BY <4>2, <4>5
    <3> QED BY <3>1, <3>2
  <2>4. timers' \subseteq Timers
    BY <1>17 DEF TypeOK, AppendBytes, Timers
  <2> QED BY <1>17, <2>2, <2>3, <2>4 DEF TypeOK, TodoOK, AppendBytes
<1> QED BY <1>1, <1>2, <1>3, <1>4, <1>5, <1>6, <1>7, <1>8, <1>9, <1>10, <1>11, <1>12, <1>13,
       <1>14, <1>15, <1>16, <1>17 DEF DriverStep

\* Every way to end a tunnel keeps the types.
LEMMA TeardownType ==
  ASSUME TypeOK, NEW a \in Actors, TeardownStep(a)
  PROVE  TypeOK'
<1>1. CASE AbandonClose(a)
  <2>1. If(cf.frame = "Owed", "maybeRelease") \in Seq(Steps) /\ todo[a] # <<>>
    BY <1>1, IfType DEF Steps, Doing, AbandonClose
  <2>2. TodoOK'
    BY <1>1, <2>1, ThenType DEF TypeOK, TodoOK, AbandonClose
  <2>3. cf' \in CloseRecord
    BY <1>1 DEF TypeOK, AbandonClose, CloseRecord, CloseFrameStates
  <2> QED BY <1>1, <2>2, <2>3 DEF TypeOK, TodoOK, AbandonClose
<1>2. CASE CancelClose(a)
  <2>1. <<"maybeRelease">> \in Seq(Steps) /\ todo[a] # <<>>
    BY <1>2 DEF Steps, Doing, CancelClose
  <2>2. TodoOK'
    BY <1>2, <2>1, ThenType DEF TypeOK, TodoOK, CancelClose
  <2>3. cf' \in CloseRecord
    BY <1>2 DEF TypeOK, CancelClose, CloseRecord, CloseFrameStates
  <2>4. timers' \subseteq Timers
    BY <1>2 DEF TypeOK, CancelClose, Timers, DisarmDeadline
  <2> QED BY <1>2, <2>2, <2>3, <2>4 DEF TypeOK, TodoOK, CancelClose
<1>3. CASE MaybeRelease(a)
  <2>1. If(IdReleasable, "releaseId") \in Seq(Steps) /\ todo[a] # <<>>
    BY <1>3, IfType DEF Steps, Doing, MaybeRelease
  <2>2. TodoOK'
    BY <1>3, <2>1, ThenType DEF TypeOK, TodoOK, MaybeRelease
  <2> QED BY <1>3, <2>2 DEF TypeOK, TodoOK, MaybeRelease
<1>4. CASE ReleaseId(a)
  <2>1. <<>> \in Seq(Steps) /\ todo[a] # <<>>
    BY <1>4 DEF Steps, Doing, ReleaseId
  <2>2. TodoOK'
    BY <1>4, <2>1, ThenType DEF TypeOK, TodoOK, ReleaseId
  <2>3. mx' \in SocketRecord
    BY <1>4 DEF TypeOK, ReleaseId, SocketRecord
  <2>4. man' \in ManagerRecord
    BY <1>4 DEF TypeOK, ReleaseId, ManagerRecord
  <2> QED BY <1>4, <2>2, <2>3, <2>4 DEF TypeOK, TodoOK, ReleaseId
<1>5. CASE NotifyClose(a)
  <2>1. If(Client /\ ~once.notified, "remove") \in Seq(Steps) /\ todo[a] # <<>>
    BY <1>5, IfType DEF Steps, Doing, NotifyClose
  <2>2. TodoOK'
    BY <1>5, <2>1, ThenType DEF TypeOK, TodoOK, NotifyClose
  <2>3. once' \in OnceRecord
    BY <1>5 DEF TypeOK, NotifyClose, OnceRecord
  <2>4. man' \in ManagerRecord
    BY <1>5 DEF TypeOK, NotifyClose, ManagerRecord
  <2> QED BY <1>5, <2>2, <2>3, <2>4 DEF TypeOK, TodoOK, NotifyClose
<1>6. CASE Close(a)
  <2>1. /\ If(state = "Connected", "closeConnected") \in Seq(Steps)
        /\ If(state = "Connecting", "closeHandshake") \in Seq(Steps)
        /\ <<>> \in Seq(Steps)
        /\ todo[a] # <<>>
    BY <1>6, IfType DEF Steps, Doing, Close
  <2>2. TodoOK'
    BY <1>6, <2>1, ConcatType, ThenType DEF TypeOK, TodoOK, Close
  <2> QED BY <1>6, <2>2 DEF TypeOK, TodoOK, Close
<1>7. CASE CloseHandshake(a)
  <2>1. /\ <<"closeCas">> \in Seq(Steps)
        /\ If(op.phase = "Sent", "emitClose") \in Seq(Steps)
        /\ todo[a] # <<>>
    BY <1>7, IfType DEF Steps, Doing, CloseHandshake
  <2>2. TodoOK'
    BY <1>7, <2>1, ConcatType, ThenType DEF TypeOK, TodoOK, CloseHandshake
  <2>3. op' \in OpenRecord
    BY <1>7, CancelOpenType DEF TypeOK, CloseHandshake
  <2>4. cf' \in CloseRecord
    BY <1>7, DeferType DEF TypeOK, CloseHandshake
  <2>5. timers' \subseteq Timers
    BY <1>7 DEF TypeOK, CloseHandshake, Timers, DisarmDeadline
  <2> QED BY <1>7, <2>2, <2>3, <2>4, <2>5 DEF TypeOK, TodoOK, CloseHandshake
<1>8. CASE CloseCas(a)
  <2>1. /\ <<>> \in Seq(Steps)
        /\ <<"maybeRelease", "notifyClose">> \in Seq(Steps)
        /\ todo[a] # <<>>
    BY <1>8 DEF Steps, Doing, CloseCas
  <2>2. TodoOK'
    BY <1>8, <2>1, ThenType DEF TypeOK, TodoOK, CloseCas
  <2>3. state' \in States
    BY <1>8 DEF TypeOK, CloseCas, States
  <2>4. timers' \subseteq Timers
    BY <1>8 DEF TypeOK, CloseCas, Timers, DisarmDeadline
  <2> QED BY <1>8, <2>2, <2>3, <2>4 DEF TypeOK, TodoOK, CloseCas
<1>9. CASE CloseConnected(a)
  <2>1. /\ <<"emitCloseAndTransition">> \in Seq(Steps)
        /\ <<"driveAll">> \in Seq(Steps)
        /\ todo[a] # <<>>
    BY <1>9 DEF Steps, Doing, CloseConnected
  <2>2. TodoOK'
    BY <1>9, <2>1, ThenType DEF TypeOK, TodoOK, CloseConnected
  <2>3. cf' \in CloseRecord
    BY <1>9, NoteType DEF TypeOK, CloseConnected
  <2>4. co' \in OutboundRecord
    BY <1>9 DEF TypeOK, CloseConnected, OutboundRecord
  <2> QED BY <1>9, <2>2, <2>3, <2>4 DEF TypeOK, TodoOK, CloseConnected
<1>10. CASE EmitCloseAndTransition(a)
  <2>1. /\ <<"casDisconnecting", "maybeRelease", "notifyClose">> \in Seq(Steps)
        /\ If(~co.closeSent, "emitClose") \in Seq(Steps)
        /\ todo[a] # <<>>
    BY <1>10, IfType DEF Steps, Doing, EmitCloseAndTransition
  <2>2. TodoOK'
    BY <1>10, <2>1, ConcatType, ThenType DEF TypeOK, TodoOK, EmitCloseAndTransition
  <2>3. co' \in OutboundRecord
    BY <1>10 DEF TypeOK, EmitCloseAndTransition, OutboundRecord
  <2> QED BY <1>10, <2>2, <2>3 DEF TypeOK, TodoOK, EmitCloseAndTransition
<1>11. CASE CasDisconnecting(a)
  <2>1. If(state = "Connected", "maybeRelease") \in Seq(Steps) /\ todo[a] # <<>>
    BY <1>11, IfType DEF Steps, Doing, CasDisconnecting
  <2>2. TodoOK'
    BY <1>11, <2>1, ThenType DEF TypeOK, TodoOK, CasDisconnecting
  <2>3. state' \in States
    BY <1>11 DEF TypeOK, CasDisconnecting, States
  <2>4. timers' \subseteq Timers
    BY <1>11 DEF TypeOK, CasDisconnecting, Timers, DisarmDeadline
  <2> QED BY <1>11, <2>2, <2>3, <2>4 DEF TypeOK, TodoOK, CasDisconnecting
<1>12. CASE TcpEof(a)
  <2>1. /\ If(state \in Established, "eofStream") \in Seq(Steps)
        /\ If(state = "Connecting", "close") \in Seq(Steps)
        /\ <<>> \in Seq(Steps)
        /\ todo[a] # <<>>
    BY <1>12, IfType DEF Steps, Doing, TcpEof
  <2>2. TodoOK'
    BY <1>12, <2>1, ConcatType, ThenType DEF TypeOK, TodoOK, TcpEof
  <2> QED BY <1>12, <2>2 DEF TypeOK, TodoOK, TcpEof
<1>13. CASE EofStream(a)
  <2>1. /\ If(co.remoteSeen, "finalizeRemote") \in Seq(Steps)
        /\ EmitLocalClose \in Seq(Steps)
        /\ <<>> \in Seq(Steps)
        /\ <<"driveAll">> \in Seq(Steps)
        /\ todo[a] # <<>>
    BY <1>13, IfType DEF Steps, Doing, EofStream, EmitLocalClose
  <2>2. TodoOK'
    BY <1>13, <2>1, ConcatType, ThenType DEF TypeOK, TodoOK, EofStream
  <2>3. co' \in OutboundRecord
    BY <1>13 DEF TypeOK, EofStream, OutboundRecord
  <2> QED BY <1>13, <2>2, <2>3 DEF TypeOK, TodoOK, EofStream
<1>14. CASE RxClose(a)
  <2>1. /\ \A b : If(b, "finalizeRemote") \in Seq(Steps)
        /\ <<"driveAll">> \in Seq(Steps)
        /\ <<>> \in Seq(Steps)
        /\ todo[a] # <<>>
    BY <1>14, IfType DEF Steps, Doing, RxClose
  <2>2. TodoOK'
    BY <1>14, <2>1, ThenType DEF TypeOK, TodoOK, RxClose
  <2>3. co' \in OutboundRecord
    BY <1>14 DEF TypeOK, RxClose, OutboundRecord, SocketRecord
  <2> QED BY <1>14, <2>2, <2>3 DEF TypeOK, TodoOK, RxClose
<1>15. CASE FinalizeRemote(a)
  <2>1. <<"maybeRelease", "notifyClose">> \in Seq(Steps) /\ todo[a] # <<>>
    BY <1>15 DEF Steps, Doing, FinalizeRemote
  <2>2. TodoOK'
    BY <1>15, <2>1, ThenType DEF TypeOK, TodoOK, FinalizeRemote
  <2>3. state' \in States
    BY <1>15 DEF TypeOK, FinalizeRemote, States
  <2>4. timers' \subseteq Timers
    BY <1>15 DEF TypeOK, FinalizeRemote, Timers, DisarmDeadline
  <2> QED BY <1>15, <2>2, <2>3, <2>4 DEF TypeOK, TodoOK, FinalizeRemote
<1>16. CASE RxError(a)
  <2>1. /\ <<"notifyClose">> \in Seq(Steps)
        /\ If(state \notin Terminal, "maybeRelease") \in Seq(Steps)
        /\ todo[a] # <<>>
    BY <1>16, IfType DEF Steps, Doing, RxError
  <2>2. TodoOK'
    BY <1>16, <2>1, ConcatType, ThenType DEF TypeOK, TodoOK, RxError
  <2>3. state' \in States
    BY <1>16 DEF TypeOK, RxError, States
  <2>4. timers' \subseteq Timers
    BY <1>16 DEF TypeOK, RxError, Timers, DisarmDeadline
  <2> QED BY <1>16, <2>2, <2>3, <2>4 DEF TypeOK, TodoOK, RxError
<1>17. CASE ForceClaim(a)
  <2>1. /\ <<"own">> \in Seq(Steps)
        /\ <<"ownDrain">> \in Seq(Steps)
        /\ <<"ownClaimed">> \in Seq(Steps)
        /\ <<"ownAnnounce">> \in Seq(Steps)
        /\ <<>> \in Seq(Steps)
        /\ todo[a] # <<>>
    BY <1>17 DEF Steps, Doing, ForceClaim
  <2>2. TodoOK'
    BY <1>17, <2>1, ThenType DEF TypeOK, TodoOK, ForceClaim
  <2>3. state' \in States
    BY <1>17 DEF TypeOK, ForceClaim, States
  <2>4. op' \in OpenRecord
    BY <1>17, CancelOpenType DEF TypeOK, ForceClaim
  <2>5. cf' \in CloseRecord
    BY <1>17, DeferType, NoteType DEF TypeOK, ForceClaim
  <2>6. timers' \subseteq Timers
    BY <1>17 DEF TypeOK, ForceClaim, Timers, DisarmDeadline
  <2> QED BY <1>17, <2>2, <2>3, <2>4, <2>5, <2>6 DEF TypeOK, TodoOK, ForceClaim
<1>18. CASE ForceOwn(a)
  <2>1. /\ \A b : If(b, "fenceDrain") \in Seq(Steps)
        /\ \A b : If(b, "fence") \in Seq(Steps)
        /\ \A b : If(b, "emitClose") \in Seq(Steps)
        /\ <<"maybeRelease", "notifyClose">> \in Seq(Steps)
        /\ <<"driveAll">> \in Seq(Steps)
        /\ <<"driveAll", "flushTail">> \in Seq(Steps)
        /\ <<>> \in Seq(Steps)
        /\ todo[a] # <<>>
    BY <1>18, IfType DEF Steps, Doing, ForceOwn
  <2>2. TodoOK'
    BY <1>18, <2>1, ConcatType, ThenType DEF TypeOK, TodoOK, ForceOwn
  <2>3. once' \in OnceRecord
    BY <1>18 DEF TypeOK, ForceOwn, OnceRecord
  <2> QED BY <1>18, <2>2, <2>3 DEF TypeOK, TodoOK, ForceOwn
<1>19. CASE FlushTail(a)
  <2>1. <<>> \in Seq(Steps) /\ todo[a] # <<>>
    BY <1>19 DEF Steps, Doing, FlushTail
  <2>2. TodoOK'
    BY <1>19, <2>1, ThenType DEF TypeOK, TodoOK, FlushTail
  <2>3. timers' \subseteq Timers
    BY <1>19 DEF TypeOK, FlushTail, Timers, DisarmDeadline
  <2> QED BY <1>19, <2>2, <2>3 DEF TypeOK, TodoOK, FlushTail
<1>20. CASE Fence(a)
  <2>1. /\ <<"dropSocket">> \in Seq(Steps)
        /\ <<"drainSocket">> \in Seq(Steps)
        /\ <<"takeFinalizer">> \in Seq(Steps)
        /\ If(ParkedError(er), "arriveTransportDeferred") \in Seq(Steps)
        /\ todo[a] # <<>>
    BY <1>20, IfType DEF Steps, Doing, Fence
  <2>2. TodoOK'
    BY <1>20, <2>1, ConcatType, ThenType DEF TypeOK, TodoOK, Fence
  <2>3. er' \in ErrorRecord
    BY <1>20, SettleType DEF TypeOK, Fence
  <2>4. co' \in OutboundRecord
    BY <1>20, AbortType DEF TypeOK, Fence
  <2>5. timers' \subseteq Timers
    BY <1>20 DEF TypeOK, Fence, Timers, DisarmDeadline
  <2> QED BY <1>20, <2>2, <2>3, <2>4, <2>5 DEF TypeOK, TodoOK, Fence
<1>21. CASE DropSocket(a)
  <2>1. <<>> \in Seq(Steps) /\ todo[a] # <<>>
    BY <1>21 DEF Steps, Doing, DropSocket
  <2>2. TodoOK'
    BY <1>21, <2>1, ThenType DEF TypeOK, TodoOK, DropSocket
  <2>3. mx' \in SocketRecord
    BY <1>21 DEF TypeOK, DropSocket, SocketRecord
  <2> QED BY <1>21, <2>2, <2>3 DEF TypeOK, TodoOK, DropSocket
<1>22. CASE SendError(a)
  <2>1. /\ <<"arriveProducer">> \in Seq(Steps)
        /\ <<"errorState">> \in Seq(Steps)
        /\ <<"lingerClosed", "notifyClose">> \in Seq(Steps)
        /\ <<"arriveTransport">> \in Seq(Steps)
        /\ <<"driveAll">> \in Seq(Steps)
        /\ <<>> \in Seq(Steps)
        /\ todo[a] # <<>>
    BY <1>22 DEF Steps, Doing, SendError
  <2>2. TodoOK'
    BY <1>22, <2>1, ConcatType, ThenType DEF TypeOK, TodoOK, SendError
  <2>3. er' \in ErrorRecord
    BY <1>22, ClaimType DEF TypeOK, SendError
  <2>4. co' \in OutboundRecord
    BY <1>22, AbortType DEF TypeOK, SendError
  <2> QED BY <1>22, <2>2, <2>3, <2>4 DEF TypeOK, TodoOK, SendError
<1>23. CASE TerminalState(a)
  <2>1. If(state \notin Terminal, "maybeRelease") \in Seq(Steps) /\ todo[a] # <<>>
    BY <1>23, IfType DEF Steps, Doing, TerminalState
  <2>2. TodoOK'
    BY <1>23, <2>1, ThenType DEF TypeOK, TodoOK, TerminalState
  <2>3. state' \in States
    BY <1>23 DEF TypeOK, TerminalState, States
  <2>4. timers' \subseteq Timers
    BY <1>23 DEF TypeOK, TerminalState, Timers, DisarmDeadline
  <2> QED BY <1>23, <2>2, <2>3, <2>4 DEF TypeOK, TodoOK, TerminalState
<1>24. CASE ArriveParty(a)
  <2>1. \A b : If(b, "finalizer") \in Seq(Steps) /\ todo[a] # <<>>
    BY <1>24, IfType DEF Steps, Doing, ArriveParty
  <2>2. TodoOK'
    BY <1>24, <2>1, ThenType DEF TypeOK, TodoOK, ArriveParty
  <2>3. er' \in ErrorRecord
    BY <1>24 DEF TypeOK, ArriveParty, ErrorRecord
  <2> QED BY <1>24, <2>2, <2>3 DEF TypeOK, TodoOK, ArriveParty
<1>25. CASE Finalizer(a)
  <2>1. <<"cancelClose", "notifyClose">> \in Seq(Steps) /\ todo[a] # <<>>
    BY <1>25 DEF Steps, Doing, Finalizer
  <2>2. TodoOK'
    BY <1>25, <2>1, ThenType DEF TypeOK, TodoOK, Finalizer
  <2>3. er' \in ErrorRecord
    BY <1>25 DEF TypeOK, Finalizer, ErrorRecord
  <2> QED BY <1>25, <2>2, <2>3 DEF TypeOK, TodoOK, Finalizer
<1>26. CASE TakeFinalizer(a)
  <2>1. If(er.finalize, "finalizer") \in Seq(Steps) /\ todo[a] # <<>>
    BY <1>26, IfType DEF Steps, Doing, TakeFinalizer
  <2>2. TodoOK'
    BY <1>26, <2>1, ThenType DEF TypeOK, TodoOK, TakeFinalizer
  <2>3. er' \in ErrorRecord
    BY <1>26 DEF TypeOK, TakeFinalizer, ErrorRecord
  <2> QED BY <1>26, <2>2, <2>3 DEF TypeOK, TodoOK, TakeFinalizer
<1>27. CASE TimeoutClose(a)
  <2>1. /\ <<"close">> \in Seq(Steps)
        /\ <<"linger">> \in Seq(Steps)
        /\ todo[a] # <<>>
    BY <1>27 DEF Steps, Doing, TimeoutClose
  <2>2. TodoOK'
    BY <1>27, <2>1, ThenType DEF TypeOK, TodoOK, TimeoutClose
  <2> QED BY <1>27, <2>2 DEF TypeOK, TodoOK, TimeoutClose
<1>28. CASE RemoveEntry(a)
  <2>1. /\ <<"cancelClose", "gate", "forceClose">> \in Seq(Steps)
        /\ <<"setHook", "teardownAbandon">> \in Seq(Steps)
        /\ <<"setHook", "teardownAll">> \in Seq(Steps)
        /\ <<"setHook", "teardown">> \in Seq(Steps)
        /\ <<>> \in Seq(Steps)
        /\ todo[a] # <<>>
    BY <1>28 DEF Steps, Doing, RemoveEntry
  <2>2. TodoOK'
    BY <1>28, <2>1, ThenType DEF TypeOK, TodoOK, RemoveEntry
  <2>3. man' \in ManagerRecord
    BY <1>28 DEF TypeOK, RemoveEntry, ManagerRecord
  <2> QED BY <1>28, <2>2, <2>3 DEF TypeOK, TodoOK, RemoveEntry
<1>29. CASE SetHook(a)
  <2>1. <<"maybeRelease">> \in Seq(Steps) /\ todo[a] # <<>>
    BY <1>29 DEF Steps, Doing, SetHook
  <2>2. TodoOK'
    BY <1>29, <2>1, ThenType DEF TypeOK, TodoOK, SetHook
  <2>3. mx' \in SocketRecord
    BY <1>29 DEF TypeOK, SetHook, SocketRecord
  <2> QED BY <1>29, <2>2, <2>3 DEF TypeOK, TodoOK, SetHook
<1>30. CASE Teardown(a)
  <2>1. /\ \A b : If(b, "abandonLate") \in Seq(Steps)
        /\ <<"close">> \in Seq(Steps)
        /\ <<"forceClose">> \in Seq(Steps)
        /\ <<"forceCloseDrain">> \in Seq(Steps)
        /\ <<"sendError">> \in Seq(Steps)
        /\ todo[a] # <<>>
    BY <1>30, IfType DEF Steps, Doing, Teardown
  <2>2. TodoOK'
    BY <1>30, <2>1, ConcatType, ThenType DEF TypeOK, TodoOK, Teardown
  <2> QED BY <1>30, <2>2 DEF TypeOK, TodoOK, Teardown
<1>31. CASE AbandonLate(a)
  <2>1. If(state \in Established, "sendError") \in Seq(Steps) /\ todo[a] # <<>>
    BY <1>31, IfType DEF Steps, Doing, AbandonLate
  <2>2. TodoOK'
    BY <1>31, <2>1, ThenType DEF TypeOK, TodoOK, AbandonLate
  <2> QED BY <1>31, <2>2 DEF TypeOK, TodoOK, AbandonLate
<1>32. CASE CloseGate(a)
  <2>1. If(ParkedError(er), "arriveTransportDeferred") \in Seq(Steps) /\ todo[a] # <<>>
    BY <1>32, IfType DEF Steps, Doing, CloseGate
  <2>2. TodoOK'
    BY <1>32, <2>1, ThenType DEF TypeOK, TodoOK, CloseGate
  <2>3. er' \in ErrorRecord
    BY <1>32, SettleType DEF TypeOK, CloseGate
  <2>4. co' \in OutboundRecord
    BY <1>32, AbortType DEF TypeOK, CloseGate
  <2>5. mx' \in SocketRecord
    BY <1>32 DEF TypeOK, CloseGate, SocketRecord
  <2>6. timers' \subseteq Timers
    BY <1>32 DEF TypeOK, CloseGate, Timers, DisarmDeadline
  <2> QED BY <1>32, <2>2, <2>3, <2>4, <2>5, <2>6 DEF TypeOK, TodoOK, CloseGate
<1>33. CASE LocalDisconnect(a)
  <2>1. /\ <<"close">> \in Seq(Steps)
        /\ <<"sendError">> \in Seq(Steps)
        /\ <<>> \in Seq(Steps)
        /\ todo[a] # <<>>
    BY <1>33 DEF Steps, Doing, LocalDisconnect
  <2>2. TodoOK'
    BY <1>33, <2>1, ThenType DEF TypeOK, TodoOK, LocalDisconnect
  <2> QED BY <1>33, <2>2 DEF TypeOK, TodoOK, LocalDisconnect
<1>34. CASE SendAck(a)
  <2>1. If(state \in Established, "ackSnapshot") \in Seq(Steps) /\ todo[a] # <<>>
    BY <1>34, IfType DEF Steps, Doing, SendAck
  <2>2. TodoOK'
    BY <1>34, <2>1, ThenType DEF TypeOK, TodoOK, SendAck
  <2> QED BY <1>34, <2>2 DEF TypeOK, TodoOK, SendAck
<1>35. CASE AckSnapshot(a)
  <2>1. If(~mx.gate, "ackTransport") \in Seq(Steps) /\ todo[a] # <<>>
    BY <1>35, IfType DEF Steps, Doing, AckSnapshot
  <2>2. TodoOK'
    BY <1>35, <2>1, ThenType DEF TypeOK, TodoOK, AckSnapshot
  <2> QED BY <1>35, <2>2 DEF TypeOK, TodoOK, AckSnapshot
<1>36. CASE AckTransport(a)
  <2>1. <<>> \in Seq(Steps) /\ todo[a] # <<>>
    BY <1>36 DEF Steps, Doing, AckTransport
  <2>2. TodoOK'
    BY <1>36, <2>1, ThenType DEF TypeOK, TodoOK, AckTransport
  <2>3. wire' \in Seq(Frames) /\ left' \in Budget
    <3>1. \E out \in Outcomes : Transport(out, Control("ACK"))
      BY <1>36 DEF AckTransport
    <3>2. Control("ACK") \in Frames
      BY DEF Frames, FrameKinds, Control
    <3> QED BY <3>1, <3>2, TransportType DEF TypeOK
  <2>4. timers' \subseteq Timers
    BY <1>36 DEF TypeOK, AckTransport, Timers, DisarmDeadline
  <2> QED BY <1>36, <2>2, <2>3, <2>4 DEF TypeOK, TodoOK, AckTransport
<1> QED BY <1>1, <1>2, <1>3, <1>4, <1>5, <1>6, <1>7, <1>8, <1>9, <1>10, <1>11, <1>12, <1>13,
       <1>14, <1>15, <1>16, <1>17, <1>18, <1>19, <1>20, <1>21, <1>22, <1>23, <1>24, <1>25,
       <1>26, <1>27, <1>28, <1>29, <1>30, <1>31, <1>32, <1>33, <1>34, <1>35, <1>36 DEF
       TeardownStep

----------------------------------------------------------------------------
\* The driver's steps keep its kind and its count of bytes in flight consistent.
LEMMA DriverKnown ==
  ASSUME TypeOK, DriverOK, NEW a \in Actors, DriverStep(a)
  PROVE  DriverOK'
<1>1. ASSUME UNCHANGED <<drv, emitted>> PROVE DriverOK'
  BY <1>1 DEF DriverOK, InFlightCounted, KindKnown, Holding
<1>2. ASSUME drv' = Idle \/ drv' = Selecting PROVE DriverOK'
  BY <1>2, IdleType, SelectingType DEF TypeOK, DriverOK, InFlightCounted, KindKnown, Holding
<1>3. CASE Drive(a)
  <2>1. drv' = drv \/ (drv'.pc = "select" /\ drv'.kind = "none")
    BY <1>3, SelectingType DEF TypeOK, DriverRecord, Drive
  <2>2. emitted' = emitted
    BY <1>3 DEF Drive
  <2> QED BY <1>1, <2>1, <2>2 DEF DriverOK, InFlightCounted, KindKnown, Holding
<1>4. CASE SelectError(a) \/ SelectClose(a)
  <2>1. drv'.pc = "snapshot" /\ drv'.kind \in {"ERROR", "CLOSE"}
    BY <1>4 DEF TypeOK, DriverRecord, SelectError, SelectClose
  <2> QED BY <2>1 DEF DriverOK, InFlightCounted, KindKnown
<1>5. CASE SelectData(a)
  <2>1. drv'.pc = "authorise" /\ drv'.kind = "DATA" /\ drv'.n = FrameBytes(co) /\ FrameBytes(co) > 0
    BY <1>5 DEF TypeOK, DriverRecord, SelectData
  <2>2. TypeOK'
    BY <1>5, DriverType DEF DriverStep
  <2>3. drv'.n >= 1
    BY <2>1, <2>2 DEF TypeOK, DriverRecord
  <2> QED BY <2>1, <2>3 DEF DriverOK, InFlightCounted, KindKnown, Holding
<1>6. CASE LeaveRemainder(a)
  BY <1>1, <1>2, <1>6 DEF LeaveRemainder
<1>7. CASE DrainComplete(a)
  BY <1>2, <1>7 DEF DrainComplete
<1>8. CASE AuthoriseData(a)
  <2>1. CASE co.abort
    BY <1>2, <1>8, <2>1 DEF AuthoriseData
  <2>2. CASE ~co.abort
    <3>1. /\ drv.kind = "DATA" /\ drv.n \in Nat /\ drv.n >= 1 /\ emitted \in Nat
          /\ drv' = [drv EXCEPT !.pc = "snapshot"] /\ emitted' = emitted + drv.n
      BY <1>8, <2>2 DEF AuthoriseData, Driving, TypeOK, DriverRecord, DriverOK, KindKnown
    <3>2. drv'.kind = "DATA" /\ drv'.n = drv.n /\ drv'.pc = "snapshot"
      BY <3>1 DEF TypeOK, DriverRecord
    <3> QED BY <3>1, <3>2 DEF DriverOK, InFlightCounted, KindKnown
  <2> QED BY <2>1, <2>2
<1>9. CASE Snapshot(a) \/ Send(a)
  <2>1. /\ drv'.pc \in {"transport", "commit"} /\ drv'.kind = drv.kind /\ drv'.n = drv.n
        /\ drv.pc \in {"snapshot", "transport"} /\ emitted' = emitted
    BY <1>9 DEF TypeOK, DriverRecord, Snapshot, Send, Driving
  <2> QED BY <2>1 DEF DriverOK, InFlightCounted, KindKnown, Holding
<1>10. CASE CommitError(a)
  BY <1>2, <1>10 DEF CommitError
<1>11. CASE CommitClose(a)
  BY <1>2, <1>11 DEF CommitClose
<1>12. CASE CommitData(a)
  BY <1>2, <1>12 DEF CommitData
<1>13. CASE ArmClose(a) \/ ArmError(a) \/ EmitClose(a) \/ TcpData(a) \/ AppendBytes(a)
  BY <1>1, <1>13 DEF ArmClose, ArmError, EmitClose, TcpData, AppendBytes
<1> QED BY <1>3, <1>4, <1>5, <1>6, <1>7, <1>8, <1>9, <1>10, <1>11, <1>12, <1>13 DEF DriverStep

\* The event that starts a handler.
LEMMA OutsideType ==
  ASSUME TypeOK, NEW o \in Ops, Start(o)
  PROVE  TypeOK'
<1>1. Worker(o) \in Actors
  BY DEF Worker, Actors
<1>2. Handler(o) \in Seq(Steps)
  <2>1. Ops \subseteq Steps \cup {"rxData", "reap"}
    BY DEF Ops, Steps
  <2>2. CASE o \in {"rxData", "reap"}
    <3>1. <<"ack">> \in Seq(Steps) /\ <<"timeoutClose", "remove">> \in Seq(Steps)
      BY DEF Steps
    <3> QED BY <2>2, <3>1 DEF Handler
  <2>3. CASE o \notin {"rxData", "reap"}
    BY <2>1, <2>3 DEF Handler
  <2> QED BY <2>2, <2>3
<1>3. TodoOK'
  BY <1>1, <1>2 DEF TypeOK, TodoOK, Start
<1>4. left' \in Budget
  BY DEF TypeOK, Budget, Start, Faults
<1> QED BY <1>3, <1>4 DEF TypeOK, TodoOK, Start

\* A timer handler starts from a typed state.
LEMMA FireType ==
  ASSUME TypeOK, NEW t \in Timers, Fire(t)
  PROVE  TypeOK'
<1>1. t \in Actors
  BY DEF Actors
<1>2. /\ <<"retryOpen">> \in Seq(Steps) /\ <<"driveAll">> \in Seq(Steps) /\ <<"ack">> \in Seq(Steps)
      /\ \A b : If(b, "expire") \in Seq(Steps) /\ If(b, "driveAll") \in Seq(Steps)
  BY IfType DEF Steps
<1>3. TodoOK'
  BY <1>1, <1>2 DEF TypeOK, TodoOK, Fire, Timers
<1>4. cf' \in CloseRecord
  BY DEF TypeOK, Fire, CloseRecord
<1>5. er' \in ErrorRecord
  BY DEF TypeOK, Fire, ErrorRecord
<1> QED BY <1>3, <1>4, <1>5 DEF TypeOK, TodoOK, Fire

\* The posted removal keeps the types.
LEMMA PostedType ==
  ASSUME TypeOK, RunPosted
  PROVE  TypeOK'
<1>1. TodoOK'
  BY DEF TypeOK, TodoOK, RunPosted, Actors, Steps
<1>2. man' \in ManagerRecord
  BY DEF TypeOK, RunPosted, ManagerRecord
<1> QED BY <1>1, <1>2 DEF TypeOK, TodoOK, RunPosted

\* The destructor keeps the types.
LEMMA DestroyType ==
  ASSUME TypeOK, Destroy
  PROVE  TypeOK'
<1>1. SettleErrorForShutdown(er) \in ErrorRecord
  BY SettleType DEF TypeOK
<1>2. er' \in ErrorRecord
  BY <1>1 DEF Destroy, ErrorRecord
<1>3. cf' \in CloseRecord
  BY DEF TypeOK, Destroy, CloseRecord, CloseFrameStates
<1>4. mx' \in SocketRecord
  BY DEF TypeOK, Destroy, SocketRecord
<1>5. once' \in OnceRecord
  BY DEF TypeOK, Destroy, OnceRecord
<1>6. man' \in ManagerRecord
  BY DEF TypeOK, Destroy, ManagerRecord
<1> QED BY <1>2, <1>3, <1>4, <1>5, <1>6 DEF TypeOK, Destroy

\* Every reachable state of a tunnel is well-typed, for every scenario, policy set
\* and cap: in particular run_emission_driver()'s fetch_sub of a failed DATA frame
\* never underflows total_bytes_emitted_, and every frame it hands over is a
\* non-empty range of bytes or a control frame.
THEOREM TypeCorrect == Spec => []TypeOK
<1> DEFINE TypeInv == TypeOK /\ DriverOK
<1>1. Init => TypeInv
  <2> SUFFICES ASSUME Init PROVE TypeInv
    OBVIOUS
  <2>1. state \in States /\ op \in OpenRecord /\ cf \in CloseRecord /\ er \in ErrorRecord
    BY StartAssumption DEF Init, States, OpenRecord, OpenPhases, CloseRecord, CloseFrameStates, ErrorRecord
  <2>2. co \in OutboundRecord /\ drv \in DriverRecord
    BY IdleType DEF Init, OutboundRecord, Idle
  <2>3. mx \in SocketRecord /\ once \in OnceRecord /\ man \in ManagerRecord
    BY DEF Init, SocketRecord, OnceRecord, ManagerRecord
  <2>4. todo \in [Actors -> Seq(Steps)]
    <3>1. <<>> \in Seq(Steps)
      OBVIOUS
    <3> QED BY <3>1 DEF Init
  <2>5. left \in Budget
    BY ScenarioAssumption DEF Init, Budget
  <2>6. DriverOK
    BY IdleType DEF Init, Idle, DriverOK, InFlightCounted, KindKnown, Holding
  <2> QED BY <2>1, <2>2, <2>3, <2>4, <2>5, <2>6 DEF Init, TypeOK
<1>2. TypeInv /\ [Next]_vars => TypeInv'
  <2> SUFFICES ASSUME TypeOK, DriverOK, [Next]_vars PROVE TypeInv'
    OBVIOUS
  <2>0. ASSUME UNCHANGED <<drv, emitted>> PROVE DriverOK'
    BY <2>0 DEF DriverOK, InFlightCounted, KindKnown, Holding
  <2>1. CASE \E o \in Ops : Start(o)
    BY <2>0, <2>1, OutsideType DEF Start
  <2>2. CASE \E t \in Timers : Fire(t)
    BY <2>0, <2>2, FireType DEF Fire
  <2>3. ASSUME NEW a \in Actors, HandshakeStep(a) PROVE TypeInv'
    <3>1. UNCHANGED <<drv, emitted>>
      BY <2>3 DEF HandshakeStep, Open, AttemptOpen, OpenSnapshot, OpenTransport, OpenSent,
         OpenFull, OpenFail, ArmOpenRetry, ArmDeadline, Rollback, ResetPhase, RetryOpen,
         RetryFailed, RxAck, AckConnect
    <3> QED BY <2>0, <2>3, <3>1, HandshakeType
  <2>4. ASSUME NEW a \in Actors, DriverStep(a) PROVE TypeInv'
    BY <2>4, DriverType, DriverKnown
  <2>5. ASSUME NEW a \in Actors, TeardownStep(a) PROVE TypeInv'
    <3>1. UNCHANGED <<drv, emitted>>
      BY <2>5 DEF TeardownStep, AbandonClose, CancelClose, MaybeRelease, ReleaseId, NotifyClose,
         Close, CloseHandshake, CloseCas, CloseConnected, EmitCloseAndTransition,
         CasDisconnecting, TcpEof, EofStream, RxClose, FinalizeRemote, RxError, ForceClaim,
         ForceOwn, FlushTail, Fence, DropSocket, SendError, TerminalState, ArriveParty,
         Finalizer, TakeFinalizer, TimeoutClose, RemoveEntry, SetHook, Teardown, AbandonLate,
         CloseGate, LocalDisconnect, SendAck, AckSnapshot, AckTransport
    <3> QED BY <2>0, <2>5, <3>1, TeardownType
  <2>6. CASE RunPosted
    BY <2>0, <2>6, PostedType DEF RunPosted
  <2>7. CASE Destroy
    BY <2>0, <2>7, DestroyType DEF Destroy
  <2>8. CASE UNCHANGED vars
    BY <2>0, <2>8 DEF vars, TypeOK
  <2> QED BY <2>1, <2>2, <2>3, <2>4, <2>5, <2>6, <2>7, <2>8 DEF Next, Step, Rest
<1> QED BY <1>1, <1>2, PTL DEF Spec

----------------------------------------------------------------------------
(* Frames on the wire. *)

\* An accepted frame adds its own kind to the wire, and no other.
LEMMA OnWireAppend ==
  ASSUME wire \in Seq(Frames), NEW f \in Frames, wire' = Append(wire, f), NEW k
  PROVE  OnWire(k)' <=> OnWire(k) \/ f.kind = k
<1>1. Len(wire) \in Nat /\ DOMAIN wire = 1 .. Len(wire)
  BY LenProperties
<1>2. /\ DOMAIN wire' = 1 .. (Len(wire) + 1)
      /\ \A i \in 1 .. Len(wire) : wire'[i] = wire[i]
      /\ wire'[Len(wire) + 1] = f
  BY <1>1, AppendProperties
<1>3. ASSUME OnWire(k)' PROVE OnWire(k) \/ f.kind = k
  BY <1>1, <1>2, <1>3 DEF OnWire
<1>4. ASSUME OnWire(k) PROVE OnWire(k)'
  BY <1>1, <1>2, <1>4 DEF OnWire
<1>5. ASSUME f.kind = k PROVE OnWire(k)'
  <2>1. Len(wire) + 1 \in DOMAIN wire'
    BY <1>1, <1>2
  <2> QED BY <1>2, <1>5, <2>1 DEF OnWire
<1> QED BY <1>3, <1>4, <1>5

\* Control frames of the kinds the stream does not order.
LEMMA OtherFrame ==
  ASSUME wire \in Seq(Frames), NEW k \in {"OPEN", "ACK"}, NEW out \in Outcomes,
         Transport(out, Control(k))
  PROVE  /\ wire' = wire \/ wire' = Append(wire, Control(k))
         /\ OnWire("CLOSE")' <=> OnWire("CLOSE")
         /\ OnWire("ERROR")' <=> OnWire("ERROR")
<1>1. Control(k) \in Frames /\ Control(k).kind = k
  BY DEF Control, Frames, FrameKinds
<1>2. wire' = wire \/ wire' = Append(wire, Control(k))
  BY DEF Transport
<1>3. CASE wire' = wire
  BY <1>3 DEF OnWire
<1>4. CASE wire' = Append(wire, Control(k))
  BY <1>1, <1>4, OnWireAppend
<1> QED BY <1>2, <1>3, <1>4

----------------------------------------------------------------------------
(* Steps that are not the driver's. *)

\* The CLOSE is noted or abandoned, the ERROR claimed or settled, the stream
\* sealed; never the other way round.
Forward ==
  /\ UNCHANGED <<drv, emitted, accepted>>
  /\ OnWire("CLOSE")' <=> OnWire("CLOSE")
  /\ OnWire("ERROR")' <=> OnWire("ERROR")
  /\ cf'.frame \in {cf.frame, "Abandoned"} \/ (cf.frame = "NotOwed" /\ cf'.frame = "Owed")
  /\ er.claimed => er'.claimed /\ (er'.slot => er.slot)
  /\ er'.slot => er'.claimed
  /\ er'.claimed => co'.abort
  /\ mx'.gate => co'.abort
  /\ co.abort => co'.abort
  /\ IF co'.abort THEN co'.fifo = <<>> ELSE co'.fifo = co.fifo

\* StreamInv survives them.
LEMMA ForwardKeeps ==
  ASSUME TypeOK, StreamInv, Forward
  PROVE  StreamInv'
<1>1. DriverOK'
  BY DEF Forward, StreamInv, DriverOK, InFlightCounted, KindKnown, Holding
<1>2. CloseAccounted' /\ CloseUnsent'
  BY DEF Forward, StreamInv, CloseAccounted, CloseUnsent, Undelivered
<1>3. ErrorAccounted' /\ ErrorUnsent'
  BY DEF Forward, StreamInv, ErrorAccounted, ErrorUnsent, Undelivered
<1>4. ClaimSeals' /\ SealedEmpty'
  BY DEF Forward, ClaimSeals, SealedEmpty
<1>5. FifoNumbered' /\ FrameIsFront'
  BY DEF Forward, StreamInv, FifoNumbered, FrameIsFront, Base, Holding
<1> QED BY <1>1, <1>2, <1>3, <1>4, <1>5 DEF StreamInv

\* A step that touches nothing StreamInv speaks of.
LEMMA ApartForward ==
  ASSUME StreamInv, UNCHANGED <<drv, emitted, accepted, wire, cf, er, co, mx>>
  PROVE  Forward
BY DEF Forward, StreamInv, ClaimSeals, SealedEmpty, OnWire

\* The OPEN handshake never disturbs the stream.
LEMMA HandshakeForward ==
  ASSUME TypeOK, StreamInv, NEW a \in Actors, HandshakeStep(a)
  PROVE  /\ Forward
         /\ co' = co
         /\ wire' = wire \/ wire' = Append(wire, Control("OPEN"))
<1>1. CASE OpenTransport(a)
  <2>1. \E out \in Outcomes : Transport(out, Control("OPEN"))
    BY <1>1 DEF OpenTransport
  <2>2. /\ wire' = wire \/ wire' = Append(wire, Control("OPEN"))
        /\ OnWire("CLOSE")' <=> OnWire("CLOSE")
        /\ OnWire("ERROR")' <=> OnWire("ERROR")
    BY <2>1, OtherFrame DEF TypeOK
  <2>3. UNCHANGED <<drv, emitted, accepted, cf, er, co, mx>>
    BY <1>1 DEF OpenTransport
  <2> QED BY <2>2, <2>3 DEF Forward, StreamInv, ClaimSeals, SealedEmpty
<1>2. CASE ~OpenTransport(a)
  <2>1. UNCHANGED <<drv, emitted, accepted, wire, cf, er, co, mx>>
    BY <1>2 DEF HandshakeStep, Open, AttemptOpen, OpenSnapshot, OpenSent, OpenFull, OpenFail,
       ArmOpenRetry, ArmDeadline, Rollback, ResetPhase, RetryOpen, RetryFailed, RxAck, AckConnect
  <2> QED BY <2>1, ApartForward
<1> QED BY <1>1, <1>2

\* The CLOSE obligation moves forward or stays.
LEMMA NoteForward ==
  ASSUME NEW c \in CloseRecord
  PROVE  /\ NoteCloseOwed(c).frame \in {c.frame, "Abandoned", "Owed"}
         /\ NoteCloseOwed(c).frame = "Owed" => c.frame \in {"NotOwed", "Owed"}
         /\ NoteCloseOwed(c) \in CloseRecord
BY NoteType DEF NoteCloseOwed, CloseRecord

\* Noting it twice, for the sender of the OPEN and for the peer, is noting it once.
LEMMA DeferForward ==
  ASSUME NEW o \in OpenRecord, NEW c \in CloseRecord
  PROVE  /\ DeferCloseToSender(o, c).frame \in {c.frame, "Abandoned", "Owed"}
         /\ DeferCloseToSender(o, c).frame = "Owed" => c.frame \in {"NotOwed", "Owed"}
         /\ DeferCloseToSender(o, c) \in CloseRecord
BY NoteForward DEF DeferCloseToSender

\* publish_abort_locked() seals and empties.
LEMMA AbortSeals ==
  ASSUME NEW c \in OutboundRecord
  PROVE  PublishAbort(c).abort /\ PublishAbort(c).fifo = <<>>
BY DEF PublishAbort, OutboundRecord

\* settle_error_for_shutdown_locked() only empties the slot.
LEMMA SettleForward ==
  ASSUME NEW e \in ErrorRecord
  PROVE  /\ SettleErrorForShutdown(e).claimed = e.claimed
         /\ SettleErrorForShutdown(e).slot => e.slot
BY DEF SettleErrorForShutdown, ErrorRecord

\* claim_terminal_error() fills the slot only for the winner of the claim.
LEMMA ClaimForward ==
  ASSUME NEW e \in ErrorRecord, NEW d \in BOOLEAN
  PROVE  /\ ClaimTerminalError(e, d).claimed
         /\ e.claimed => ClaimTerminalError(e, d) = e
BY DEF ClaimTerminalError, ErrorRecord

\* Nor does anything that ends the tunnel, except that it may seal the stream.
LEMMA TeardownForward ==
  ASSUME TypeOK, StreamInv, NEW a \in Actors, TeardownStep(a)
  PROVE  /\ Forward
         /\ wire' = wire \/ (co' = co /\ wire' = Append(wire, Control("ACK")))
<1>1. ASSUME UNCHANGED <<drv, emitted, accepted, wire, er, co, mx>>,
             cf'.frame \in {cf.frame, "Abandoned"} \/ (cf.frame = "NotOwed" /\ cf'.frame = "Owed")
      PROVE  Forward /\ wire' = wire
  BY <1>1 DEF Forward, StreamInv, ClaimSeals, SealedEmpty, OnWire
<1>2. ASSUME UNCHANGED <<drv, emitted, accepted, wire, cf, er>>, mx'.gate = mx.gate,
             co'.abort = co.abort, co'.fifo = co.fifo
      PROVE  Forward /\ wire' = wire
  BY <1>2 DEF Forward, StreamInv, ClaimSeals, SealedEmpty, OnWire
<1>3. ASSUME UNCHANGED <<drv, emitted, accepted, wire, cf, co, mx>>,
             er'.claimed = er.claimed, er'.slot => er.slot
      PROVE  Forward /\ wire' = wire
  BY <1>3 DEF Forward, StreamInv, ClaimSeals, SealedEmpty, OnWire
<1>4. ASSUME UNCHANGED <<drv, emitted, accepted, wire, cf>>, co' = PublishAbort(co),
             er.claimed => er'.claimed /\ (er'.slot => er.slot), er'.slot => er'.claimed
      PROVE  Forward /\ wire' = wire
  BY <1>4, AbortSeals DEF Forward, TypeOK, OnWire
<1>5. CASE AbandonClose(a) \/ CancelClose(a)
  <2>1. cf'.frame \in {cf.frame, "Abandoned"}
    BY <1>5 DEF AbandonClose, CancelClose, TypeOK, CloseRecord
  <2> QED BY <1>1, <1>5, <2>1 DEF AbandonClose, CancelClose
<1>6. CASE CloseHandshake(a)
  BY <1>1, <1>6, DeferForward DEF CloseHandshake, TypeOK
<1>7. CASE CloseConnected(a)
  <2>1. CASE cf' = cf /\ co' = co
    BY <1>2, <1>7, <2>1 DEF CloseConnected
  <2>2. CASE cf' = NoteCloseOwed(cf) /\ co' = [co EXCEPT !.closing = TRUE, !.closingFull = TRUE]
    <3>1. co'.abort = co.abort /\ co'.fifo = co.fifo
      BY <2>2 DEF TypeOK, OutboundRecord
    <3>2. cf'.frame \in {cf.frame, "Abandoned"} \/ (cf.frame = "NotOwed" /\ cf'.frame = "Owed")
      BY <2>2, NoteForward DEF TypeOK
    <3>3. UNCHANGED <<drv, emitted, accepted, wire, er, mx>>
      BY <1>7 DEF CloseConnected
    <3> QED BY <3>1, <3>2, <3>3 DEF Forward, StreamInv, ClaimSeals, SealedEmpty, OnWire
  <2> QED BY <1>7, <2>1, <2>2 DEF CloseConnected
<1>8. CASE EmitCloseAndTransition(a) \/ EofStream(a) \/ RxClose(a)
  <2>1. co'.abort = co.abort /\ co'.fifo = co.fifo
    BY <1>8 DEF EmitCloseAndTransition, EofStream, RxClose, TypeOK, OutboundRecord
  <2> QED BY <1>2, <1>8, <2>1 DEF EmitCloseAndTransition, EofStream, RxClose
<1>9. CASE ReleaseId(a) \/ SetHook(a) \/ DropSocket(a)
  <2>1. mx'.gate = mx.gate
    BY <1>9 DEF ReleaseId, SetHook, DropSocket, TypeOK, SocketRecord
  <2> QED BY <1>2, <1>9, <2>1 DEF ReleaseId, SetHook, DropSocket
<1>10. CASE ForceClaim(a)
  <2>1. cf' \in {cf, DeferCloseToSender(op, cf), NoteCloseOwed(DeferCloseToSender(op, cf))}
    BY <1>10 DEF ForceClaim
  <2>2. cf'.frame \in {cf.frame, "Abandoned"} \/ (cf.frame = "NotOwed" /\ cf'.frame = "Owed")
    BY <2>1, DeferForward, NoteForward DEF TypeOK
  <2> QED BY <1>1, <1>10, <2>2 DEF ForceClaim
<1>11. CASE ArriveParty(a) \/ Finalizer(a) \/ TakeFinalizer(a)
  <2>1. er'.claimed = er.claimed /\ er'.slot = er.slot
    BY <1>11 DEF ArriveParty, Finalizer, TakeFinalizer, TypeOK, ErrorRecord
  <2> QED BY <1>3, <1>11, <2>1 DEF ArriveParty, Finalizer, TakeFinalizer
<1>12. CASE Fence(a)
  BY <1>4, <1>12, SettleForward DEF Fence, TypeOK, StreamInv, ClaimSeals
<1>13. CASE CloseGate(a)
  <2>1. co' = PublishAbort(co) /\ er' = SettleErrorForShutdown(er)
    BY <1>13 DEF CloseGate
  <2>2. UNCHANGED <<drv, emitted, accepted, wire, cf>>
    BY <1>13 DEF CloseGate
  <2> QED BY <1>4, <2>1, <2>2, SettleForward DEF TypeOK, StreamInv, ClaimSeals
<1>14. CASE SendError(a)
  <2>1. PICK d \in BOOLEAN : er' = ClaimTerminalError(er, d)
    BY <1>14 DEF SendError
  <2> QED BY <1>4, <1>14, <2>1, ClaimForward DEF SendError, TypeOK, StreamInv, ClaimSeals
<1>15. CASE AckTransport(a)
  <2>1. \E out \in Outcomes : Transport(out, Control("ACK"))
    BY <1>15 DEF AckTransport
  <2>2. /\ wire' = wire \/ wire' = Append(wire, Control("ACK"))
        /\ OnWire("CLOSE")' <=> OnWire("CLOSE")
        /\ OnWire("ERROR")' <=> OnWire("ERROR")
    BY <2>1, OtherFrame DEF TypeOK
  <2>3. UNCHANGED <<drv, emitted, accepted, cf, er, co, mx>>
    BY <1>15 DEF AckTransport
  <2> QED BY <2>2, <2>3 DEF Forward, StreamInv, ClaimSeals, SealedEmpty
<1>16. CASE \/ MaybeRelease(a) \/ NotifyClose(a) \/ Close(a) \/ CloseCas(a) \/ CasDisconnecting(a)
            \/ TcpEof(a) \/ FinalizeRemote(a) \/ RxError(a) \/ ForceOwn(a) \/ FlushTail(a)
            \/ TerminalState(a) \/ TimeoutClose(a) \/ RemoveEntry(a) \/ Teardown(a)
            \/ AbandonLate(a) \/ LocalDisconnect(a) \/ SendAck(a) \/ AckSnapshot(a)
  <2>1. UNCHANGED <<drv, emitted, accepted, wire, cf, er, co, mx>>
    BY <1>16 DEF MaybeRelease, NotifyClose, Close, CloseCas, CasDisconnecting, TcpEof,
       FinalizeRemote, RxError, ForceOwn, FlushTail, TerminalState, TimeoutClose, RemoveEntry,
       Teardown, AbandonLate, LocalDisconnect, SendAck, AckSnapshot
  <2> QED BY <2>1, ApartForward
<1> QED BY <1>5, <1>6, <1>7, <1>8, <1>9, <1>10, <1>11, <1>12, <1>13, <1>14, <1>15, <1>16
    DEF TeardownStep

\* Outside events, timers, posted work and the destructor.
LEMMA OthersForward ==
  ASSUME TypeOK, StreamInv,
         (\E o \in Ops : Start(o)) \/ (\E t \in Timers : Fire(t)) \/ RunPosted \/ Destroy
  PROVE  Forward /\ wire' = wire /\ co' = co
<1>1. CASE \E o \in Ops : Start(o)
  BY <1>1, ApartForward DEF Start
<1>2. CASE RunPosted
  BY <1>2, ApartForward DEF RunPosted
<1>3. CASE \E t \in Timers : Fire(t)
  <2>1. cf'.frame = cf.frame /\ er'.claimed = er.claimed /\ er'.slot = er.slot
    BY <1>3 DEF Fire, TypeOK, CloseRecord, ErrorRecord
  <2>2. UNCHANGED <<drv, emitted, accepted, wire, co, mx>>
    BY <1>3 DEF Fire
  <2> QED BY <2>1, <2>2 DEF Forward, StreamInv, ClaimSeals, SealedEmpty, OnWire
<1>4. CASE Destroy
  <2>1. cf'.frame \in {cf.frame, "Abandoned"} /\ mx'.gate = mx.gate
    BY <1>4 DEF Destroy, TypeOK, CloseRecord, SocketRecord
  <2>2. SettleErrorForShutdown(er) \in ErrorRecord
    BY SettleType DEF TypeOK
  <2>3. er'.claimed = er.claimed /\ (er'.slot => er.slot)
    BY <1>4, <2>2, SettleForward DEF Destroy, TypeOK, ErrorRecord
  <2>4. UNCHANGED <<drv, emitted, accepted, wire, co>>
    BY <1>4 DEF Destroy
  <2> QED BY <2>1, <2>3, <2>4 DEF Forward, StreamInv, ClaimSeals, SealedEmpty, OnWire
<1> QED BY <1>1, <1>2, <1>3, <1>4

----------------------------------------------------------------------------
(* The driver. *)

\* Between two frames every CLOSE and ERROR on the wire is settled and the FIFO
\* starts right after the last byte counted as emitted.
LEMMA BetweenFrames ==
  ASSUME TypeOK, StreamInv, DriverOK', drv'.kind = "none", drv'.pc \in {"idle", "select"},
         UNCHANGED <<wire, mx, accepted>>,
         OnWire("CLOSE") => cf'.frame \in {"Resolved", "Abandoned"},
         OnWire("ERROR") => ~er'.slot,
         er'.claimed = er.claimed, er'.slot => er.slot,
         co'.abort = co.abort, co.abort => co'.fifo = <<>>,
         ~co.abort => /\ accepted = emitted' + Len(co'.fifo)
                      /\ \A i \in 1 .. Len(co'.fifo) : co'.fifo[i].id = emitted' + i
  PROVE  StreamInv'
<1>1. OnWire("CLOSE")' <=> OnWire("CLOSE")
  BY DEF OnWire
<1>2. OnWire("ERROR")' <=> OnWire("ERROR")
  BY DEF OnWire
<1>3. CloseAccounted' /\ CloseUnsent'
  BY <1>1 DEF CloseAccounted, CloseUnsent
<1>4. ErrorAccounted' /\ ErrorUnsent'
  BY <1>2 DEF StreamInv, ErrorAccounted, ErrorUnsent
<1>5. ClaimSeals' /\ SealedEmpty'
  BY DEF StreamInv, ClaimSeals, SealedEmpty
<1>6. FifoNumbered' /\ FrameIsFront'
  BY DEF FifoNumbered, FrameIsFront, Base
<1> QED BY <1>3, <1>4, <1>5, <1>6 DEF StreamInv

\* What holds while no frame is chosen.
LEMMA Unchosen ==
  ASSUME TypeOK, StreamInv, drv.pc \in {"idle", "select"}
  PROVE  /\ drv.kind = "none"
         /\ OnWire("CLOSE") => cf.frame \in {"Resolved", "Abandoned"}
         /\ OnWire("ERROR") => ~er.slot
         /\ co.abort => co.fifo = <<>>
         /\ ~co.abort => /\ accepted = emitted + Len(co.fifo)
                         /\ \A i \in 1 .. Len(co.fifo) : co.fifo[i].id = emitted + i
<1>1. drv.kind = "none"
  BY DEF StreamInv, DriverOK, KindKnown
<1> QED BY <1>1 DEF StreamInv, CloseAccounted, ErrorAccounted, SealedEmpty, FifoNumbered, Base

\* The bytes a sent frame leaves behind are numbered on.
LEMMA ConsumeNumbered ==
  ASSUME NEW q \in Seq(Bytes), NEW n \in Nat, n <= Len(q), NEW b \in Nat,
         \A i \in 1 .. Len(q) : q[i].id = b + i
  PROVE  /\ Len(Consume(q, n)) = Len(q) - n
         /\ \A i \in 1 .. Len(Consume(q, n)) : Consume(q, n)[i].id = b + n + i
<1>1. Len(q) \in Nat
  BY LenProperties
<1>2. CASE Len(q) <= n
  <2>1. Consume(q, n) = <<>> /\ Len(q) = n
    BY <1>1, <1>2 DEF Consume
  <2> QED BY <2>1
<1>3. CASE ~(Len(q) <= n)
  <2>1. Consume(q, n) = SubSeq(q, n + 1, Len(q))
    BY <1>3 DEF Consume
  <2>2. /\ Len(Consume(q, n)) = Len(q) - n
        /\ \A i \in 1 .. Len(q) - n : Consume(q, n)[i] = q[n + i]
    BY <1>1, <1>3, <2>1, SubSeqProperties
  <2>3. ASSUME NEW i \in 1 .. Len(q) - n PROVE Consume(q, n)[i].id = b + n + i
    <3>1. n + i \in 1 .. Len(q)
      BY <1>1, <2>3
    <3>2. q[n + i].id = b + (n + i)
      BY <3>1
    <3> QED BY <2>2, <2>3, <3>2
  <2> QED BY <2>2, <2>3
<1> QED BY <1>2, <1>3

\* Choosing a frame.
LEMMA SelectStream ==
  ASSUME TypeOK, StreamInv, NEW a \in Actors,
         SelectError(a) \/ SelectData(a) \/ SelectClose(a)
  PROVE  StreamInv'
<1>1. DriverStep(a) /\ drv.pc = "select"
  BY DEF DriverStep, SelectError, SelectData, SelectClose, Driving
<1>2. TypeOK' /\ DriverOK'
  BY <1>1, DriverType, DriverKnown DEF StreamInv
<1>3. UNCHANGED <<wire, mx, accepted, emitted, co>>
  BY DEF SelectError, SelectData, SelectClose
<1>4. (OnWire("CLOSE")' <=> OnWire("CLOSE")) /\ (OnWire("ERROR")' <=> OnWire("ERROR"))
  BY <1>3 DEF OnWire
<1>5. CASE SelectError(a)
  <2>1. /\ drv'.kind = "ERROR" /\ drv'.pc = "snapshot" /\ cf' = cf
        /\ er'.claimed = er.claimed /\ er'.slot = er.slot /\ er.slot
    BY <1>5 DEF SelectError, ErrorEligible, TypeOK, DriverRecord, ErrorRecord
  <2>2. CloseAccounted' /\ CloseUnsent'
    BY <1>1, <1>4, <2>1, Unchosen DEF CloseAccounted, CloseUnsent
  <2>3. ErrorAccounted' /\ ErrorUnsent'
    BY <1>1, <1>4, <2>1, Unchosen DEF StreamInv, ClaimSeals, ErrorAccounted, ErrorUnsent
  <2>4. ClaimSeals' /\ SealedEmpty'
    BY <1>3, <2>1 DEF StreamInv, ClaimSeals, SealedEmpty
  <2>5. FifoNumbered' /\ FrameIsFront'
    BY <1>1, <1>3, <2>1, Unchosen DEF FifoNumbered, FrameIsFront, Base
  <2> QED BY <1>2, <2>2, <2>3, <2>4, <2>5 DEF StreamInv
<1>6. CASE SelectClose(a)
  <2>1. /\ drv'.kind = "CLOSE" /\ drv'.pc = "snapshot" /\ er' = er
        /\ cf.frame = "Owed" /\ cf'.frame = "InFlight" /\ ~er.claimed
    BY <1>6 DEF SelectClose, CloseEligible, TypeOK, DriverRecord, CloseRecord
  <2>2. CloseAccounted' /\ CloseUnsent'
    BY <1>1, <1>4, <2>1, Unchosen DEF CloseAccounted, CloseUnsent
  <2>3. ErrorAccounted' /\ ErrorUnsent'
    BY <1>4, <2>1 DEF StreamInv, ErrorAccounted, ErrorUnsent
  <2>4. ClaimSeals' /\ SealedEmpty'
    BY <1>3, <2>1 DEF StreamInv, ClaimSeals, SealedEmpty
  <2>5. FifoNumbered' /\ FrameIsFront'
    BY <1>1, <1>3, <2>1, Unchosen DEF FifoNumbered, FrameIsFront, Base
  <2> QED BY <1>2, <2>2, <2>3, <2>4, <2>5 DEF StreamInv
<1>7. CASE SelectData(a)
  <2>1. /\ drv'.kind = "DATA" /\ drv'.pc = "authorise" /\ drv'.from = co.fifo[1].id
        /\ drv'.n = FrameBytes(co) /\ UNCHANGED <<cf, er>> /\ co.fifo # <<>>
    BY <1>7 DEF SelectData, TypeOK, DriverRecord
  <2>2. co.fifo \in Seq(Bytes) /\ Len(co.fifo) \in Nat \ {0} /\ co.fifo[1].cap \in Nat
    <3>1. co.fifo \in Seq(Bytes) /\ co.fifo # <<>> /\ co.fifo[1] \in Bytes
      BY <2>1, EmptySeq, LenProperties, ElementOfSeq DEF TypeOK, OutboundRecord
    <3> QED BY <3>1, EmptySeq, LenProperties DEF Bytes
  <2>3. FrameBytes(co) <= Len(co.fifo)
    <3>1. FrontPending(co.fifo) \in 1 .. Len(co.fifo)
      BY <2>1, <2>2, FrontPendingBound
    <3> QED BY <2>2, <3>1 DEF FrameBytes
  <2>4. ~co.abort /\ co.fifo[1].id = emitted + 1
    BY <1>1, <2>1, <2>2, Unchosen
  <2>5. CloseAccounted' /\ CloseUnsent'
    BY <1>1, <1>4, <2>1, Unchosen DEF CloseAccounted, CloseUnsent
  <2>6. ErrorAccounted' /\ ErrorUnsent'
    BY <1>1, <1>4, <2>1, Unchosen DEF StreamInv, ErrorAccounted, ErrorUnsent
  <2>7. ClaimSeals' /\ SealedEmpty'
    BY <1>3, <2>1 DEF StreamInv, ClaimSeals, SealedEmpty
  <2>8. FifoNumbered' /\ FrameIsFront'
    BY <1>1, <1>3, <2>1, <2>3, <2>4, Unchosen DEF FifoNumbered, FrameIsFront, Base, Holding
  <2> QED BY <1>2, <2>5, <2>6, <2>7, <2>8 DEF StreamInv
<1> QED BY <1>5, <1>6, <1>7

\* Leaving the loop, or coming round it, with no frame chosen.
LEMMA RestStream ==
  ASSUME TypeOK, StreamInv, NEW a \in Actors,
         Drive(a) \/ LeaveRemainder(a) \/ DrainComplete(a)
  PROVE  StreamInv'
<1>1. DriverStep(a)
  BY DEF DriverStep
<1>2. TypeOK' /\ DriverOK'
  BY <1>1, DriverType, DriverKnown DEF StreamInv
<1>3. /\ UNCHANGED <<wire, mx, accepted, emitted, cf, er>>
      /\ co'.abort = co.abort /\ co'.fifo = co.fifo
  BY DEF Drive, LeaveRemainder, DrainComplete, TypeOK, OutboundRecord
<1>4. CASE drv' = drv
  <2>1. Forward
    BY <1>3, <1>4 DEF Forward, StreamInv, ClaimSeals, SealedEmpty, OnWire
  <2> QED BY <2>1, ForwardKeeps
<1>5. CASE drv' # drv
  <2>1. drv.pc \in {"idle", "select"} /\ drv'.pc \in {"idle", "select"} /\ drv'.kind = "none"
    BY <1>5, IdleType, SelectingType
    DEF Drive, LeaveRemainder, DrainComplete, Driving, Active, TypeOK, DriverRecord
  <2> QED BY <1>2, <1>3, <2>1, Unchosen, BetweenFrames
<1> QED BY <1>4, <1>5

\* The last look at the seal.
LEMMA AuthoriseStream ==
  ASSUME TypeOK, StreamInv, NEW a \in Actors, AuthoriseData(a)
  PROVE  StreamInv'
<1>1. DriverStep(a)
  BY DEF DriverStep
<1>2. TypeOK' /\ DriverOK'
  BY <1>1, DriverType, DriverKnown DEF StreamInv
<1>3. /\ UNCHANGED <<wire, mx, accepted, cf, er>>
      /\ co'.abort = co.abort /\ co'.fifo = co.fifo
  BY DEF AuthoriseData, TypeOK, OutboundRecord
<1>4. drv.pc = "authorise" /\ drv.kind = "DATA"
  BY DEF AuthoriseData, Driving, StreamInv, DriverOK, KindKnown
<1>5. CASE co.abort
  <2>1. drv'.kind = "none" /\ drv'.pc \in {"idle", "select"}
    BY <1>5, IdleType, SelectingType DEF AuthoriseData, TypeOK
  <2>2. OnWire("CLOSE") => cf'.frame \in {"Resolved", "Abandoned"}
    BY <1>3, <1>4 DEF StreamInv, CloseAccounted
  <2>3. OnWire("ERROR") => ~er'.slot
    BY <1>3, <1>4 DEF StreamInv, ErrorAccounted
  <2>4. co'.fifo = <<>>
    BY <1>3, <1>5 DEF StreamInv, SealedEmpty
  <2> QED BY <1>2, <1>3, <1>5, <2>1, <2>2, <2>3, <2>4, BetweenFrames
<1>6. CASE ~co.abort
  <2>1. /\ drv'.pc = "snapshot" /\ drv'.kind = "DATA" /\ drv'.n = drv.n /\ drv'.from = drv.from
        /\ drv.n \in Nat /\ emitted \in Nat /\ emitted' = emitted + drv.n
    BY <1>4, <1>6 DEF AuthoriseData, TypeOK, DriverRecord
  <2>2. (OnWire("CLOSE")' <=> OnWire("CLOSE")) /\ (OnWire("ERROR")' <=> OnWire("ERROR"))
    BY <1>3 DEF OnWire
  <2>3. ~OnWire("ERROR")
    BY <1>6 DEF StreamInv, ErrorAccounted, ClaimSeals
  <2>4. CloseAccounted' /\ CloseUnsent'
    BY <1>3, <1>4, <2>1, <2>2 DEF StreamInv, CloseAccounted, CloseUnsent
  <2>5. ErrorAccounted' /\ ErrorUnsent'
    BY <2>1, <2>2, <2>3 DEF ErrorAccounted, ErrorUnsent
  <2>6. ClaimSeals' /\ SealedEmpty'
    BY <1>3 DEF StreamInv, ClaimSeals, SealedEmpty
  <2>7. Base = emitted /\ Base' = emitted
    BY <1>4, <2>1 DEF Base, Holding
  <2>8. FifoNumbered' /\ FrameIsFront'
    BY <1>3, <1>4, <1>6, <2>1, <2>7 DEF StreamInv, FifoNumbered, FrameIsFront
  <2> QED BY <1>2, <2>4, <2>5, <2>6, <2>8 DEF StreamInv
<1> QED BY <1>5, <1>6

\* Handing the frame over: dropped behind a closed gate, refused, or sent.
LEMMA SendStream ==
  ASSUME TypeOK, StreamInv, NEW a \in Actors, Snapshot(a) \/ Send(a)
  PROVE  StreamInv'
<1>1. DriverStep(a) /\ drv.pc \in {"snapshot", "transport"}
  BY DEF DriverStep, Snapshot, Send, Driving
<1>2. TypeOK' /\ DriverOK'
  BY <1>1, DriverType, DriverKnown DEF StreamInv
<1>3. /\ UNCHANGED <<mx, accepted, emitted, cf, er, co>>
      /\ drv'.kind = drv.kind /\ drv'.from = drv.from /\ drv'.n = drv.n
      /\ drv'.pc \in {"transport", "commit"}
  BY DEF Snapshot, Send, TypeOK, DriverRecord
<1>4. /\ drv.kind # "none" /\ Undelivered /\ Holding /\ Holding'
      /\ ~OnWire("ERROR") /\ (drv.kind = "CLOSE" => ~OnWire("CLOSE"))
  BY <1>1, <1>3 DEF StreamInv, DriverOK, KindKnown, Undelivered, Holding, ErrorUnsent, CloseUnsent
<1>5. \/ UNCHANGED wire
      \/ /\ ~Undelivered'
         /\ OnWire("CLOSE")' => OnWire("CLOSE") \/ drv.kind = "CLOSE"
         /\ OnWire("ERROR")' => OnWire("ERROR") \/ drv.kind = "ERROR"
  <2>1. CASE Snapshot(a)
    BY <2>1 DEF Snapshot
  <2>2. CASE Send(a)
    <3>1. PICK out \in Outcomes :
            /\ Transport(out, IF drv.kind = "DATA" THEN Data(drv.from, drv.n) ELSE Control(drv.kind))
            /\ drv' = [drv EXCEPT !.pc = "commit", !.out = out]
      BY <2>2 DEF Send
    <3>2. CASE wire' = wire
      BY <3>2
    <3>3. CASE wire' # wire
      <4> DEFINE f == IF drv.kind = "DATA" THEN Data(drv.from, drv.n) ELSE Control(drv.kind)
      <4>1. out = "Sent" /\ wire' = Append(wire, f)
        BY <3>1, <3>3 DEF Transport
      <4>2. drv'.out = "Sent" /\ drv'.pc = "commit"
        BY <3>1, <4>1 DEF TypeOK, DriverRecord
      <4>3. f.kind = drv.kind
        BY DEF Data, Control
      <4>4. f \in Frames
        <5>1. f = wire'[Len(wire) + 1] /\ Len(wire) + 1 \in 1 .. Len(wire')
          BY <4>1, AppendProperties, LenProperties DEF TypeOK
        <5> QED BY <1>2, <5>1, ElementOfSeq DEF TypeOK
      <4>5. \A k : OnWire(k)' <=> OnWire(k) \/ f.kind = k
        BY <4>1, <4>4, OnWireAppend DEF TypeOK
      <4> QED BY <4>2, <4>3, <4>5 DEF Undelivered
    <3> QED BY <3>2, <3>3
  <2> QED BY <2>1, <2>2
<1>6. UNCHANGED wire => /\ OnWire("CLOSE")' <=> OnWire("CLOSE")
                        /\ OnWire("ERROR")' <=> OnWire("ERROR")
  BY DEF OnWire
<1>7. CloseAccounted' /\ CloseUnsent'
  BY <1>3, <1>4, <1>5, <1>6 DEF StreamInv, CloseAccounted, CloseUnsent
<1>8. ErrorAccounted' /\ ErrorUnsent'
  BY <1>3, <1>4, <1>5, <1>6 DEF StreamInv, ErrorAccounted, ErrorUnsent, Undelivered
<1>9. ClaimSeals' /\ SealedEmpty'
  BY <1>3 DEF StreamInv, ClaimSeals, SealedEmpty
<1>10. FifoNumbered' /\ FrameIsFront'
  BY <1>3, <1>4 DEF StreamInv, FifoNumbered, FrameIsFront, Base
<1> QED BY <1>2, <1>7, <1>8, <1>9, <1>10 DEF StreamInv

\* Committing the verdict.
LEMMA CommitStream ==
  ASSUME TypeOK, StreamInv, NEW a \in Actors,
         CommitError(a) \/ CommitClose(a) \/ CommitData(a)
  PROVE  StreamInv'
<1>1. DriverStep(a) /\ drv.pc = "commit"
  BY DEF DriverStep, CommitError, CommitClose, CommitData, Driving
<1>2. TypeOK' /\ DriverOK'
  BY <1>1, DriverType, DriverKnown DEF StreamInv
<1>3. /\ UNCHANGED <<wire, mx, accepted>>
      /\ drv'.kind = "none" /\ drv'.pc \in {"idle", "select"}
  BY IdleType, SelectingType DEF CommitError, CommitClose, CommitData, TypeOK
<1>4. CASE CommitError(a)
  <2>1. /\ drv.kind = "ERROR" /\ UNCHANGED <<cf, emitted>>
        /\ er'.claimed = er.claimed /\ (er'.slot => er.slot /\ drv.out = "SendqFull")
        /\ co'.abort = co.abort /\ co'.fifo = co.fifo
    BY <1>4 DEF CommitError, TypeOK, ErrorRecord, OutboundRecord
  <2>2. OnWire("CLOSE") => cf'.frame \in {"Resolved", "Abandoned"}
    BY <2>1 DEF StreamInv, CloseAccounted
  <2>3. OnWire("ERROR") => ~er'.slot
    BY <1>1, <2>1 DEF StreamInv, ErrorUnsent, Undelivered
  <2>4. co.abort /\ co.fifo = <<>>
    BY <2>1 DEF StreamInv, ErrorUnsent, ClaimSeals, SealedEmpty
  <2> QED BY <1>2, <1>3, <2>1, <2>2, <2>3, <2>4, BetweenFrames
<1>5. CASE CommitClose(a)
  <2>1. /\ drv.kind = "CLOSE" /\ UNCHANGED <<er, co, emitted>>
        /\ cf'.frame \in {"Resolved", "Abandoned"} \/ drv.out = "SendqFull"
    BY <1>5 DEF CommitClose, TypeOK, CloseRecord
  <2>2. OnWire("CLOSE") => cf'.frame \in {"Resolved", "Abandoned"}
    BY <1>1, <2>1 DEF StreamInv, CloseUnsent, Undelivered
  <2>3. OnWire("ERROR") => ~er'.slot
    BY <2>1 DEF StreamInv, ErrorAccounted
  <2>4. Base = emitted
    BY <2>1 DEF Base
  <2>5. /\ co.abort => co'.fifo = <<>>
        /\ ~co.abort => /\ accepted = emitted' + Len(co'.fifo)
                        /\ \A i \in 1 .. Len(co'.fifo) : co'.fifo[i].id = emitted' + i
    BY <2>1, <2>4 DEF StreamInv, SealedEmpty, FifoNumbered
  <2> QED BY <1>2, <1>3, <2>1, <2>2, <2>3, <2>5, BetweenFrames
<1>6. CASE CommitData(a)
  <2>1. /\ drv.kind = "DATA" /\ UNCHANGED <<er, cf>> /\ co'.abort = co.abort
        /\ \/ emitted' = emitted /\ co'.fifo = Consume(co.fifo, drv.n)
           \/ emitted' = emitted - drv.n /\ co'.fifo = co.fifo
    BY <1>6 DEF CommitData, TypeOK, OutboundRecord
  <2>2. OnWire("CLOSE") => cf'.frame \in {"Resolved", "Abandoned"}
    BY <2>1 DEF StreamInv, CloseAccounted
  <2>3. OnWire("ERROR") => ~er'.slot
    BY <2>1 DEF StreamInv, ErrorAccounted
  <2>4. /\ Base = emitted - drv.n /\ Base \in Nat
        /\ emitted \in Nat /\ drv.n \in Nat /\ co.fifo \in Seq(Bytes) /\ Len(co.fifo) \in Nat
    BY <1>1, <2>1, LenProperties
    DEF Base, Holding, TypeOK, DriverRecord, OutboundRecord, StreamInv, DriverOK, InFlightCounted
  <2>5. co.abort => co'.fifo = <<>>
    <3>1. Len(<<>>) = 0
      OBVIOUS
    <3>2. Consume(<<>>, drv.n) = <<>>
      BY <2>4, <3>1 DEF Consume
    <3> QED BY <2>1, <3>2 DEF StreamInv, SealedEmpty
  <2>6. ASSUME ~co.abort
        PROVE  /\ accepted = emitted' + Len(co'.fifo)
               /\ \A i \in 1 .. Len(co'.fifo) : co'.fifo[i].id = emitted' + i
    <3>1. /\ accepted = Base + Len(co.fifo) /\ drv.n <= Len(co.fifo)
          /\ \A i \in 1 .. Len(co.fifo) : co.fifo[i].id = Base + i
      BY <2>1, <2>6 DEF StreamInv, FifoNumbered, FrameIsFront
    <3>2. CASE emitted' = emitted - drv.n /\ co'.fifo = co.fifo
      BY <2>4, <3>1, <3>2
    <3>3. CASE emitted' = emitted /\ co'.fifo = Consume(co.fifo, drv.n)
      <4> DEFINE rest == Consume(co.fifo, drv.n)
      <4>1. /\ Len(rest) = Len(co.fifo) - drv.n
            /\ \A i \in 1 .. Len(rest) : rest[i].id = Base + drv.n + i
        BY <2>4, <3>1, ConsumeNumbered
      <4>2. Base + drv.n = emitted'
        BY <2>4, <3>3
      <4>3. accepted = emitted' + Len(rest)
        BY <2>4, <3>1, <4>1, <4>2
      <4>4. \A i \in 1 .. Len(rest) : rest[i].id = emitted' + i
        BY <4>1, <4>2
      <4> QED BY <3>3, <4>3, <4>4
    <3> QED BY <2>1, <3>2, <3>3
  <2> QED BY <1>2, <1>3, <2>1, <2>2, <2>3, <2>5, <2>6, BetweenFrames
<1> QED BY <1>4, <1>5, <1>6

\* A producer appends behind whatever the driver holds.
LEMMA AppendStream ==
  ASSUME TypeOK, StreamInv, NEW a \in Actors, AppendBytes(a)
  PROVE  StreamInv'
<1>1. UNCHANGED <<wire, mx, emitted, cf, er, drv>>
  BY DEF AppendBytes
<1>2. CASE co.abort
  <2>1. UNCHANGED <<co, accepted>>
    BY <1>2 DEF AppendBytes
  <2> QED BY <1>1, <2>1, ApartForward, ForwardKeeps
<1>3. CASE ~co.abort
  <2>1. PICK c \in {WireCap, CoalesceCap} :
          /\ co' = [co EXCEPT !.fifo = Append(@, [id |-> accepted + 1, cap |-> c])]
          /\ accepted' = accepted + 1
    BY <1>3 DEF AppendBytes
  <2> DEFINE q == co.fifo
             x == [id |-> accepted + 1, cap |-> c]
  <2>2. co'.abort = co.abort /\ co'.fifo = Append(q, x)
    BY <2>1 DEF TypeOK, OutboundRecord
  <2>3. q \in Seq(Bytes) /\ x \in Bytes /\ Len(q) \in Nat /\ accepted \in Nat
    BY CapAssumption, LenProperties DEF TypeOK, OutboundRecord, Bytes
  <2>4. /\ Len(co'.fifo) = Len(q) + 1
        /\ \A i \in 1 .. Len(q) : co'.fifo[i] = q[i]
        /\ co'.fifo[Len(q) + 1] = x
    BY <2>2, <2>3, AppendProperties
  <2>5. Base' = Base /\ Base \in Nat
    BY <1>1 DEF Base, Holding, TypeOK, DriverRecord, StreamInv, DriverOK, InFlightCounted
  <2>6. /\ accepted = Base + Len(q) /\ \A i \in 1 .. Len(q) : q[i].id = Base + i
    BY <1>3 DEF StreamInv, FifoNumbered
  <2>7. FifoNumbered'
    <3>1. accepted' = Base + Len(co'.fifo)
      BY <2>1, <2>3, <2>4, <2>5, <2>6
    <3>2. ASSUME NEW i \in 1 .. Len(co'.fifo) PROVE co'.fifo[i].id = Base + i
      <4>1. CASE i \in 1 .. Len(q)
        BY <2>4, <2>6, <4>1
      <4>2. CASE i = Len(q) + 1
        BY <2>3, <2>4, <2>5, <2>6, <4>2
      <4> QED BY <2>3, <2>4, <4>1, <4>2
    <3> QED BY <2>5, <3>1, <3>2 DEF FifoNumbered
  <2>8. FrameIsFront'
    <3>1. drv.n \in Nat
      BY DEF TypeOK, DriverRecord
    <3> QED BY <1>1, <1>3, <2>2, <2>3, <2>4, <2>5, <3>1 DEF StreamInv, FrameIsFront, Holding
  <2>9. (OnWire("CLOSE")' <=> OnWire("CLOSE")) /\ (OnWire("ERROR")' <=> OnWire("ERROR"))
    BY <1>1 DEF OnWire
  <2>10. CloseAccounted' /\ CloseUnsent' /\ ErrorAccounted' /\ ErrorUnsent'
    BY <1>1, <2>9 DEF StreamInv, CloseAccounted, CloseUnsent, ErrorAccounted, ErrorUnsent, Undelivered
  <2>11. ClaimSeals' /\ SealedEmpty' /\ DriverOK'
    BY <1>1, <1>3, <2>2
    DEF StreamInv, ClaimSeals, SealedEmpty, DriverOK, InFlightCounted, KindKnown, Holding
  <2> QED BY <2>7, <2>8, <2>10, <2>11 DEF StreamInv
<1> QED BY <1>2, <1>3

\* Requests for a CLOSE, arming a retry, and the lock-free admission test.
LEMMA ProducerForward ==
  ASSUME TypeOK, StreamInv, NEW a \in Actors,
         ArmClose(a) \/ ArmError(a) \/ EmitClose(a) \/ TcpData(a)
  PROVE  Forward /\ wire' = wire /\ co' = co
<1>1. UNCHANGED <<drv, emitted, accepted, wire, er, co, mx>>
  BY DEF ArmClose, ArmError, EmitClose, TcpData
<1>2. cf'.frame = cf.frame \/ (cf.frame = "NotOwed" /\ cf'.frame = "Owed")
  BY DEF ArmClose, ArmError, EmitClose, TcpData, TypeOK, CloseRecord
<1> QED BY <1>1, <1>2 DEF Forward, StreamInv, ClaimSeals, SealedEmpty, OnWire

----------------------------------------------------------------------------
(* The theorems. *)

\* A step that is not the driver's: forward, and at most an OPEN or an ACK leaves.
Beside ==
  /\ Forward
  /\ \/ wire' = wire
     \/ co' = co /\ \E k \in {"OPEN", "ACK"} : wire' = Append(wire, Control(k))

\* A step of the driver or of the producer that feeds it.
Driver(a) ==
  \/ Drive(a) \/ SelectError(a) \/ SelectData(a) \/ LeaveRemainder(a) \/ SelectClose(a)
  \/ DrainComplete(a) \/ AuthoriseData(a) \/ Snapshot(a) \/ Send(a)
  \/ CommitError(a) \/ CommitClose(a) \/ CommitData(a) \/ AppendBytes(a)

\* Every step is one or the other.
LEMMA StepKinds ==
  ASSUME TypeOK, StreamInv, [Next]_vars
  PROVE  Beside \/ \E a \in Actors : Driver(a)
<1>1. CASE (\E o \in Ops : Start(o)) \/ (\E t \in Timers : Fire(t)) \/ RunPosted \/ Destroy
  BY <1>1, OthersForward DEF Beside
<1>2. ASSUME NEW a \in Actors, HandshakeStep(a) PROVE Beside
  BY <1>2, HandshakeForward DEF Beside
<1>3. ASSUME NEW a \in Actors, TeardownStep(a) PROVE Beside
  BY <1>3, TeardownForward DEF Beside
<1>4. ASSUME NEW a \in Actors, DriverStep(a) PROVE Beside \/ Driver(a)
  BY <1>4, ProducerForward DEF Beside, Driver, DriverStep
<1>5. CASE UNCHANGED vars
  BY <1>5, ApartForward DEF vars, Beside
<1> QED BY <1>1, <1>2, <1>3, <1>4, <1>5 DEF Next, Step, Rest

\* run_emission_driver() finds what it left when it takes the lock again: the
\* front of the FIFO, the one CLOSE, the one ERROR and the byte counters agree in
\* every reachable state, whatever the scenario.
THEOREM StreamInvariant == Spec => [](TypeOK /\ StreamInv)
<1>1. Init => StreamInv
  <2> SUFFICES ASSUME Init PROVE StreamInv
    OBVIOUS
  <2>1. drv.kind = "none" /\ drv.pc = "idle"
    BY IdleType DEF Init, Idle
  <2>2. \A k : ~OnWire(k)
    BY DEF Init, OnWire
  <2>3. /\ ~er.slot /\ ~er.claimed /\ ~co.abort /\ ~mx.gate /\ co.fifo = <<>>
        /\ emitted = 0 /\ accepted = 0
    BY DEF Init
  <2>4. FifoNumbered /\ FrameIsFront
    <3>1. Len(co.fifo) = 0
      BY <2>3
    <3> QED BY <2>1, <2>3, <3>1 DEF FifoNumbered, FrameIsFront, Base
  <2> QED BY <2>1, <2>2, <2>3, <2>4 DEF StreamInv, DriverOK, InFlightCounted, KindKnown, Holding,
      CloseAccounted, CloseUnsent, ErrorAccounted, ErrorUnsent, ClaimSeals, SealedEmpty
<1>2. TypeOK /\ StreamInv /\ [Next]_vars => StreamInv'
  <2> SUFFICES ASSUME TypeOK, StreamInv, [Next]_vars PROVE StreamInv'
    OBVIOUS
  <2>1. CASE Beside
    BY <2>1, ForwardKeeps DEF Beside
  <2>2. ASSUME NEW a \in Actors, Driver(a) PROVE StreamInv'
    BY <2>2, SelectStream, RestStream, AuthoriseStream, SendStream, CommitStream, AppendStream
    DEF Driver
  <2> QED BY <2>1, <2>2, StepKinds
<1> QED BY <1>1, <1>2, TypeCorrect, PTL DEF Spec

\* The only way a DATA, CLOSE or ERROR reaches the wire is the driver's send.
LEMMA WireSteps ==
  ASSUME TypeOK, StreamInv, [Next]_vars
  PROVE  \/ wire' = wire
         \/ \E f \in Frames : /\ wire' = Append(wire, f)
                              /\ f.kind \in {"OPEN", "ACK"} \/ ~OnWire("ERROR")
                              /\ f.kind = "CLOSE" => ~OnWire("CLOSE")
<1>1. CASE Beside
  <2>1. \A k \in {"OPEN", "ACK"} : Control(k) \in Frames /\ Control(k).kind = k
    BY DEF Control, Frames, FrameKinds
  <2> QED BY <1>1, <2>1 DEF Beside
<1>2. ASSUME NEW a \in Actors, Send(a)
      PROVE  \/ wire' = wire
             \/ \E f \in Frames : /\ wire' = Append(wire, f)
                                  /\ ~OnWire("ERROR")
                                  /\ f.kind = "CLOSE" => ~OnWire("CLOSE")
  <2> DEFINE f == IF drv.kind = "DATA" THEN Data(drv.from, drv.n) ELSE Control(drv.kind)
  <2>1. drv.pc = "transport" /\ (wire' = wire \/ wire' = Append(wire, f))
    BY <1>2 DEF Send, Driving, Transport
  <2>2. ~OnWire("ERROR") /\ (drv.kind = "CLOSE" => ~OnWire("CLOSE"))
    BY <2>1 DEF StreamInv, ErrorUnsent, CloseUnsent, Undelivered
  <2>3. f.kind = drv.kind
    BY DEF Data, Control
  <2>4. f \in Frames
    <3>1. /\ drv.kind \in {"DATA", "CLOSE", "ERROR"} /\ drv.from \in Nat /\ drv.n \in Nat
          /\ drv.kind = "DATA" => drv.n >= 1
      BY <2>1 DEF TypeOK, DriverRecord, StreamInv, DriverOK, KindKnown
    <3>2. drv.kind = "DATA" => Data(drv.from, drv.n) \in Frames
      BY <3>1 DEF Data, Frames, FrameKinds
    <3>3. Control(drv.kind) \in Frames
      BY <3>1 DEF Control, Frames, FrameKinds
    <3> QED BY <3>2, <3>3
  <2> HIDE DEF f
  <2> QED BY <2>1, <2>2, <2>3, <2>4
<1>3. ASSUME NEW a \in Actors, Driver(a), ~Send(a) PROVE wire' = wire
  BY <1>3 DEF Driver, Drive, SelectError, SelectData, LeaveRemainder, SelectClose, DrainComplete,
     AuthoriseData, Snapshot, CommitError, CommitClose, CommitData, AppendBytes
<1> QED BY <1>1, <1>2, <1>3, StepKinds

\* At most one TUNNEL_CLOSE ever leaves a tunnel: emit_close_frame_once(), the
\* driver's selection and the commit of its verdict keep the obligation single
\* across close(), half-close, force_close(), the OPEN sender and the retry timer.
THEOREM OneCloseHolds == Spec => []OneClose
<1>1. Init => OneClose
  BY DEF Init, OneClose, IsKind
<1>2. TypeOK /\ StreamInv /\ OneClose /\ [Next]_vars => OneClose'
  <2> SUFFICES ASSUME TypeOK, StreamInv, OneClose, [Next]_vars PROVE OneClose'
    OBVIOUS
  <2>1. CASE wire' = wire
    BY <2>1 DEF OneClose, IsKind
  <2>2. ASSUME NEW f \in Frames, wire' = Append(wire, f), f.kind = "CLOSE" => ~OnWire("CLOSE")
        PROVE  OneClose'
    <3>1. /\ DOMAIN wire = 1 .. Len(wire) /\ Len(wire) \in Nat
          /\ DOMAIN wire' = 1 .. (Len(wire) + 1)
          /\ \A i \in 1 .. Len(wire) : wire'[i] = wire[i]
          /\ wire'[Len(wire) + 1] = f
      BY <2>2, AppendProperties, LenProperties DEF TypeOK
    <3> QED BY <2>2, <3>1 DEF OneClose, IsKind, OnWire
  <2> QED BY <2>1, <2>2, WireSteps
<1> QED BY <1>1, <1>2, StreamInvariant, PTL DEF Spec

\* Nothing but credit follows a TUNNEL_ERROR: once send_error(), a linger timeout
\* or close_all(Abandon) has sent it, no DATA, CLOSE or second ERROR leaves.
THEOREM ErrorIsLastHolds == Spec => []ErrorIsLast
<1>1. Init => ErrorIsLast
  BY DEF Init, ErrorIsLast, IsKind
<1>2. TypeOK /\ StreamInv /\ ErrorIsLast /\ [Next]_vars => ErrorIsLast'
  <2> SUFFICES ASSUME TypeOK, StreamInv, ErrorIsLast, [Next]_vars PROVE ErrorIsLast'
    OBVIOUS
  <2>1. CASE wire' = wire
    BY <2>1 DEF ErrorIsLast, IsKind
  <2>2. ASSUME NEW f \in Frames, wire' = Append(wire, f),
               f.kind \in {"OPEN", "ACK"} \/ ~OnWire("ERROR")
        PROVE  ErrorIsLast'
    <3>1. /\ DOMAIN wire = 1 .. Len(wire) /\ Len(wire) \in Nat
          /\ DOMAIN wire' = 1 .. (Len(wire) + 1)
          /\ \A i \in 1 .. Len(wire) : wire'[i] = wire[i]
          /\ wire'[Len(wire) + 1] = f
      BY <2>2, AppendProperties, LenProperties DEF TypeOK
    <3>2. ASSUME NEW i \in DOMAIN wire', NEW j \in DOMAIN wire', i < j, wire'[i].kind = "ERROR"
          PROVE  wire'[j].kind \in {"ACK", "OPEN"}
      <4>1. i \in DOMAIN wire /\ wire[i].kind = "ERROR"
        BY <3>1, <3>2
      <4>2. CASE j \in DOMAIN wire
        BY <3>1, <3>2, <4>1, <4>2 DEF ErrorIsLast, IsKind
      <4>3. CASE j = Len(wire) + 1
        BY <2>2, <3>1, <4>1, <4>3 DEF OnWire
      <4> QED BY <3>1, <3>2, <4>2, <4>3
    <3> QED BY <3>2 DEF ErrorIsLast, IsKind
  <2> QED BY <2>1, <2>2, WireSteps
<1> QED BY <1>1, <1>2, StreamInvariant, PTL DEF Spec

----------------------------------------------------------------------------
(* Refinement. *)

\* What one step does to the stream.
StreamStep == [Stream!Next]_<<wire, NextByte, co.abort>>

\* The kinds on the wire are the kinds in the log.
LEMMA HasIsOnWire == \A k : Stream!Has(k) <=> OnWire(k)
BY DEF Stream!Has, OnWire

\* A step beside the driver seals the stream, sends an OPEN or an ACK, or stutters.
LEMMA BesideRefines ==
  ASSUME TypeOK, TypeOK', StreamInv, Beside
  PROVE  StreamStep
<1>1. NextByte' = NextByte
  BY DEF Beside, Forward, NextByte, Unsent
<1>2. co.abort \in BOOLEAN /\ co'.abort \in BOOLEAN /\ (co.abort => co'.abort)
  BY DEF Beside, Forward, TypeOK, OutboundRecord
<1>3. CASE wire' = wire /\ co'.abort = co.abort
  BY <1>1, <1>3 DEF StreamStep
<1>4. CASE wire' = wire /\ co'.abort # co.abort
  <2>1. co.abort = FALSE /\ co'.abort = TRUE
    BY <1>2, <1>4
  <2>2. Stream!Seal
    BY <1>1, <1>4, <2>1 DEF Stream!Seal
  <2> QED BY <2>2 DEF StreamStep, Stream!Next
<1>5. ASSUME NEW k \in {"OPEN", "ACK"}, co' = co, wire' = Append(wire, Control(k))
      PROVE  StreamStep
  <2>1. Stream!SendOther
    BY <1>1, <1>5 DEF Stream!SendOther, Stream!Frame, Control
  <2> QED BY <2>1 DEF StreamStep, Stream!Next
<1> QED BY <1>3, <1>4, <1>5 DEF Beside

\* The driver's send is the abstract send of the same kind.
LEMMA SendRefines ==
  ASSUME TypeOK, StreamInv, NEW a \in Actors, Send(a)
  PROVE  StreamStep
<1>1. PICK out \in Outcomes :
        /\ Transport(out, IF drv.kind = "DATA" THEN Data(drv.from, drv.n) ELSE Control(drv.kind))
        /\ drv' = [drv EXCEPT !.pc = "commit", !.out = out]
  BY DEF Send
<1>2. /\ drv.pc = "transport" /\ UNCHANGED <<co, emitted>>
      /\ drv'.kind = drv.kind /\ drv'.n = drv.n /\ drv'.pc = "commit" /\ drv'.out = out
  BY <1>1 DEF Send, Driving, TypeOK, DriverRecord
<1>3. /\ drv.kind \in {"DATA", "CLOSE", "ERROR"} /\ drv.n \in Nat /\ emitted \in Nat
      /\ drv.kind = "DATA" => drv.n >= 1 /\ emitted >= drv.n /\ drv.from = emitted - drv.n + 1
  BY <1>2 DEF TypeOK, DriverRecord, StreamInv, DriverOK, KindKnown, InFlightCounted, Holding,
     FrameIsFront, Base
<1>4. ~Stream!Has("ERROR") /\ (drv.kind = "CLOSE" => ~Stream!Has("CLOSE"))
  BY <1>2, HasIsOnWire DEF StreamInv, ErrorUnsent, CloseUnsent, Undelivered
<1>5. NextByte = IF drv.kind = "DATA" THEN emitted - drv.n + 1 ELSE emitted + 1
  BY <1>2, <1>3 DEF NextByte, Unsent
<1>6. NextByte' = IF drv.kind = "DATA" /\ out # "Sent" THEN emitted - drv.n + 1 ELSE emitted + 1
  BY <1>2, <1>3 DEF NextByte, Unsent
<1>7. CASE out # "Sent"
  <2>1. wire' = wire
    BY <1>1, <1>7 DEF Transport
  <2> QED BY <1>2, <1>5, <1>6, <1>7, <2>1 DEF StreamStep
<1>8. CASE out = "Sent" /\ drv.kind = "DATA"
  <2>1. wire' = Append(wire, Data(drv.from, drv.n))
    BY <1>1, <1>8 DEF Transport
  <2>2. NextByte' = emitted + 1 /\ NextByte = drv.from /\ NextByte' = NextByte + drv.n
    BY <1>3, <1>5, <1>6, <1>8
  <2>3. NextByte' \in Nat /\ NextByte' > NextByte /\ NextByte' - 1 = drv.from + drv.n - 1
    BY <1>3, <1>8, <2>2
  <2>4. Stream!SendData
    BY <1>2, <1>4, <2>1, <2>2, <2>3 DEF Stream!SendData, Stream!Frame, Data
  <2> QED BY <2>4 DEF StreamStep, Stream!Next
<1>9. CASE out = "Sent" /\ drv.kind # "DATA"
  <2>1. wire' = Append(wire, Control(drv.kind)) /\ NextByte' = NextByte
    BY <1>1, <1>5, <1>6, <1>9 DEF Transport
  <2>2. CASE drv.kind = "CLOSE"
    <3>1. Stream!SendClose
      BY <1>2, <1>4, <2>1, <2>2 DEF Stream!SendClose, Stream!Frame, Control
    <3> QED BY <3>1 DEF StreamStep, Stream!Next
  <2>3. CASE drv.kind = "ERROR"
    <3>1. co.abort
      BY <2>3 DEF StreamInv, ErrorUnsent, ClaimSeals
    <3>2. Stream!SendError
      BY <1>2, <1>4, <2>1, <2>3, <3>1 DEF Stream!SendError, Stream!Frame, Control
    <3> QED BY <3>2 DEF StreamStep, Stream!Next
  <2> QED BY <1>3, <1>9, <2>2, <2>3
<1> QED BY <1>7, <1>8, <1>9

\* A frame that meets a closed gate is discarded, after the seal.
LEMMA SnapshotRefines ==
  ASSUME TypeOK, StreamInv, NEW a \in Actors, Snapshot(a)
  PROVE  StreamStep
<1>1. /\ drv.pc = "snapshot" /\ UNCHANGED <<co, emitted, wire>>
      /\ drv'.kind = drv.kind /\ drv'.n = drv.n
      /\ \/ mx.gate /\ drv'.pc = "commit" /\ drv'.out = "Sent"
         \/ drv'.pc = "transport"
  BY DEF Snapshot, Driving, TypeOK, DriverRecord
<1>2. /\ drv.n \in Nat /\ emitted \in Nat
      /\ drv.kind = "DATA" => drv.n >= 1 /\ emitted >= drv.n
  BY <1>1 DEF TypeOK, DriverRecord, StreamInv, DriverOK, KindKnown, InFlightCounted, Holding
<1>3. CASE drv.kind # "DATA" \/ drv'.pc = "transport"
  <2>1. NextByte' = NextByte
    BY <1>1, <1>2, <1>3 DEF NextByte, Unsent
  <2> QED BY <1>1, <2>1 DEF StreamStep
<1>4. CASE drv.kind = "DATA" /\ drv'.pc # "transport"
  <2>1. NextByte = emitted - drv.n + 1 /\ NextByte' = emitted + 1
    BY <1>1, <1>2, <1>4 DEF NextByte, Unsent
  <2>2. co.abort
    BY <1>1, <1>4 DEF StreamInv, ClaimSeals
  <2>3. NextByte' \in Nat /\ NextByte' > NextByte
    BY <1>2, <1>4, <2>1
  <2>4. Stream!Discard
    BY <1>1, <2>2, <2>3 DEF Stream!Discard
  <2> QED BY <2>4 DEF StreamStep, Stream!Next
<1> QED BY <1>3, <1>4

\* The rest of the driver is invisible: choosing, authorising and committing a
\* frame, or putting it back after a failed send, leaves the stream where it was.
LEMMA DriverRefines ==
  ASSUME TypeOK, StreamInv, NEW a \in Actors, Driver(a)
  PROVE  StreamStep
<1>1. drv.n \in Nat /\ emitted \in Nat
  BY DEF TypeOK, DriverRecord
<1>2. ASSUME ~Send(a), ~Snapshot(a) PROVE wire' = wire /\ co'.abort = co.abort
  BY <1>2 DEF Driver, Drive, SelectError, SelectData, LeaveRemainder, SelectClose, DrainComplete,
     AuthoriseData, CommitError, CommitClose, CommitData, AppendBytes, TypeOK, OutboundRecord
<1>3. ASSUME Drive(a) \/ SelectError(a) \/ SelectData(a) \/ LeaveRemainder(a) \/ SelectClose(a)
             \/ DrainComplete(a)
      PROVE  NextByte' = NextByte
  <2>1. emitted' = emitted
    BY <1>3 DEF Drive, SelectError, SelectData, LeaveRemainder, SelectClose, DrainComplete
  <2>2. CASE drv' = drv
    BY <2>1, <2>2 DEF NextByte, Unsent
  <2>3. CASE drv' # drv
    <3>1. drv.pc \in {"idle", "select"} /\ (drv'.kind # "DATA" \/ drv'.pc = "authorise")
      BY <1>3, <2>3, IdleType, SelectingType DEF Drive, SelectError, SelectData, LeaveRemainder,
         SelectClose, DrainComplete, Driving, Active, TypeOK, DriverRecord
    <3> QED BY <2>1, <3>1 DEF NextByte, Unsent
  <2> QED BY <2>2, <2>3
<1>4. ASSUME AuthoriseData(a) PROVE NextByte' = NextByte
  <2>1. drv.pc = "authorise" /\ drv.kind = "DATA"
    BY <1>4 DEF AuthoriseData, Driving, StreamInv, DriverOK, KindKnown
  <2>2. CASE co.abort
    <3>1. emitted' = emitted /\ drv'.kind = "none"
      BY <1>4, <2>2, IdleType, SelectingType DEF AuthoriseData, TypeOK
    <3> QED BY <2>1, <3>1 DEF NextByte, Unsent
  <2>3. CASE ~co.abort
    <3>1. emitted' = emitted + drv.n /\ drv'.kind = "DATA" /\ drv'.n = drv.n /\ drv'.pc = "snapshot"
      BY <1>4, <2>1, <2>3 DEF AuthoriseData, TypeOK, DriverRecord
    <3> QED BY <1>1, <2>1, <3>1 DEF NextByte, Unsent
  <2> QED BY <2>2, <2>3
<1>5. ASSUME CommitError(a) \/ CommitClose(a) \/ CommitData(a) PROVE NextByte' = NextByte
  <2>1. drv.pc = "commit" /\ drv'.kind = "none"
    BY <1>5, IdleType, SelectingType DEF CommitError, CommitClose, CommitData, Driving, TypeOK
  <2>2. emitted' = IF drv.kind = "DATA" /\ drv.out # "Sent" THEN emitted - drv.n ELSE emitted
    BY <1>5 DEF CommitError, CommitClose, CommitData
  <2> QED BY <1>1, <2>1, <2>2 DEF NextByte, Unsent
<1>6. ASSUME AppendBytes(a) PROVE NextByte' = NextByte
  BY <1>6 DEF AppendBytes, NextByte, Unsent
<1> QED BY <1>2, <1>3, <1>4, <1>5, <1>6, SendRefines, SnapshotRefines DEF Driver, StreamStep

\* The emission machinery implements OutboundStream for every scenario, policy
\* set and pair of caps: accepted bytes leave once and in order, none is dropped
\* before the stream is sealed, and at most one CLOSE and one ERROR end it.
THEOREM StreamRefined == Spec => StreamContract
<1>1. Init => Stream!Init
  <2> SUFFICES ASSUME Init PROVE Stream!Init
    OBVIOUS
  <2>1. drv.kind = "none"
    BY IdleType DEF Init, Idle
  <2> QED BY <2>1 DEF Init, Stream!Init, NextByte, Unsent
<1>2. TypeOK /\ TypeOK' /\ StreamInv /\ [Next]_vars => [Stream!Next]_<<wire, NextByte, co.abort>>
  BY StepKinds, BesideRefines, DriverRefines DEF StreamStep
<1> QED BY <1>1, <1>2, StreamInvariant, PTL DEF Spec, StreamContract, Stream!Spec

\* A tunnel that reached Closed or Error stays there: no late OPEN_ACK, rollback,
\* half-close or racing teardown revives it.
THEOREM TerminalIsFinalHolds == Spec => TerminalIsFinal
<1>1. [Next]_vars => (state \in Terminal => state' = state)
  <2> SUFFICES ASSUME [Next]_vars, state \in Terminal PROVE state' = state
    OBVIOUS
  <2>1. ASSUME NEW a \in Actors, HandshakeStep(a) PROVE state' = state
    BY <2>1 DEF Terminal, HandshakeStep, Open, AttemptOpen, OpenSnapshot, OpenTransport, OpenSent,
       OpenFull, OpenFail, ArmOpenRetry, ArmDeadline, Rollback, ResetPhase, RetryOpen,
       RetryFailed, RxAck, AckConnect
  <2>2. ASSUME NEW a \in Actors, DriverStep(a) PROVE state' = state
    BY <2>2 DEF DriverStep, Drive, SelectError, SelectData, LeaveRemainder, SelectClose,
       DrainComplete, AuthoriseData, Snapshot, Send, CommitError, CommitClose, CommitData,
       ArmClose, ArmError, EmitClose, TcpData, AppendBytes
  <2>3. ASSUME NEW a \in Actors, TeardownStep(a) PROVE state' = state
    BY <2>3 DEF Terminal, TeardownStep, AbandonClose, CancelClose, MaybeRelease, ReleaseId,
       NotifyClose, Close, CloseHandshake, CloseCas, CloseConnected, EmitCloseAndTransition,
       CasDisconnecting, TcpEof, EofStream, RxClose, FinalizeRemote, RxError, ForceClaim,
       ForceOwn, FlushTail, Fence, DropSocket, SendError, TerminalState, ArriveParty,
       Finalizer, TakeFinalizer, TimeoutClose, RemoveEntry, SetHook, Teardown, AbandonLate,
       CloseGate, LocalDisconnect, SendAck, AckSnapshot, AckTransport
  <2>4. CASE (\E o \in Ops : Start(o)) \/ (\E t \in Timers : Fire(t)) \/ RunPosted \/ Destroy
    BY <2>4 DEF Start, Fire, RunPosted, Destroy
  <2>5. CASE UNCHANGED vars
    BY <2>5 DEF vars
  <2> QED BY <2>1, <2>2, <2>3, <2>4, <2>5 DEF Next, Step, Rest
<1>2. [Next]_vars => [(state \in Terminal) => (state' = state)]_vars
  BY <1>1
<1> QED BY <1>2, PTL DEF Spec, TerminalIsFinal

----------------------------------------------------------------------------
(* How a tunnel ends: what keeps the last steps of an ending alive.          *)

\* Step s occurs in the stack q; some actor still has to take it.
Has(q, s) == \E i \in DOMAIN q : q[i] = s
Pending(s) == \E a \in Actors : Has(todo[a], s)

\* Steps that run the close callback or lead to it.
Enders == {"notifyClose", "ownClaimed", "ownAnnounce", "finalizer"}

\* A tunnel whose close callback ran is out of the map or about to be removed.
NotifiedRemoves == once.notified /\ man.present => man.posted \/ Pending("remove")

\* Whoever ended the tunnel runs the close callback, or the settlement of the
\* terminal ERROR will.
EndNotifies ==
  state \in Terminal \/ er.claimed =>
    once.notified \/ er.fence \/ \E s \in Enders : Pending(s)
TerminalClaimed == Pending("errorState") \/ Pending("lingerClosed") => er.claimed

\* While the id fence is up both parties of the settlement have arrived or are on
\* their way; after the second one somebody is left to finalize.
FenceSettles ==
  er.fence => /\ er.producer \/ Pending("arriveProducer")
              /\ \/ er.transport \/ er.slot
                 \/ Pending("arriveTransport") \/ Pending("arriveTransportDeferred")
              /\ er.producer /\ er.transport => er.finalize \/ Pending("finalizer")

\* A finalization deferred by force_close_impl() is taken up by the same thread;
\* the one of close_outbound_gate() concerns a tunnel that has left the map.
Deferred ==
  man.present =>
    \A a \in Actors : \A i \in DOMAIN todo[a] :
      todo[a][i] = "arriveTransportDeferred" =>
        i + 1 \in DOMAIN todo[a] /\ todo[a][i + 1] = "takeFinalizer"
FinalizerTaken ==
  /\ er.finalize /\ man.present => Pending("takeFinalizer")
  /\ Pending("gate") => ~man.present

\* A deposited ERROR frame has a timer, a running driver or a kick behind it.
SlotDriven ==
  /\ er.slot /\ er.armed => Pending("armError") \/ "error" \in timers
  /\ er.slot /\ ~er.armed => drv.pc # "idle" \/ Pending("driveAll")
SlotFlags ==
  /\ er.sending => drv.kind = "ERROR"
  /\ er.cancelled => ~er.armed /\ (er.slot => er.sending)
  /\ er.armed => er.claimed

\* A running driver is somebody's next step; a CLOSE in flight is in its hands.
DriverRuns == drv.pc # "idle" => Has(todo[drv.owner], "drive")
CloseHeld == cf.frame = "InFlight" => drv.kind = "CLOSE"

\* The id of a removed tunnel is free, or the hook that frees it is set or will be.
HookSet ==
  /\ ~man.present => man.idFree \/ mx.hook = "set" \/ Pending("setHook")
  /\ mx.hook = "fired" => man.idFree

\* The destructor leaves nothing behind.
Dead ==
  ~man.alive => /\ ~man.present /\ man.idFree /\ left["open"] = 0
                /\ timers = {} /\ ~er.fence /\ ~er.finalize
                /\ \A a \in Actors : todo[a] = <<>>
OpenOnce == left["open"] <= (IF Client THEN 1 ELSE 0)

EndInv ==
  /\ NotifiedRemoves /\ EndNotifies /\ TerminalClaimed /\ FenceSettles /\ Deferred
  /\ FinalizerTaken /\ SlotDriven /\ SlotFlags /\ DriverRuns /\ CloseHeld /\ HookSet
  /\ Dead /\ OpenOnce

----------------------------------------------------------------------------
(* Stacks. *)

\* What stacks built from literals, conditional calls and sequences contain.
LEMMA HasNone == \A s : ~Has(<<>>, s)
BY DEF Has

LEMMA HasOne == \A x, s : Has(<<x>>, s) <=> x = s
<1> SUFFICES ASSUME NEW x, NEW s PROVE Has(<<x>>, s) <=> x = s
  OBVIOUS
<1>1. DOMAIN <<x>> = {1} /\ <<x>>[1] = x
  OBVIOUS
<1> QED BY <1>1 DEF Has

LEMMA HasTwo == \A x, y, s : Has(<<x, y>>, s) <=> x = s \/ y = s
<1> SUFFICES ASSUME NEW x, NEW y, NEW s PROVE Has(<<x, y>>, s) <=> x = s \/ y = s
  OBVIOUS
<1>1. DOMAIN <<x, y>> = {1, 2} /\ <<x, y>>[1] = x /\ <<x, y>>[2] = y
  OBVIOUS
<1> QED BY <1>1 DEF Has

LEMMA HasThree == \A x, y, z, s : Has(<<x, y, z>>, s) <=> x = s \/ y = s \/ z = s
<1> SUFFICES ASSUME NEW x, NEW y, NEW z, NEW s
             PROVE  Has(<<x, y, z>>, s) <=> x = s \/ y = s \/ z = s
  OBVIOUS
<1>1. /\ DOMAIN <<x, y, z>> = {1, 2, 3}
      /\ <<x, y, z>>[1] = x /\ <<x, y, z>>[2] = y /\ <<x, y, z>>[3] = z
  OBVIOUS
<1> QED BY <1>1 DEF Has

LEMMA HasIf == \A b, x, s : Has(If(b, x), s) <=> b /\ x = s
BY HasOne, HasNone DEF If

LEMMA HasConcat ==
  ASSUME NEW p \in Seq(Steps), NEW q \in Seq(Steps), NEW s
  PROVE  Has(p \o q, s) <=> Has(p, s) \/ Has(q, s)
<1>1. /\ Len(p) \in Nat /\ Len(q) \in Nat
      /\ DOMAIN p = 1 .. Len(p) /\ DOMAIN q = 1 .. Len(q)
  BY LenProperties
<1>2. /\ DOMAIN (p \o q) = 1 .. (Len(p) + Len(q))
      /\ \A i \in 1 .. Len(p) : (p \o q)[i] = p[i]
      /\ \A i \in 1 .. Len(q) : (p \o q)[Len(p) + i] = q[i]
  BY <1>1, ConcatProperties
<1>3. ASSUME Has(p, s) PROVE Has(p \o q, s)
  BY <1>1, <1>2, <1>3 DEF Has
<1>4. ASSUME Has(q, s) PROVE Has(p \o q, s)
  <2>1. PICK i \in 1 .. Len(q) : q[i] = s
    BY <1>1, <1>4 DEF Has
  <2>2. Len(p) + i \in DOMAIN (p \o q)
    BY <1>1, <1>2
  <2> QED BY <1>2, <2>1, <2>2 DEF Has
<1>5. ASSUME Has(p \o q, s) PROVE Has(p, s) \/ Has(q, s)
  <2>1. PICK i \in 1 .. (Len(p) + Len(q)) : (p \o q)[i] = s
    BY <1>2, <1>5 DEF Has
  <2>2. CASE i \in 1 .. Len(p)
    BY <1>1, <1>2, <2>1, <2>2 DEF Has
  <2>3. CASE i \notin 1 .. Len(p)
    <3>1. i - Len(p) \in 1 .. Len(q) /\ i = Len(p) + (i - Len(p))
      BY <1>1, <2>3
    <3> QED BY <1>1, <1>2, <2>1, <3>1 DEF Has
  <2> QED BY <2>2, <2>3
<1> QED BY <1>3, <1>4, <1>5

\* Only the head of the acting stack goes; what the step calls comes in its place.
LEMMA Moved ==
  ASSUME TodoOK, NEW a \in Actors, NEW h, NEW q \in Seq(Steps), Doing(a, h), Then(a, q)
  PROVE  /\ \A b \in Actors : \A s : s # h /\ Has(todo[b], s) => Has(todo'[b], s)
         /\ \A s : Has(q, s) => Has(todo'[a], s)
         /\ \A b \in Actors : \A s : Has(todo'[b], s) => Has(todo[b], s) \/ (b = a /\ Has(q, s))
<1>1. /\ todo[a] \in Seq(Steps) /\ todo[a] # <<>> /\ Head(todo[a]) = h
      /\ Tail(todo[a]) \in Seq(Steps)
  BY HeadTailProperties DEF TodoOK, Doing
<1>2. /\ todo'[a] = q \o Tail(todo[a])
      /\ \A b \in Actors : b # a => todo'[b] = todo[b]
  BY DEF Then, TodoOK
<1>3. \A s : Has(todo'[a], s) <=> Has(q, s) \/ Has(Tail(todo[a]), s)
  <2>1. \A s : Has(q \o Tail(todo[a]), s) <=> Has(q, s) \/ Has(Tail(todo[a]), s)
    BY <1>1, HasConcat
  <2> QED BY <1>2, <2>1
<1>4. \A s : Has(todo[a], s) <=> h = s \/ Has(Tail(todo[a]), s)
  <2> SUFFICES ASSUME NEW s PROVE Has(todo[a], s) <=> h = s \/ Has(Tail(todo[a]), s)
    OBVIOUS
  <2>1. /\ Len(todo[a]) \in Nat \ {0} /\ DOMAIN todo[a] = 1 .. Len(todo[a])
        /\ todo[a][1] = h
        /\ DOMAIN Tail(todo[a]) = 1 .. (Len(todo[a]) - 1)
        /\ \A i \in 1 .. (Len(todo[a]) - 1) : Tail(todo[a])[i] = todo[a][i + 1]
    BY <1>1, HeadTailProperties, LenProperties, EmptySeq
  <2>2. ASSUME Has(todo[a], s), h # s PROVE Has(Tail(todo[a]), s)
    <3>1. PICK i \in 1 .. Len(todo[a]) : todo[a][i] = s
      BY <2>1, <2>2 DEF Has
    <3>2. i - 1 \in 1 .. (Len(todo[a]) - 1) /\ (i - 1) + 1 = i
      BY <2>1, <2>2, <3>1
    <3> QED BY <2>1, <3>1, <3>2 DEF Has
  <2>3. ASSUME Has(Tail(todo[a]), s) PROVE Has(todo[a], s)
    <3>1. PICK i \in 1 .. (Len(todo[a]) - 1) : todo[a][i + 1] = s
      BY <2>1, <2>3 DEF Has
    <3>2. i + 1 \in DOMAIN todo[a]
      BY <2>1
    <3> QED BY <3>1, <3>2 DEF Has
  <2>4. ASSUME h = s PROVE Has(todo[a], s)
    BY <2>1, <2>4 DEF Has
  <2> QED BY <2>2, <2>3, <2>4
<1> QED BY <1>2, <1>3, <1>4

\* The same for all actors together.
LEMMA PendingMoves ==
  ASSUME TodoOK, NEW a \in Actors, NEW h, NEW q \in Seq(Steps), Doing(a, h), Then(a, q)
  PROVE  /\ \A s : s # h /\ Pending(s) => Pending(s)'
         /\ \A s : Has(q, s) => Pending(s)'
         /\ \A s : Pending(s)' => Pending(s) \/ Has(q, s)
BY Moved DEF Pending

\* A deferred arrival keeps the take-up behind it.
LEMMA DeferredMoves ==
  ASSUME TodoOK, NEW a \in Actors, NEW h, NEW q \in Seq(Steps), Doing(a, h), Then(a, q),
         Deferred, man'.present => man.present,
         \A i \in DOMAIN q : q[i] = "arriveTransportDeferred" =>
                                i + 1 \in DOMAIN q /\ q[i + 1] = "takeFinalizer"
  PROVE  Deferred'
<1> SUFFICES ASSUME man.present, NEW b \in Actors, NEW i \in DOMAIN todo'[b],
                    todo'[b][i] = "arriveTransportDeferred"
             PROVE  i + 1 \in DOMAIN todo'[b] /\ todo'[b][i + 1] = "takeFinalizer"
  BY DEF Deferred
<1>1. CASE b # a
  BY <1>1 DEF Then, TodoOK, Deferred
<1>2. CASE b = a
  <2> DEFINE r == todo[a]
             n == Len(q)
  <2>1. r \in Seq(Steps) /\ r # <<>> /\ Tail(r) \in Seq(Steps)
    BY HeadTailProperties DEF TodoOK, Doing
  <2>2. todo'[a] = q \o Tail(r)
    BY DEF Then, TodoOK
  <2>3. /\ n \in Nat /\ Len(r) \in Nat \ {0} /\ DOMAIN r = 1 .. Len(r)
        /\ Len(Tail(r)) = Len(r) - 1
        /\ \A j \in 1 .. (Len(r) - 1) : Tail(r)[j] = r[j + 1]
        /\ DOMAIN q = 1 .. n
    BY <2>1, HeadTailProperties, LenProperties, EmptySeq
  <2>4. /\ DOMAIN todo'[a] = 1 .. (n + (Len(r) - 1))
        /\ \A j \in 1 .. n : todo'[a][j] = q[j]
        /\ \A j \in 1 .. (Len(r) - 1) : todo'[a][n + j] = Tail(r)[j]
    BY <2>1, <2>2, <2>3, ConcatProperties
  <2> HIDE DEF r, n
  <2>5. CASE i \in 1 .. n
    <3>1. i + 1 \in 1 .. n /\ q[i + 1] = "takeFinalizer"
      BY <1>2, <2>3, <2>4, <2>5
    <3>2. i + 1 \in 1 .. (n + (Len(r) - 1)) /\ todo'[a][i + 1] = "takeFinalizer"
      BY <2>3, <2>4, <3>1
    <3> QED BY <1>2, <2>4, <3>2
  <2> SUFFICES ASSUME i \notin 1 .. n
               PROVE  i + 1 \in DOMAIN todo'[b] /\ todo'[b][i + 1] = "takeFinalizer"
    BY <2>5
  <2>6. i - n \in 1 .. (Len(r) - 1) /\ i = n + (i - n)
    BY <1>2, <2>3, <2>4
  <2>7. (i - n) + 1 \in DOMAIN r /\ r[(i - n) + 1] = "arriveTransportDeferred"
    <3>1. todo'[a][n + (i - n)] = Tail(r)[i - n] /\ Tail(r)[i - n] = r[(i - n) + 1]
      BY <2>3, <2>4, <2>6
    <3>2. todo'[a][n + (i - n)] = "arriveTransportDeferred"
      BY <1>2, <2>6
    <3>3. (i - n) + 1 \in 1 .. Len(r)
      BY <2>3, <2>6
    <3> QED BY <2>3, <3>1, <3>2, <3>3
  <2>8. ((i - n) + 1) + 1 \in DOMAIN r /\ r[((i - n) + 1) + 1] = "takeFinalizer"
    BY <2>7 DEF Deferred, r
  <2>9. (i - n) + 1 \in 1 .. (Len(r) - 1) /\ i + 1 = n + ((i - n) + 1)
    BY <2>3, <2>6, <2>8
  <2> QED BY <1>2, <2>3, <2>4, <2>8, <2>9
<1> QED BY <1>1, <1>2

----------------------------------------------------------------------------
(* Steps that end nothing. *)

\* The steps EndInv counts on, and those it says something about.
Awaited ==
  Enders \cup {"remove", "arriveProducer", "arriveTransport", "arriveTransportDeferred",
               "takeFinalizer", "driveAll", "armError", "drive", "setHook"}
Watched == {"errorState", "lingerClosed", "gate", "arriveTransportDeferred"}
Plain == Steps \ Watched

LEMMA PlainHas ==
  ASSUME NEW q \in Seq(Plain)
  PROVE  q \in Seq(Steps) /\ \A s \in Watched : ~Has(q, s)
<1>1. q \in Seq(Steps)
  BY DEF Plain
<1>2. \A i \in DOMAIN q : q[i] \in Plain
  BY ElementOfSeq, LenProperties
<1> QED BY <1>1, <1>2 DEF Has, Plain

LEMMA PlainCalls ==
  /\ <<>> \in Seq(Plain)
  /\ \A s \in Plain : <<s>> \in Seq(Plain)
  /\ \A s, t \in Plain : <<s, t>> \in Seq(Plain)
  /\ \A s, t, u \in Plain : <<s, t, u>> \in Seq(Plain)
OBVIOUS

LEMMA PlainIf == \A b, s : s \in Plain => If(b, s) \in Seq(Plain)
BY DEF If

LEMMA PlainConcat == \A p, q \in Seq(Plain) : p \o q \in Seq(Plain)
BY ConcatProperties

\* A verdict of the transport is no opening.
LEMMA TransportLeaves ==
  ASSUME left \in Budget, NEW out, NEW f, Transport(out, f)
  PROVE  left'["open"] = left["open"]
<1>1. left' \in {left, [left EXCEPT !["full"] = @ - 1], [left EXCEPT !["fail"] = @ - 1]}
  BY DEF Transport
<1> QED BY <1>1 DEF Budget, Ops, Faults

\* The ERROR record, the flags, the driver, the map entry and the hook stay.
Still ==
  /\ UNCHANGED <<er, once, man, drv>>
  /\ mx'.hook = mx.hook
  /\ cf'.frame = "InFlight" => cf.frame = "InFlight"
  /\ left'["open"] = left["open"]
  /\ "error" \in timers => "error" \in timers'

\* A step of no concern to an ending keeps EndInv, if whoever makes the state
\* terminal has the close callback ahead of it.
LEMMA CalmStep ==
  ASSUME TypeOK, EndInv, NEW a \in Actors, NEW h \in Steps \ Awaited, NEW q \in Seq(Plain),
         Doing(a, h), Then(a, q), Still,
         state' \in Terminal => state \in Terminal \/ \E s \in Enders : Has(q, s)
  PROVE  EndInv'
<1>1. TodoOK /\ q \in Seq(Steps) /\ \A s \in Watched : ~Has(q, s)
  BY PlainHas DEF TypeOK, TodoOK
<1>2. /\ \A s \in Awaited : Pending(s) => Pending(s)'
      /\ \A s \in Watched : Pending(s)' => Pending(s)
      /\ \A s : Has(q, s) => Pending(s)'
  BY <1>1, PendingMoves
<1>3. Deferred'
  <2>1. \A i \in DOMAIN q : q[i] # "arriveTransportDeferred"
    BY <1>1 DEF Watched, Has
  <2> QED BY <1>1, <2>1, DeferredMoves DEF EndInv, Still
<1>4. DriverRuns'
  <2>1. drv.owner \in Actors
    BY DEF TypeOK, DriverRecord
  <2>2. "drive" \in Awaited
    BY DEF Awaited
  <2> QED BY <1>1, <2>1, <2>2, Moved DEF EndInv, DriverRuns, Still
<1>5. Dead' /\ OpenOnce'
  BY DEF EndInv, Dead, OpenOnce, Still, Doing, Client
<1>6. NotifiedRemoves' /\ HookSet'
  BY <1>2 DEF EndInv, NotifiedRemoves, HookSet, Still, Awaited
<1>7. EndNotifies' /\ TerminalClaimed'
  BY <1>2 DEF EndInv, EndNotifies, TerminalClaimed, Still, Awaited, Watched
<1>8. FenceSettles' /\ FinalizerTaken'
  BY <1>2 DEF EndInv, FenceSettles, FinalizerTaken, Still, Awaited, Watched, Enders
<1>9. SlotDriven' /\ SlotFlags' /\ CloseHeld'
  BY <1>2 DEF EndInv, SlotDriven, SlotFlags, CloseHeld, Still, Awaited
<1> QED BY <1>3, <1>4, <1>5, <1>6, <1>7, <1>8, <1>9 DEF EndInv

\* The OPEN handshake.
LEMMA HandshakeEnd ==
  ASSUME TypeOK, EndInv, NEW a \in Actors, HandshakeStep(a)
  PROVE  EndInv'
<1>1. CASE Open(a)
  <2>1. "open" \in Steps \ Awaited /\ Doing(a, "open")
    BY <1>1 DEF Open, Steps, Awaited, Enders
  <2>2. {"attemptOpen", "remove"} \subseteq Plain
    BY DEF Plain, Steps, Watched
  <2>3. /\ <<"attemptOpen">> \in Seq(Plain)
        /\ <<"remove">> \in Seq(Plain)
    BY <2>2, PlainCalls, PlainIf, PlainConcat
  <2>4. Still
    BY <1>1 DEF Open, Still, DisarmDeadline
  <2> QED BY <1>1, <2>1, <2>2, <2>3, <2>4, CalmStep DEF Open, Terminal
<1>2. CASE AttemptOpen(a)
  <2>1. "attemptOpen" \in Steps \ Awaited /\ Doing(a, "attemptOpen")
    BY <1>2 DEF AttemptOpen, Steps, Awaited, Enders
  <2>2. {"openSnapshot", "remove"} \subseteq Plain
    BY DEF Plain, Steps, Watched
  <2>3. /\ <<"openSnapshot">> \in Seq(Plain)
        /\ If(a = "app", "remove") \in Seq(Plain)
    BY <2>2, PlainCalls, PlainIf, PlainConcat
  <2>4. Still
    BY <1>2 DEF AttemptOpen, Still, DisarmDeadline
  <2> QED BY <1>2, <2>1, <2>2, <2>3, <2>4, CalmStep DEF AttemptOpen, Terminal
<1>3. CASE OpenSnapshot(a)
  <2>1. "openSnapshot" \in Steps \ Awaited /\ Doing(a, "openSnapshot")
    BY <1>3 DEF OpenSnapshot, Steps, Awaited, Enders
  <2>2. {"openSent", "openTransport"} \subseteq Plain
    BY DEF Plain, Steps, Watched
  <2>3. (IF mx.gate THEN <<"openSent">> ELSE <<"openTransport">>) \in Seq(Plain)
    BY <2>2, PlainCalls, PlainIf, PlainConcat
  <2>4. Still
    BY <1>3 DEF OpenSnapshot, Still, DisarmDeadline
  <2> QED BY <1>3, <2>1, <2>2, <2>3, <2>4, CalmStep DEF OpenSnapshot, Terminal
<1>4. CASE OpenTransport(a)
  <2>1. "openTransport" \in Steps \ Awaited /\ Doing(a, "openTransport")
    BY <1>4 DEF OpenTransport, Steps, Awaited, Enders
  <2>2. {"openFail", "openFull", "openSent"} \subseteq Plain
    BY DEF Plain, Steps, Watched
  <2>3. /\ <<"openSent">> \in Seq(Plain)
        /\ <<"openFull">> \in Seq(Plain)
        /\ <<"openFail">> \in Seq(Plain)
    BY <2>2, PlainCalls, PlainIf, PlainConcat
  <2>4. Still
    BY <1>4, TransportLeaves DEF OpenTransport, Still, DisarmDeadline, TypeOK
  <2>5. Then(a, <<"openSent">>) \/ Then(a, <<"openFull">>) \/ Then(a, <<"openFail">>)
    BY <1>4 DEF OpenTransport, Outcomes
  <2> QED BY <1>4, <2>1, <2>2, <2>3, <2>4, <2>5, CalmStep DEF OpenTransport, Terminal
<1>5. CASE OpenSent(a)
  <2>1. "openSent" \in Steps \ Awaited /\ Doing(a, "openSent")
    BY <1>5 DEF OpenSent, Steps, Awaited, Enders
  <2>2. {"armDeadline", "emitClose", "remove"} \subseteq Plain
    BY DEF Plain, Steps, Watched
  <2>3. (IF op.owed THEN <<"emitClose">> \o If(a = "app", "remove")
             ELSE If(a = "app", "armDeadline")) \in Seq(Plain)
    BY <2>2, PlainCalls, PlainIf, PlainConcat
  <2>4. Still
    BY <1>5 DEF OpenSent, Still, DisarmDeadline
  <2> QED BY <1>5, <2>1, <2>2, <2>3, <2>4, CalmStep DEF OpenSent, Terminal
<1>6. CASE OpenFull(a)
  <2>1. "openFull" \in Steps \ Awaited /\ Doing(a, "openFull")
    BY <1>6 DEF OpenFull, Steps, Awaited, Enders
  <2>2. {"abandonClose", "armDeadline", "armOpenRetry"} \subseteq Plain
    BY DEF Plain, Steps, Watched
  <2>3. (If(op.owed, "abandonClose") \o If(~op.abandon, "armOpenRetry")
             \o If(a = "app", "armDeadline")) \in Seq(Plain)
    BY <2>2, PlainCalls, PlainIf, PlainConcat
  <2>4. Still
    BY <1>6 DEF OpenFull, Still, DisarmDeadline
  <2> QED BY <1>6, <2>1, <2>2, <2>3, <2>4, CalmStep DEF OpenFull, Terminal
<1>7. CASE OpenFail(a)
  <2>1. "openFail" \in Steps \ Awaited /\ Doing(a, "openFail")
    BY <1>7 DEF OpenFail, Steps, Awaited, Enders
  <2>2. {"abandonClose", "remove", "retryFailed", "rollback"} \subseteq Plain
    BY DEF Plain, Steps, Watched
  <2>3. (If(op.owed, "abandonClose")
             \o (IF op.abandon THEN If(a = "app", "remove")
                 ELSE IF a = "app" THEN <<"rollback", "remove">> ELSE <<"retryFailed">>)) \in Seq(Plain)
    BY <2>2, PlainCalls, PlainIf, PlainConcat
  <2>4. Still
    BY <1>7 DEF OpenFail, Still, DisarmDeadline
  <2> QED BY <1>7, <2>1, <2>2, <2>3, <2>4, CalmStep DEF OpenFail, Terminal
<1>8. CASE ArmOpenRetry(a)
  <2>1. "armOpenRetry" \in Steps \ Awaited /\ Doing(a, "armOpenRetry")
    BY <1>8 DEF ArmOpenRetry, Steps, Awaited, Enders
  <2>2. <<>> \in Seq(Plain)
    BY PlainCalls
  <2>4. Still
    BY <1>8 DEF ArmOpenRetry, Still, DisarmDeadline
  <2> QED BY <1>8, <2>1, <2>2, <2>4, CalmStep DEF ArmOpenRetry, Terminal
<1>9. CASE ArmDeadline(a)
  <2>1. "armDeadline" \in Steps \ Awaited /\ Doing(a, "armDeadline")
    BY <1>9 DEF ArmDeadline, Steps, Awaited, Enders
  <2>2. <<>> \in Seq(Plain)
    BY PlainCalls
  <2>4. Still
    BY <1>9 DEF ArmDeadline, Still, DisarmDeadline
  <2> QED BY <1>9, <2>1, <2>2, <2>4, CalmStep DEF ArmDeadline, Terminal
<1>10. CASE Rollback(a)
  <2>1. "rollback" \in Steps \ Awaited /\ Doing(a, "rollback")
    BY <1>10 DEF Rollback, Steps, Awaited, Enders
  <2>2. {"maybeRelease", "resetPhase"} \subseteq Plain
    BY DEF Plain, Steps, Watched
  <2>3. /\ <<"maybeRelease", "resetPhase">> \in Seq(Plain)
        /\ <<>> \in Seq(Plain)
    BY <2>2, PlainCalls, PlainIf, PlainConcat
  <2>4. Still
    BY <1>10 DEF Rollback, Still, DisarmDeadline
  <2> QED BY <1>10, <2>1, <2>2, <2>3, <2>4, CalmStep DEF Rollback, Terminal
<1>11. CASE ResetPhase(a)
  <2>1. "resetPhase" \in Steps \ Awaited /\ Doing(a, "resetPhase")
    BY <1>11 DEF ResetPhase, Steps, Awaited, Enders
  <2>2. <<>> \in Seq(Plain)
    BY PlainCalls
  <2>4. Still
    BY <1>11 DEF ResetPhase, Still, DisarmDeadline
  <2> QED BY <1>11, <2>1, <2>2, <2>4, CalmStep DEF ResetPhase, Terminal
<1>12. CASE RetryOpen(a)
  <2>1. "retryOpen" \in Steps \ Awaited /\ Doing(a, "retryOpen")
    BY <1>12 DEF RetryOpen, Steps, Awaited, Enders
  <2>2. {"attemptOpen"} \subseteq Plain
    BY DEF Plain, Steps, Watched
  <2>3. If(state = "Connecting" /\ ~mx.gate, "attemptOpen") \in Seq(Plain)
    BY <2>2, PlainCalls, PlainIf, PlainConcat
  <2>4. Still
    BY <1>12 DEF RetryOpen, Still, DisarmDeadline
  <2> QED BY <1>12, <2>1, <2>2, <2>3, <2>4, CalmStep DEF RetryOpen, Terminal
<1>13. CASE RetryFailed(a)
  <2>1. "retryFailed" \in Steps \ Awaited /\ Doing(a, "retryFailed")
    BY <1>13 DEF RetryFailed, Steps, Awaited, Enders
  <2>2. {"maybeRelease", "notifyClose"} \subseteq Plain
    BY DEF Plain, Steps, Watched
  <2>3. /\ <<"maybeRelease", "notifyClose">> \in Seq(Plain)
        /\ <<>> \in Seq(Plain)
    BY <2>2, PlainCalls, PlainIf, PlainConcat
  <2>4. Still
    BY <1>13 DEF RetryFailed, Still, DisarmDeadline
  <2>5. Has(<<"maybeRelease", "notifyClose">>, "notifyClose") /\ "notifyClose" \in Enders
    BY HasTwo DEF Enders
  <2> QED BY <1>13, <2>1, <2>2, <2>3, <2>4, <2>5, CalmStep DEF RetryFailed, Terminal
<1>14. CASE RxAck(a)
  <2>1. "rxAck" \in Steps \ Awaited /\ Doing(a, "rxAck")
    BY <1>14 DEF RxAck, Steps, Awaited, Enders
  <2>2. {"ackConnect"} \subseteq Plain
    BY DEF Plain, Steps, Watched
  <2>3. If(state = "Connecting", "ackConnect") \in Seq(Plain)
    BY <2>2, PlainCalls, PlainIf, PlainConcat
  <2>4. Still
    BY <1>14 DEF RxAck, Still, DisarmDeadline
  <2> QED BY <1>14, <2>1, <2>2, <2>3, <2>4, CalmStep DEF RxAck, Terminal
<1>15. CASE AckConnect(a)
  <2>1. "ackConnect" \in Steps \ Awaited /\ Doing(a, "ackConnect")
    BY <1>15 DEF AckConnect, Steps, Awaited, Enders
  <2>2. {"maybeRelease"} \subseteq Plain
    BY DEF Plain, Steps, Watched
  <2>3. /\ <<"maybeRelease">> \in Seq(Plain)
        /\ <<>> \in Seq(Plain)
    BY <2>2, PlainCalls, PlainIf, PlainConcat
  <2>4. Still
    BY <1>15 DEF AckConnect, Still, DisarmDeadline
  <2> QED BY <1>15, <2>1, <2>2, <2>3, <2>4, CalmStep DEF AckConnect, Terminal
<1> QED BY <1>1, <1>2, <1>3, <1>4, <1>5, <1>6, <1>7, <1>8, <1>9, <1>10, <1>11, <1>12, <1>13, <1>14, <1>15
    DEF HandshakeStep

\* The teardown steps that only move on.
Passing(a) ==
  \/ AbandonClose(a) \/ CancelClose(a) \/ MaybeRelease(a) \/ Close(a)
  \/ CloseHandshake(a) \/ CloseCas(a) \/ CloseConnected(a) \/ EmitCloseAndTransition(a)
  \/ CasDisconnecting(a) \/ TcpEof(a) \/ EofStream(a) \/ RxClose(a)
  \/ FinalizeRemote(a) \/ RxError(a) \/ ForceClaim(a) \/ FlushTail(a)
  \/ DropSocket(a) \/ TimeoutClose(a) \/ Teardown(a) \/ AbandonLate(a)
  \/ LocalDisconnect(a) \/ SendAck(a) \/ AckSnapshot(a) \/ AckTransport(a)

LEMMA PassingEnd ==
  ASSUME TypeOK, EndInv, NEW a \in Actors, Passing(a)
  PROVE  EndInv'
<1>1. CASE AbandonClose(a)
  <2>1. "abandonClose" \in Steps \ Awaited /\ Doing(a, "abandonClose")
    BY <1>1 DEF AbandonClose, Steps, Awaited, Enders
  <2>2. {"maybeRelease"} \subseteq Plain
    BY DEF Plain, Steps, Watched
  <2>3. If(cf.frame = "Owed", "maybeRelease") \in Seq(Plain)
    BY <2>2, PlainCalls, PlainIf, PlainConcat
  <2>4. Still
    BY <1>1 DEF AbandonClose, Still, DisarmDeadline, TypeOK, CloseRecord
  <2> QED BY <1>1, <2>1, <2>2, <2>3, <2>4, CalmStep DEF AbandonClose, Terminal
<1>2. CASE CancelClose(a)
  <2>1. "cancelClose" \in Steps \ Awaited /\ Doing(a, "cancelClose")
    BY <1>2 DEF CancelClose, Steps, Awaited, Enders
  <2>2. {"maybeRelease"} \subseteq Plain
    BY DEF Plain, Steps, Watched
  <2>3. <<"maybeRelease">> \in Seq(Plain)
    BY <2>2, PlainCalls, PlainIf, PlainConcat
  <2>4. Still
    BY <1>2 DEF CancelClose, Still, DisarmDeadline, TypeOK, CloseRecord
  <2> QED BY <1>2, <2>1, <2>2, <2>3, <2>4, CalmStep DEF CancelClose, Terminal
<1>3. CASE MaybeRelease(a)
  <2>1. "maybeRelease" \in Steps \ Awaited /\ Doing(a, "maybeRelease")
    BY <1>3 DEF MaybeRelease, Steps, Awaited, Enders
  <2>2. {"releaseId"} \subseteq Plain
    BY DEF Plain, Steps, Watched
  <2>3. If(IdReleasable, "releaseId") \in Seq(Plain)
    BY <2>2, PlainCalls, PlainIf, PlainConcat
  <2>4. Still
    BY <1>3 DEF MaybeRelease, Still, DisarmDeadline
  <2> QED BY <1>3, <2>1, <2>2, <2>3, <2>4, CalmStep DEF MaybeRelease, Terminal
<1>4. CASE Close(a)
  <2>1. "close" \in Steps \ Awaited /\ Doing(a, "close")
    BY <1>4 DEF Close, Steps, Awaited, Enders
  <2>2. {"closeConnected", "closeHandshake"} \subseteq Plain
    BY DEF Plain, Steps, Watched
  <2>3. (IF co.abort THEN <<>>
         ELSE If(state = "Connecting", "closeHandshake")
              \o If(state = "Connected", "closeConnected")) \in Seq(Plain)
    BY <2>2, PlainCalls, PlainIf, PlainConcat
  <2>4. Still
    BY <1>4 DEF Close, Still, DisarmDeadline
  <2> QED BY <1>4, <2>1, <2>2, <2>3, <2>4, CalmStep DEF Close, Terminal
<1>5. CASE CloseHandshake(a)
  <2>1. "closeHandshake" \in Steps \ Awaited /\ Doing(a, "closeHandshake")
    BY <1>5 DEF CloseHandshake, Steps, Awaited, Enders
  <2>2. {"closeCas", "emitClose"} \subseteq Plain
    BY DEF Plain, Steps, Watched
  <2>3. (If(op.phase = "Sent", "emitClose") \o <<"closeCas">>) \in Seq(Plain)
    BY <2>2, PlainCalls, PlainIf, PlainConcat
  <2>4. Still
    BY <1>5, DeferForward DEF CloseHandshake, Still, DisarmDeadline, TypeOK
  <2> QED BY <1>5, <2>1, <2>2, <2>3, <2>4, CalmStep DEF CloseHandshake, Terminal
<1>6. CASE CloseCas(a)
  <2>1. "closeCas" \in Steps \ Awaited /\ Doing(a, "closeCas")
    BY <1>6 DEF CloseCas, Steps, Awaited, Enders
  <2>2. {"maybeRelease", "notifyClose"} \subseteq Plain
    BY DEF Plain, Steps, Watched
  <2>3. /\ <<"maybeRelease", "notifyClose">> \in Seq(Plain)
        /\ <<>> \in Seq(Plain)
    BY <2>2, PlainCalls, PlainIf, PlainConcat
  <2>4. Still
    BY <1>6 DEF CloseCas, Still, DisarmDeadline
  <2>5. Has(<<"maybeRelease", "notifyClose">>, "notifyClose") /\ "notifyClose" \in Enders
    BY HasTwo DEF Enders
  <2> QED BY <1>6, <2>1, <2>2, <2>3, <2>4, <2>5, CalmStep DEF CloseCas, Terminal
<1>7. CASE CloseConnected(a)
  <2>1. "closeConnected" \in Steps \ Awaited /\ Doing(a, "closeConnected")
    BY <1>7 DEF CloseConnected, Steps, Awaited, Enders
  <2>2. {"driveAll", "emitCloseAndTransition"} \subseteq Plain
    BY DEF Plain, Steps, Watched
  <2>3. /\ <<"driveAll">> \in Seq(Plain)
        /\ <<"emitCloseAndTransition">> \in Seq(Plain)
    BY <2>2, PlainCalls, PlainIf, PlainConcat
  <2>4. Still
    BY <1>7, NoteForward DEF CloseConnected, Still, DisarmDeadline, TypeOK
  <2> QED BY <1>7, <2>1, <2>2, <2>3, <2>4, CalmStep DEF CloseConnected, Terminal
<1>8. CASE EmitCloseAndTransition(a)
  <2>1. "emitCloseAndTransition" \in Steps \ Awaited /\ Doing(a, "emitCloseAndTransition")
    BY <1>8 DEF EmitCloseAndTransition, Steps, Awaited, Enders
  <2>2. {"casDisconnecting", "emitClose", "maybeRelease", "notifyClose"} \subseteq Plain
    BY DEF Plain, Steps, Watched
  <2>3. (If(~co.closeSent, "emitClose")
         \o <<"casDisconnecting", "maybeRelease", "notifyClose">>) \in Seq(Plain)
    BY <2>2, PlainCalls, PlainIf, PlainConcat
  <2>4. Still
    BY <1>8 DEF EmitCloseAndTransition, Still, DisarmDeadline
  <2> QED BY <1>8, <2>1, <2>2, <2>3, <2>4, CalmStep DEF EmitCloseAndTransition, Terminal
<1>9. CASE CasDisconnecting(a)
  <2>1. "casDisconnecting" \in Steps \ Awaited /\ Doing(a, "casDisconnecting")
    BY <1>9 DEF CasDisconnecting, Steps, Awaited, Enders
  <2>2. {"maybeRelease"} \subseteq Plain
    BY DEF Plain, Steps, Watched
  <2>3. If(state = "Connected", "maybeRelease") \in Seq(Plain)
    BY <2>2, PlainCalls, PlainIf, PlainConcat
  <2>4. Still
    BY <1>9 DEF CasDisconnecting, Still, DisarmDeadline
  <2> QED BY <1>9, <2>1, <2>2, <2>3, <2>4, CalmStep DEF CasDisconnecting, Terminal
<1>10. CASE TcpEof(a)
  <2>1. "eof" \in Steps \ Awaited /\ Doing(a, "eof")
    BY <1>10 DEF TcpEof, Steps, Awaited, Enders
  <2>2. {"close", "eofStream"} \subseteq Plain
    BY DEF Plain, Steps, Watched
  <2>3. (IF co.abort THEN <<>>
         ELSE If(state = "Connecting", "close") \o If(state \in Established, "eofStream")) \in Seq(Plain)
    BY <2>2, PlainCalls, PlainIf, PlainConcat
  <2>4. Still
    BY <1>10 DEF TcpEof, Still, DisarmDeadline
  <2> QED BY <1>10, <2>1, <2>2, <2>3, <2>4, CalmStep DEF TcpEof, Terminal
<1>11. CASE EofStream(a)
  <2>1. "eofStream" \in Steps \ Awaited /\ Doing(a, "eofStream")
    BY <1>11 DEF EofStream, Steps, Awaited, Enders
  <2>2. {"driveAll", "finalizeRemote", "emitClose", "casDisconnecting"} \subseteq Plain
    BY DEF Plain, Steps, Watched
  <2>3. (IF co.closeSent THEN <<>> ELSE EmitLocalClose) \in Seq(Plain)
    BY <2>2, PlainCalls DEF EmitLocalClose
  <2>4. <<"driveAll">> \in Seq(Plain) /\ If(co.remoteSeen, "finalizeRemote") \in Seq(Plain)
    BY <2>2, PlainCalls, PlainIf
  <2>5. ((IF co.closeSent THEN <<>> ELSE EmitLocalClose)
           \o If(co.remoteSeen, "finalizeRemote")) \in Seq(Plain)
    BY <2>3, <2>4, PlainConcat
  <2>6. Still /\ state' = state
    BY <1>11 DEF EofStream, Still
  <2> QED BY <1>11, <2>1, <2>4, <2>5, <2>6, CalmStep DEF EofStream
<1>12. CASE RxClose(a)
  <2>1. "rxClose" \in Steps \ Awaited /\ Doing(a, "rxClose")
    BY <1>12 DEF RxClose, Steps, Awaited, Enders
  <2>2. {"driveAll", "finalizeRemote"} \subseteq Plain
    BY DEF Plain, Steps, Watched
  <2>3. PICK q \in Seq(Plain) : Then(a, q)
    <3>1. \A b : If(b, "finalizeRemote") \in Seq(Plain)
      BY <2>2, PlainIf
    <3>2. <<>> \in Seq(Plain) /\ <<"driveAll">> \in Seq(Plain)
      BY <2>2, PlainCalls
    <3>3. PICK b : \/ Then(a, <<>>) \/ Then(a, <<"driveAll">>)
                   \/ Then(a, If(b, "finalizeRemote"))
      BY <1>12 DEF RxClose
    <3> QED BY <3>1, <3>2, <3>3
  <2>4. Still /\ state' = state
    BY <1>12 DEF RxClose, Still
  <2> QED BY <2>1, <2>3, <2>4, CalmStep
<1>13. CASE FinalizeRemote(a)
  <2>1. "finalizeRemote" \in Steps \ Awaited /\ Doing(a, "finalizeRemote")
    BY <1>13 DEF FinalizeRemote, Steps, Awaited, Enders
  <2>2. {"maybeRelease", "notifyClose"} \subseteq Plain
    BY DEF Plain, Steps, Watched
  <2>3. <<"maybeRelease", "notifyClose">> \in Seq(Plain)
    BY <2>2, PlainCalls, PlainIf, PlainConcat
  <2>4. Still
    BY <1>13 DEF FinalizeRemote, Still, DisarmDeadline
  <2>5. Has(<<"maybeRelease", "notifyClose">>, "notifyClose") /\ "notifyClose" \in Enders
    BY HasTwo DEF Enders
  <2> QED BY <1>13, <2>1, <2>2, <2>3, <2>4, <2>5, CalmStep DEF FinalizeRemote, Terminal
<1>14. CASE RxError(a)
  <2> DEFINE q == If(state \notin Terminal, "maybeRelease") \o <<"notifyClose">>
  <2>1. "rxError" \in Steps \ Awaited /\ Doing(a, "rxError") /\ Then(a, q)
    BY <1>14 DEF RxError, Steps, Awaited, Enders
  <2>2. {"maybeRelease", "notifyClose"} \subseteq Plain
    BY DEF Plain, Steps, Watched
  <2>3. q \in Seq(Plain)
    BY <2>2, PlainCalls, PlainIf, PlainConcat
  <2>4. Has(q, "notifyClose") /\ "notifyClose" \in Enders
    <3>1. If(state \notin Terminal, "maybeRelease") \in Seq(Steps)
          /\ <<"notifyClose">> \in Seq(Steps)
      BY <2>2, PlainCalls, PlainIf, PlainHas
    <3> QED BY <3>1, HasConcat, HasOne DEF Enders
  <2>5. Still
    BY <1>14 DEF RxError, Still, DisarmDeadline
  <2> HIDE DEF q
  <2> QED BY <2>1, <2>3, <2>4, <2>5, CalmStep
<1>15. CASE ForceClaim(a)
  <2>1. {"forceClose", "forceCloseDrain", "expire"} \subseteq Steps \ Awaited
    BY DEF Steps, Awaited, Enders
  <2>2. PICK h \in Steps \ Awaited : Doing(a, h)
    BY <1>15, <2>1 DEF ForceClaim
  <2>3. {"own", "ownDrain", "ownClaimed", "ownAnnounce"} \subseteq Plain
    BY DEF Plain, Steps, Watched
  <2>4. /\ <<>> \in Seq(Plain)
        /\ \A s \in {"own", "ownDrain", "ownClaimed", "ownAnnounce"} : <<s>> \in Seq(Plain)
    BY <2>3, PlainCalls
  <2>5. Still
    <3>1. cf' \in {cf, DeferCloseToSender(op, cf), NoteCloseOwed(DeferCloseToSender(op, cf))}
      BY <1>15 DEF ForceClaim
    <3>2. cf'.frame \in {cf.frame, "Abandoned", "Owed"}
      BY <3>1, DeferForward, NoteForward DEF TypeOK
    <3>3. UNCHANGED <<er, once, man, drv, mx, left>> /\ timers \ {"open", "deadline"} \subseteq timers'
      BY <1>15 DEF ForceClaim
    <3> QED BY <3>2, <3>3 DEF Still
  <2>6. \/ state' = state /\ Then(a, <<>>)
        \/ state' = state /\ (Then(a, <<"own">>) \/ Then(a, <<"ownDrain">>))
        \/ Then(a, <<"ownClaimed">>) \/ Then(a, <<"ownAnnounce">>)
    BY <1>15 DEF ForceClaim
  <2>7. \A s \in {"ownClaimed", "ownAnnounce"} : Has(<<s>>, s) /\ s \in Enders
    BY HasOne DEF Enders
  <2> QED BY <2>2, <2>4, <2>5, <2>6, <2>7, CalmStep
<1>16. CASE FlushTail(a)
  <2>1. "flushTail" \in Steps \ Awaited /\ Doing(a, "flushTail")
    BY <1>16 DEF FlushTail, Steps, Awaited, Enders
  <2>2. <<>> \in Seq(Plain)
    BY PlainCalls
  <2>4. Still
    BY <1>16 DEF FlushTail, Still, DisarmDeadline
  <2> QED BY <1>16, <2>1, <2>2, <2>4, CalmStep DEF FlushTail, Terminal
<1>17. CASE DropSocket(a)
  <2>1. {"dropSocket", "drainSocket"} \subseteq Steps \ Awaited
    BY DEF Steps, Awaited, Enders
  <2>2. PICK h \in Steps \ Awaited : Doing(a, h)
    BY <1>17, <2>1 DEF DropSocket
  <2>3. Still /\ state' = state /\ Then(a, <<>>)
    BY <1>17 DEF DropSocket, Still, TypeOK, SocketRecord
  <2>4. <<>> \in Seq(Plain)
    BY PlainCalls
  <2> QED BY <2>2, <2>3, <2>4, CalmStep
<1>18. CASE TimeoutClose(a)
  <2>1. "timeoutClose" \in Steps \ Awaited /\ Doing(a, "timeoutClose")
    BY <1>18 DEF TimeoutClose, Steps, Awaited, Enders
  <2>2. {"close", "linger"} \subseteq Plain
    BY DEF Plain, Steps, Watched
  <2>3. (IF state = "Disconnecting" THEN <<"linger">> ELSE <<"close">>) \in Seq(Plain)
    BY <2>2, PlainCalls, PlainIf, PlainConcat
  <2>4. Still
    BY <1>18 DEF TimeoutClose, Still, DisarmDeadline
  <2> QED BY <1>18, <2>1, <2>2, <2>3, <2>4, CalmStep DEF TimeoutClose, Terminal
<1>19. CASE Teardown(a)
  <2>1. {"teardown", "teardownAll", "teardownAbandon"} \subseteq Steps \ Awaited
    BY DEF Steps, Awaited, Enders
  <2>2. PICK h \in Steps \ Awaited : Doing(a, h)
    BY <1>19, <2>1 DEF Teardown
  <2>3. {"sendError", "forceCloseDrain", "forceClose", "close", "abandonLate"} \subseteq Plain
    BY DEF Plain, Steps, Watched
  <2>4. /\ \A s \in {"sendError", "forceCloseDrain", "forceClose"} : <<s>> \in Seq(Plain)
        /\ \A b : <<"close">> \o If(b, "abandonLate") \in Seq(Plain)
    BY <2>3, PlainCalls, PlainIf, PlainConcat
  <2>5. \E s, b : \/ Then(a, <<"sendError">>) \/ Then(a, <<"forceCloseDrain">>)
                  \/ Then(a, <<"forceClose">>) \/ Then(a, <<"close">> \o If(b, "abandonLate"))
    BY <1>19 DEF Teardown
  <2>6. Still /\ state' = state
    BY <1>19 DEF Teardown, Still
  <2> QED BY <2>2, <2>4, <2>5, <2>6, CalmStep
<1>20. CASE AbandonLate(a)
  <2>1. "abandonLate" \in Steps \ Awaited /\ Doing(a, "abandonLate")
    BY <1>20 DEF AbandonLate, Steps, Awaited, Enders
  <2>2. {"sendError"} \subseteq Plain
    BY DEF Plain, Steps, Watched
  <2>3. If(state \in Established, "sendError") \in Seq(Plain)
    BY <2>2, PlainCalls, PlainIf, PlainConcat
  <2>4. Still
    BY <1>20 DEF AbandonLate, Still, DisarmDeadline
  <2> QED BY <1>20, <2>1, <2>2, <2>3, <2>4, CalmStep DEF AbandonLate, Terminal
<1>21. CASE LocalDisconnect(a)
  <2>1. {"reset", "hangup"} \subseteq Steps \ Awaited
    BY DEF Steps, Awaited, Enders
  <2>2. PICK h \in Steps \ Awaited : Doing(a, h)
    BY <1>21, <2>1 DEF LocalDisconnect
  <2>3. {"sendError", "close"} \subseteq Plain
    BY DEF Plain, Steps, Watched
  <2>4. <<>> \in Seq(Plain) /\ \A s \in {"sendError", "close"} : <<s>> \in Seq(Plain)
    BY <2>3, PlainCalls
  <2>5. Then(a, <<>>) \/ Then(a, <<"sendError">>) \/ Then(a, <<"close">>)
    BY <1>21 DEF LocalDisconnect
  <2>6. Still /\ state' = state
    BY <1>21 DEF LocalDisconnect, Still
  <2> QED BY <2>2, <2>4, <2>5, <2>6, CalmStep
<1>22. CASE SendAck(a)
  <2>1. "ack" \in Steps \ Awaited /\ Doing(a, "ack")
    BY <1>22 DEF SendAck, Steps, Awaited, Enders
  <2>2. {"ackSnapshot"} \subseteq Plain
    BY DEF Plain, Steps, Watched
  <2>3. If(state \in Established, "ackSnapshot") \in Seq(Plain)
    BY <2>2, PlainCalls, PlainIf, PlainConcat
  <2>4. Still
    BY <1>22 DEF SendAck, Still, DisarmDeadline
  <2> QED BY <1>22, <2>1, <2>2, <2>3, <2>4, CalmStep DEF SendAck, Terminal
<1>23. CASE AckSnapshot(a)
  <2>1. "ackSnapshot" \in Steps \ Awaited /\ Doing(a, "ackSnapshot")
    BY <1>23 DEF AckSnapshot, Steps, Awaited, Enders
  <2>2. {"ackTransport"} \subseteq Plain
    BY DEF Plain, Steps, Watched
  <2>3. If(~mx.gate, "ackTransport") \in Seq(Plain)
    BY <2>2, PlainCalls, PlainIf, PlainConcat
  <2>4. Still
    BY <1>23 DEF AckSnapshot, Still, DisarmDeadline
  <2> QED BY <1>23, <2>1, <2>2, <2>3, <2>4, CalmStep DEF AckSnapshot, Terminal
<1>24. CASE AckTransport(a)
  <2>1. "ackTransport" \in Steps \ Awaited /\ Doing(a, "ackTransport")
    BY <1>24 DEF AckTransport, Steps, Awaited, Enders
  <2>2. <<>> \in Seq(Plain)
    BY PlainCalls
  <2>4. Still
    BY <1>24, TransportLeaves DEF AckTransport, Still, DisarmDeadline, TypeOK
  <2> QED BY <1>24, <2>1, <2>2, <2>4, CalmStep DEF AckTransport, Terminal
<1> QED BY <1>1, <1>2, <1>3, <1>4, <1>5, <1>6, <1>7, <1>8, <1>9, <1>10, <1>11, <1>12,
    <1>13, <1>14, <1>15, <1>16, <1>17, <1>18, <1>19, <1>20, <1>21, <1>22, <1>23, <1>24
    DEF Passing

----------------------------------------------------------------------------
(* Steps of an ending. *)

\* What every step does to the stacks, and what follows for the driver, the
\* destroyed tunnel and the one open().
LEMMA EndMoves ==
  ASSUME TypeOK, EndInv, NEW a \in Actors, NEW h, NEW q \in Seq(Steps), h # "drive",
         Doing(a, h), Then(a, q), drv' = drv, man'.alive = man.alive,
         man'.present => man.present, left'["open"] = left["open"]
  PROVE  /\ \A s : s # h /\ Pending(s) => Pending(s)'
         /\ \A s : Has(q, s) => Pending(s)'
         /\ \A s : Pending(s)' => Pending(s) \/ Has(q, s)
         /\ ~Has(q, "arriveTransportDeferred") => Deferred'
         /\ DriverRuns' /\ Dead' /\ OpenOnce'
<1>1. TodoOK
  BY DEF TypeOK, TodoOK
<1>2. ASSUME ~Has(q, "arriveTransportDeferred") PROVE Deferred'
  <2>1. \A i \in DOMAIN q : q[i] # "arriveTransportDeferred"
    BY <1>2 DEF Has
  <2> QED BY <1>1, <2>1, DeferredMoves DEF EndInv
<1>3. DriverRuns'
  <2>1. drv.owner \in Actors
    BY DEF TypeOK, DriverRecord
  <2> QED BY <1>1, <2>1, Moved DEF EndInv, DriverRuns
<1>4. Dead' /\ OpenOnce'
  BY DEF EndInv, Dead, OpenOnce, Doing, Client
<1> QED BY <1>1, <1>2, <1>3, <1>4, PendingMoves

LEMMA StepCalls ==
  /\ <<>> \in Seq(Steps)
  /\ \A s \in Steps : <<s>> \in Seq(Steps)
  /\ \A s, t \in Steps : <<s, t>> \in Seq(Steps)
  /\ \A s, t, u \in Steps : <<s, t, u>> \in Seq(Steps)
OBVIOUS

\* ReleaseId, SetHook and RemoveEntry: the id and its hook.
LEMMA HookEnd ==
  ASSUME TypeOK, EndInv, NEW a \in Actors, ReleaseId(a) \/ SetHook(a) \/ RemoveEntry(a)
  PROVE  EndInv'
<1>1. ASSUME NEW h, NEW q \in Seq(Steps), Doing(a, h), Then(a, q),
             h \notin Awaited \ {"remove", "setHook"}, \A s \in Watched \ {"gate"} : ~Has(q, s),
             UNCHANGED <<state, er, once, drv, cf, timers>>,
             man'.alive = man.alive, man'.posted = man.posted, man'.present => man.present,
             left' = left, h = "remove" => ~man'.present, Has(q, "gate") => ~man'.present,
             HookSet'
      PROVE  EndInv'
  <2>1. h # "drive" /\ ~Has(q, "arriveTransportDeferred")
    BY <1>1 DEF Awaited, Watched
  <2>2. /\ \A s : s # h /\ Pending(s) => Pending(s)'
        /\ \A s : Pending(s)' => Pending(s) \/ Has(q, s)
        /\ Deferred' /\ DriverRuns' /\ Dead' /\ OpenOnce'
    BY <1>1, <2>1, EndMoves
  <2>3. /\ \A s \in Awaited \ {"remove", "setHook"} : Pending(s) => Pending(s)'
        /\ \A s \in Watched \ {"gate"} : Pending(s)' => Pending(s)
    BY <1>1, <2>2
  <2>4. NotifiedRemoves'
    BY <1>1, <2>2 DEF EndInv, NotifiedRemoves
  <2>5. EndNotifies' /\ TerminalClaimed'
    BY <1>1, <2>3 DEF EndInv, EndNotifies, TerminalClaimed, Awaited, Watched, Enders
  <2>6. FenceSettles' /\ FinalizerTaken'
    BY <1>1, <2>2, <2>3 DEF EndInv, FenceSettles, FinalizerTaken, Awaited, Enders
  <2>7. SlotDriven' /\ SlotFlags' /\ CloseHeld'
    BY <1>1, <2>3 DEF EndInv, SlotDriven, SlotFlags, CloseHeld, Awaited
  <2> QED BY <1>1, <2>2, <2>4, <2>5, <2>6, <2>7 DEF EndInv
<1>2. TodoOK
  BY DEF TypeOK, TodoOK
<1>3. CASE ReleaseId(a)
  <2>1. Doing(a, "releaseId") /\ Then(a, <<>>) /\ <<>> \in Seq(Steps) /\ \A s : ~Has(<<>>, s)
    BY <1>3, HasNone DEF ReleaseId
  <2>2. Pending("setHook") => Pending("setHook")'
    BY <1>2, <2>1, PendingMoves
  <2>3. HookSet' /\ man'.alive = man.alive /\ man'.posted = man.posted
        /\ (man'.present => man.present)
    BY <1>3, <2>2 DEF ReleaseId, EndInv, HookSet, TypeOK, ManagerRecord, SocketRecord
  <2>4. UNCHANGED <<state, er, once, drv, cf, timers, left>>
    BY <1>3 DEF ReleaseId
  <2>5. "releaseId" \notin Awaited /\ "releaseId" # "remove"
    BY DEF Awaited, Enders
  <2> QED BY <1>1, <2>1, <2>3, <2>4, <2>5
<1>4. CASE SetHook(a)
  <2>1. Doing(a, "setHook") /\ Then(a, <<"maybeRelease">>) /\ <<"maybeRelease">> \in Seq(Steps)
    BY <1>4 DEF SetHook, Steps
  <2>2. \A s \in Watched : ~Has(<<"maybeRelease">>, s)
    BY HasOne DEF Watched
  <2>3. HookSet'
    BY <1>4 DEF SetHook, HookSet, TypeOK, SocketRecord
  <2>4. UNCHANGED <<state, er, once, drv, cf, timers, left, man>>
    BY <1>4 DEF SetHook
  <2>5. "setHook" \notin Awaited \ {"remove", "setHook"} /\ "setHook" # "remove"
        /\ "gate" \in Watched
    BY DEF Watched
  <2> QED BY <1>1, <2>1, <2>2, <2>3, <2>4, <2>5
<1>5. CASE RemoveEntry(a)
  <2>1. PICK h \in {"remove", "closeAll", "abandonAll", "closeAllLocal"} :
          /\ Doing(a, h)
          /\ man' = [man EXCEPT !.present = FALSE,
                                !.idFree = @ \/ (man.present /\ h = "closeAllLocal")]
          /\ Then(a, IF ~man.present THEN <<>>
                     ELSE CASE h = "remove" -> <<"setHook", "teardown">>
                            [] h = "closeAll" -> <<"setHook", "teardownAll">>
                            [] h = "abandonAll" -> <<"setHook", "teardownAbandon">>
                            [] h = "closeAllLocal" -> <<"cancelClose", "gate", "forceClose">>)
    BY <1>5 DEF RemoveEntry
  <2>2. PICK q : /\ Then(a, q)
                 /\ \/ q = <<>> /\ ~man.present
                    \/ q = <<"setHook", "teardown">>
                    \/ q = <<"setHook", "teardownAll">>
                    \/ q = <<"setHook", "teardownAbandon">>
                    \/ q = <<"cancelClose", "gate", "forceClose">> /\ h = "closeAllLocal" /\ man.present
    BY <2>1
  <2>3. q \in Seq(Steps)
    <3>1. {"setHook", "teardown", "teardownAll", "teardownAbandon", "cancelClose", "gate",
           "forceClose"} \subseteq Steps
      BY DEF Steps
    <3> QED BY <2>2, <3>1, StepCalls
  <2>4. /\ \A s \in Watched \ {"gate"} : ~Has(q, s)
        /\ Has(q, "setHook") \/ ~man.present \/ (h = "closeAllLocal" /\ man.present)
    BY <2>2, HasNone, HasTwo, HasThree DEF Watched
  <2>5. ~man'.present /\ man'.alive = man.alive /\ man'.posted = man.posted
        /\ (man.idFree => man'.idFree) /\ (h = "closeAllLocal" /\ man.present => man'.idFree)
    BY <2>1 DEF TypeOK, ManagerRecord
  <2>6. UNCHANGED <<state, er, once, drv, cf, timers, left, mx>>
    BY <1>5 DEF RemoveEntry
  <2>7. HookSet'
    <3>1. /\ Pending("setHook") => Pending("setHook")'
          /\ Has(q, "setHook") => Pending("setHook")'
      BY <1>2, <2>1, <2>2, <2>3, PendingMoves
    <3> QED BY <2>4, <2>5, <2>6, <3>1 DEF EndInv, HookSet
  <2>8. h \notin Awaited \ {"remove", "setHook"}
    BY DEF Awaited, Enders
  <2> QED BY <1>1, <2>1, <2>2, <2>3, <2>4, <2>5, <2>6, <2>7, <2>8
<1> QED BY <1>3, <1>4, <1>5

\* notify_close_once(): the tunnel is removed, inline or posted.
LEMMA NotifyEnd ==
  ASSUME TypeOK, EndInv, NEW a \in Actors, NotifyClose(a)
  PROVE  EndInv'
<1> DEFINE q == If(Client /\ ~once.notified, "remove")
<1>1. /\ Doing(a, "notifyClose") /\ Then(a, q) /\ q \in Seq(Steps)
      /\ \A s : Has(q, s) <=> (Client /\ ~once.notified) /\ "remove" = s
  <2>1. "remove" \in Steps
    BY DEF Steps
  <2>2. q \in Seq(Steps)
    BY <2>1, IfType
  <2>3. \A s : Has(q, s) <=> (Client /\ ~once.notified) /\ "remove" = s
    BY HasIf
  <2> QED BY <2>2, <2>3 DEF NotifyClose
<1> HIDE DEF q
<1>2. /\ once'.notified
      /\ man'.posted = (man.posted \/ (~Client /\ ~once.notified))
      /\ man'.alive = man.alive /\ man'.present = man.present /\ man'.idFree = man.idFree
      /\ UNCHANGED <<state, er, drv, cf, timers, left, mx>>
  BY DEF NotifyClose, TypeOK, OnceRecord, ManagerRecord
<1>3. /\ \A s : s # "notifyClose" /\ Pending(s) => Pending(s)'
      /\ \A s : Has(q, s) => Pending(s)'
      /\ \A s : Pending(s)' => Pending(s) \/ Has(q, s)
      /\ Deferred' /\ DriverRuns' /\ Dead' /\ OpenOnce'
  BY <1>1, <1>2, EndMoves
<1>4. NotifiedRemoves' /\ HookSet'
  BY <1>1, <1>2, <1>3 DEF EndInv, NotifiedRemoves, HookSet
<1>5. EndNotifies' /\ TerminalClaimed'
  BY <1>1, <1>2, <1>3 DEF EndInv, EndNotifies, TerminalClaimed
<1>6. FenceSettles' /\ FinalizerTaken'
  BY <1>1, <1>2, <1>3 DEF EndInv, FenceSettles, FinalizerTaken
<1>7. SlotDriven' /\ SlotFlags' /\ CloseHeld'
  BY <1>1, <1>2, <1>3 DEF EndInv, SlotDriven, SlotFlags, CloseHeld
<1> QED BY <1>3, <1>4, <1>5, <1>6, <1>7 DEF EndInv

\* resources_released_.exchange(): whoever claimed the state still notifies.
LEMMA OwnEnd ==
  ASSUME TypeOK, EndInv, NEW a \in Actors, ForceOwn(a)
  PROVE  EndInv'
<1>1. {"driveAll", "flushTail", "emitClose", "fence", "fenceDrain", "maybeRelease",
       "notifyClose"} \subseteq Plain
  BY DEF Plain, Steps, Watched
<1>2. PICK h \in {"own", "ownDrain", "ownClaimed", "ownAnnounce"} :
        /\ Doing(a, h)
        /\ Then(a, IF h \notin {"ownClaimed", "ownAnnounce"} /\ once.released THEN <<>>
                   ELSE (IF ~once.released /\ ~mx.gate THEN <<"driveAll", "flushTail">> ELSE <<>>)
                        \o If(h = "ownAnnounce", "emitClose")
                        \o If(~once.released, IF h = "ownDrain" THEN "fenceDrain" ELSE "fence")
                        \o <<"driveAll">> \o <<"maybeRelease", "notifyClose">>)
  BY DEF ForceOwn
<1>3. UNCHANGED <<state, er, cf, drv, mx, man, timers, left>> /\ once'.notified = once.notified
  BY DEF ForceOwn, TypeOK, OnceRecord
<1>4. PICK q \in Seq(Plain) : /\ Then(a, q)
                              /\ h \in {"own", "ownDrain"} \/ Has(q, "notifyClose")
  <2> DEFINE r == (IF ~once.released /\ ~mx.gate THEN <<"driveAll", "flushTail">> ELSE <<>>)
                  \o If(h = "ownAnnounce", "emitClose")
                  \o If(~once.released, IF h = "ownDrain" THEN "fenceDrain" ELSE "fence")
                  \o <<"driveAll">>
             t == <<"maybeRelease", "notifyClose">>
  <2>1. (IF ~once.released /\ ~mx.gate THEN <<"driveAll", "flushTail">> ELSE <<>>) \in Seq(Plain)
    BY <1>1, PlainCalls
  <2>2. /\ If(h = "ownAnnounce", "emitClose") \in Seq(Plain)
        /\ If(~once.released, IF h = "ownDrain" THEN "fenceDrain" ELSE "fence") \in Seq(Plain)
        /\ <<"driveAll">> \in Seq(Plain) /\ t \in Seq(Plain) /\ <<>> \in Seq(Plain)
    BY <1>1, PlainCalls, PlainIf
  <2>3. r \in Seq(Plain)
    BY <2>1, <2>2, PlainConcat
  <2>4. r \o t \in Seq(Plain) /\ Has(r \o t, "notifyClose")
    <3>1. Has(t, "notifyClose")
      BY HasTwo
    <3> HIDE DEF r, t
    <3>2. r \o t \in Seq(Plain)
      BY <2>2, <2>3, PlainConcat
    <3>3. r \in Seq(Steps) /\ t \in Seq(Steps)
      BY <2>2, <2>3, PlainHas
    <3> QED BY <3>1, <3>2, <3>3, HasConcat
  <2>5. Then(a, r \o t) \/ (h \in {"own", "ownDrain"} /\ Then(a, <<>>))
    BY <1>2
  <2> HIDE DEF r, t
  <2> QED BY <2>2, <2>4, <2>5
<1>5. q \in Seq(Steps) /\ \A s \in Watched : ~Has(q, s)
  BY PlainHas
<1>6. h # "drive" /\ ~Has(q, "arriveTransportDeferred")
  BY <1>5 DEF Watched
<1>7. /\ \A s : s # h /\ Pending(s) => Pending(s)'
      /\ \A s : Has(q, s) => Pending(s)'
      /\ \A s : Pending(s)' => Pending(s) \/ Has(q, s)
      /\ Deferred' /\ DriverRuns' /\ Dead' /\ OpenOnce'
  BY <1>2, <1>3, <1>4, <1>5, <1>6, EndMoves
<1>8. /\ \A s \in Awaited \ {"ownClaimed", "ownAnnounce"} : Pending(s) => Pending(s)'
      /\ \A s \in Watched : Pending(s)' => Pending(s)
      /\ (\E s \in Enders : Pending(s)) => \E s \in Enders : Pending(s)'
  <2>1. {"own", "ownDrain"} \cap Awaited = {} /\ {"notifyClose"} \subseteq Enders
    BY DEF Awaited, Enders
  <2>2. Enders \subseteq Awaited
    BY DEF Awaited
  <2> QED BY <1>4, <1>5, <1>7, <2>1, <2>2
<1>9. NotifiedRemoves' /\ HookSet'
  BY <1>3, <1>8 DEF EndInv, NotifiedRemoves, HookSet, Awaited
<1>10. EndNotifies' /\ TerminalClaimed'
  BY <1>3, <1>8 DEF EndInv, EndNotifies, TerminalClaimed, Watched
<1>11. FenceSettles' /\ FinalizerTaken'
  BY <1>3, <1>8 DEF EndInv, FenceSettles, FinalizerTaken, Awaited, Watched, Enders
<1>12. SlotDriven' /\ SlotFlags' /\ CloseHeld'
  BY <1>3, <1>8 DEF EndInv, SlotDriven, SlotFlags, CloseHeld, Awaited
<1> QED BY <1>7, <1>9, <1>10, <1>11, <1>12 DEF EndInv

\* settle_error_for_shutdown_locked(), field by field.
LEMMA SettleFields ==
  ASSUME NEW e \in ErrorRecord
  PROVE  LET s == SettleErrorForShutdown(e)
         IN  /\ s.cancelled /\ ~s.armed /\ s.slot = (e.slot /\ e.sending)
             /\ s.claimed = e.claimed /\ s.fence = e.fence /\ s.sending = e.sending
             /\ s.producer = e.producer /\ s.transport = e.transport /\ s.finalize = e.finalize
BY DEF SettleErrorForShutdown, ErrorRecord

\* Shutdown settles a parked ERROR; one inside an attempt stays with the driver.
LEMMA ShutdownParts ==
  ASSUME TypeOK, StreamInv, EndInv, er' = SettleErrorForShutdown(er), drv' = drv, cf' = cf,
         state' = state, once' = once, man' = man, mx'.hook = mx.hook,
         \A s \in Awaited : Pending(s) => Pending(s)',
         \A s \in {"errorState", "lingerClosed", "gate"} : Pending(s)' => Pending(s),
         ParkedError(er) => Pending("arriveTransportDeferred")'
  PROVE  /\ NotifiedRemoves' /\ HookSet' /\ EndNotifies' /\ TerminalClaimed'
         /\ FenceSettles' /\ FinalizerTaken' /\ SlotDriven' /\ SlotFlags' /\ CloseHeld'
<1>1. /\ er'.cancelled /\ ~er'.armed /\ er'.slot = (er.slot /\ er.sending)
      /\ er'.claimed = er.claimed /\ er'.fence = er.fence /\ er'.sending = er.sending
      /\ er'.producer = er.producer /\ er'.transport = er.transport /\ er'.finalize = er.finalize
  BY SettleFields DEF TypeOK
<1>2. NotifiedRemoves' /\ HookSet'
  BY DEF EndInv, NotifiedRemoves, HookSet, Awaited
<1>3. EndNotifies' /\ TerminalClaimed'
  BY <1>1 DEF EndInv, EndNotifies, TerminalClaimed, Awaited
<1>4. FenceSettles' /\ FinalizerTaken'
  BY <1>1 DEF EndInv, FenceSettles, FinalizerTaken, Awaited, Enders, ParkedError
<1>5. SlotDriven' /\ SlotFlags'
  <2>1. drv.kind = "ERROR" => drv.pc # "idle"
    BY DEF StreamInv, DriverOK, KindKnown
  <2> QED BY <1>1, <2>1 DEF EndInv, SlotDriven, SlotFlags
<1>6. CloseHeld'
  BY DEF EndInv, CloseHeld
<1> QED BY <1>2, <1>3, <1>4, <1>5, <1>6

\* The abort of force_close_impl() and close_outbound_gate().
LEMMA ShutdownEnd ==
  ASSUME TypeOK, StreamInv, EndInv, NEW a \in Actors, Fence(a) \/ CloseGate(a)
  PROVE  EndInv'
<1>1. TodoOK
  BY DEF TypeOK, TodoOK
<1>2. CASE Fence(a)
  <2>1. PICK h \in {"fence", "fenceDrain"}, x \in {"drainSocket", "dropSocket"} :
          /\ Doing(a, h)
          /\ Then(a, If(ParkedError(er), "arriveTransportDeferred")
                     \o <<"takeFinalizer">> \o <<x>>)
    BY <1>2 DEF Fence
  <2> DEFINE p == If(ParkedError(er), "arriveTransportDeferred")
             q == p \o <<"takeFinalizer">> \o <<x>>
  <2>2. {"arriveTransportDeferred", "takeFinalizer", "drainSocket", "dropSocket"} \subseteq Steps
    BY DEF Steps
  <2>3. /\ p \in Seq(Steps) /\ <<"takeFinalizer">> \in Seq(Steps) /\ <<x>> \in Seq(Steps)
    BY <2>2, StepCalls, IfType
  <2>4. q \in Seq(Steps) /\ p \o <<"takeFinalizer">> \in Seq(Steps)
    BY <2>3, ConcatType
  <2>5. \A s : Has(q, s) <=> \/ ParkedError(er) /\ s = "arriveTransportDeferred"
                             \/ s = "takeFinalizer" \/ s = x
    <3>1. \A s : /\ Has(p, s) <=> ParkedError(er) /\ "arriveTransportDeferred" = s
                 /\ Has(<<"takeFinalizer">>, s) <=> "takeFinalizer" = s
                 /\ Has(<<x>>, s) <=> x = s
      BY HasOne, HasIf
    <3> HIDE DEF p
    <3>2. \A s : Has(p \o <<"takeFinalizer">>, s) <=> Has(p, s) \/ Has(<<"takeFinalizer">>, s)
      BY <2>3, HasConcat
    <3>3. \A s : Has(q, s) <=> Has(p \o <<"takeFinalizer">>, s) \/ Has(<<x>>, s)
      BY <2>3, <2>4, HasConcat
    <3> QED BY <3>1, <3>2, <3>3
  <2>6. \A i \in DOMAIN q : q[i] = "arriveTransportDeferred" =>
                              i + 1 \in DOMAIN q /\ q[i + 1] = "takeFinalizer"
    <3>1. CASE ParkedError(er)
      <4>1. p = <<"arriveTransportDeferred">>
        BY <3>1 DEF If
      <4> DEFINE t == p \o <<"takeFinalizer">>
      <4>2. Len(t) = 2 /\ t[2] = "takeFinalizer"
        BY <4>1
      <4>3. Len(q) = 3 /\ q[2] = "takeFinalizer" /\ q[3] = x
        <5>1. t \in Seq(Steps) /\ q = t \o <<x>> /\ Len(<<x>>) = 1 /\ <<x>>[1] = x
          BY <2>4
        <5> HIDE DEF t, q
        <5>2. /\ Len(q) = Len(t) + Len(<<x>>)
              /\ \A i \in 1 .. (Len(t) + Len(<<x>>)) :
                   q[i] = IF i <= Len(t) THEN t[i] ELSE <<x>>[i - Len(t)]
          BY <2>3, <5>1, ConcatProperties
        <5>3. Len(q) = 3 /\ \A i \in 1 .. 3 : q[i] = IF i <= 2 THEN t[i] ELSE <<x>>[i - 2]
          BY <4>2, <5>1, <5>2
        <5>4. q[2] = t[2] /\ q[3] = <<x>>[1]
          BY <5>3
        <5> QED BY <4>2, <5>1, <5>3, <5>4
      <4> HIDE DEF q
      <4>4. DOMAIN q = 1 .. 3
        BY <2>4, <4>3, LenProperties
      <4>5. \A i \in 1 .. 3 : i = 1 \/ i = 2 \/ i = 3
        OBVIOUS
      <4>6. 1 + 1 = 2 /\ 2 \in 1 .. 3 /\ x # "arriveTransportDeferred"
        OBVIOUS
      <4> QED BY <4>3, <4>4, <4>5, <4>6
    <3>2. CASE ~ParkedError(er)
      <4>1. ~Has(q, "arriveTransportDeferred")
        BY <2>5, <3>2
      <4> HIDE DEF q
      <4> QED BY <4>1 DEF Has
    <3> QED BY <3>1, <3>2
  <2> HIDE DEF q
  <2>7. Then(a, q)
    BY <2>1 DEF q
  <2>8. /\ er' = SettleErrorForShutdown(er)
        /\ UNCHANGED <<state, cf, drv, mx, once, man, left>>
    BY <1>2 DEF Fence
  <2>9. h # "drive" /\ h \notin Awaited
    BY DEF Awaited, Enders
  <2>10. /\ \A s : s # h /\ Pending(s) => Pending(s)'
         /\ \A s : Has(q, s) => Pending(s)'
         /\ \A s : Pending(s)' => Pending(s) \/ Has(q, s)
         /\ DriverRuns' /\ Dead' /\ OpenOnce'
    BY <2>1, <2>4, <2>7, <2>8, <2>9, EndMoves
  <2>11. Deferred'
    BY <1>1, <2>1, <2>4, <2>6, <2>7, <2>8, DeferredMoves DEF EndInv
  <2>12. /\ \A s \in Awaited : Pending(s) => Pending(s)'
         /\ \A s \in {"errorState", "lingerClosed", "gate"} : Pending(s)' => Pending(s)
         /\ ParkedError(er) => Pending("arriveTransportDeferred")'
    BY <2>5, <2>9, <2>10
  <2> QED BY <2>8, <2>10, <2>11, <2>12, ShutdownParts DEF EndInv
<1>3. CASE CloseGate(a)
  <2> DEFINE q == If(ParkedError(er), "arriveTransportDeferred")
  <2>1. "arriveTransportDeferred" \in Steps
    BY DEF Steps
  <2>2. q \in Seq(Steps) /\ \A s : Has(q, s) <=> ParkedError(er) /\ "arriveTransportDeferred" = s
    BY <2>1, IfType, HasIf
  <2> HIDE DEF q
  <2>3. Doing(a, "gate") /\ Then(a, q)
    BY <1>3 DEF CloseGate, q
  <2>4. Pending("gate")
    <3>1. todo[a] \in Seq(Steps) /\ todo[a] # <<>> /\ Head(todo[a]) = "gate"
      BY <2>3 DEF Doing, TypeOK
    <3>2. 1 \in DOMAIN todo[a] /\ todo[a][1] = "gate"
      BY <3>1, HeadTailProperties, LenProperties, EmptySeq
    <3> QED BY <3>2 DEF Pending, Has
  <2>5. /\ er' = SettleErrorForShutdown(er) /\ mx'.hook = mx.hook
        /\ UNCHANGED <<state, cf, drv, once, man, left>>
    BY <1>3 DEF CloseGate, TypeOK, SocketRecord
  <2>6. "gate" # "drive" /\ "gate" \notin Awaited
    BY DEF Awaited, Enders
  <2>7. /\ \A s : s # "gate" /\ Pending(s) => Pending(s)'
        /\ \A s : Has(q, s) => Pending(s)'
        /\ \A s : Pending(s)' => Pending(s) \/ Has(q, s)
        /\ DriverRuns' /\ Dead' /\ OpenOnce'
    BY <2>2, <2>3, <2>5, <2>6, EndMoves
  <2>8. Deferred'
    BY <2>4, <2>5 DEF EndInv, FinalizerTaken, Deferred
  <2>9. /\ \A s \in Awaited : Pending(s) => Pending(s)'
        /\ \A s \in {"errorState", "lingerClosed", "gate"} : Pending(s)' => Pending(s)
        /\ ParkedError(er) => Pending("arriveTransportDeferred")'
    BY <2>2, <2>6, <2>7
  <2> QED BY <2>5, <2>7, <2>8, <2>9, ShutdownParts DEF EndInv
<1> QED BY <1>2, <1>3

\* The step an actor is doing is pending.
LEMMA DoingPending ==
  ASSUME TypeOK, NEW a \in Actors, NEW h, Doing(a, h)
  PROVE  /\ todo[a] \in Seq(Steps) /\ 1 \in DOMAIN todo[a] /\ todo[a][1] = h
         /\ Has(todo[a], h) /\ Pending(h)
<1>1. todo[a] \in Seq(Steps) /\ todo[a] # <<>> /\ Head(todo[a]) = h
  BY DEF Doing, TypeOK
<1>2. 1 \in DOMAIN todo[a] /\ todo[a][1] = h
  BY <1>1, HeadTailProperties, LenProperties, EmptySeq
<1> QED BY <1>1, <1>2 DEF Pending, Has

\* send_error(), fail_locally() and the linger branch: the claim raises the fence
\* and puts both parties on their way.
LEMMA ErrorEnd ==
  ASSUME TypeOK, EndInv, NEW a \in Actors, SendError(a)
  PROVE  EndInv'
<1>1. PICK h \in {"sendError", "failLocally", "linger"} :
        /\ Doing(a, h)
        /\ er' = ClaimTerminalError(er, h # "failLocally")
        /\ Then(a, IF er.claimed THEN <<>>
                   ELSE <<IF er'.slot THEN "driveAll" ELSE "arriveTransport">>
                        \o (IF h = "linger" THEN <<"lingerClosed", "notifyClose">>
                            ELSE <<"errorState">>)
                        \o <<"arriveProducer">>)
  BY DEF SendError
<1>2. UNCHANGED <<state, cf, drv, mx, once, man, timers, left>>
  BY DEF SendError
<1>3. h # "drive" /\ h \notin Awaited
  BY DEF Awaited, Enders
<1>4. CASE er.claimed
  <2>1. er' = er /\ Then(a, <<>>)
    BY <1>1, <1>4 DEF ClaimTerminalError
  <2>2. <<>> \in Seq(Plain)
    BY PlainCalls
  <2>3. h \in Steps \ Awaited
    BY <1>3 DEF Steps
  <2>4. Still
    BY <1>2, <2>1 DEF Still
  <2> QED BY <1>1, <1>2, <2>1, <2>2, <2>3, <2>4, CalmStep
<1>5. CASE ~er.claimed
  <2> DEFINE s1 == <<IF er'.slot THEN "driveAll" ELSE "arriveTransport">>
             s2 == IF h = "linger" THEN <<"lingerClosed", "notifyClose">> ELSE <<"errorState">>
             s3 == <<"arriveProducer">>
             q == s1 \o s2 \o s3
  <2>1. Then(a, q)
    BY <1>1, <1>5
  <2>2. /\ er'.claimed /\ er'.fence /\ ~er'.producer /\ ~er'.transport /\ ~er'.finalize
        /\ er'.armed = er.armed /\ er'.sending = er.sending /\ er'.cancelled = er.cancelled
        /\ er'.slot => ~er.cancelled
    BY <1>1, <1>5 DEF ClaimTerminalError, TypeOK, ErrorRecord
  <2>3. {"driveAll", "arriveTransport", "lingerClosed", "notifyClose", "errorState",
         "arriveProducer"} \subseteq Steps
    BY DEF Steps
  <2>4. s1 \in Seq(Steps) /\ s2 \in Seq(Steps) /\ s3 \in Seq(Steps)
    BY <2>3, StepCalls
  <2>5. /\ \A s : Has(s1, s) <=> (IF er'.slot THEN "driveAll" ELSE "arriveTransport") = s
        /\ \A s : Has(s2, s) => s \in {"lingerClosed", "notifyClose", "errorState"}
        /\ \A s : Has(s3, s) <=> "arriveProducer" = s
    BY HasOne, HasTwo
  <2> HIDE DEF s1, s2, s3
  <2>6. s1 \o s2 \in Seq(Steps) /\ q \in Seq(Steps)
    BY <2>4, ConcatType
  <2>7. /\ \A s : Has(s1 \o s2, s) <=> Has(s1, s) \/ Has(s2, s)
        /\ \A s : Has(q, s) <=> Has(s1 \o s2, s) \/ Has(s3, s)
    BY <2>4, <2>6, HasConcat
  <2> HIDE DEF q
  <2>8. /\ er'.slot => Has(q, "driveAll")
        /\ ~er'.slot => Has(q, "arriveTransport")
        /\ Has(q, "arriveProducer") /\ ~Has(q, "gate") /\ ~Has(q, "arriveTransportDeferred")
    BY <2>5, <2>7
  <2>9. /\ \A s : s # h /\ Pending(s) => Pending(s)'
        /\ \A s : Has(q, s) => Pending(s)'
        /\ \A s : Pending(s)' => Pending(s) \/ Has(q, s)
        /\ Deferred' /\ DriverRuns' /\ Dead' /\ OpenOnce'
    <3>1. man'.alive = man.alive /\ man'.present = man.present /\ left'["open"] = left["open"]
      BY <1>2
    <3> QED BY <1>1, <1>2, <1>3, <2>1, <2>6, <2>8, <3>1, EndMoves
  <2>10. \A s \in Awaited : Pending(s) => Pending(s)'
    BY <1>3, <2>9
  <2>11. NotifiedRemoves' /\ HookSet' /\ CloseHeld'
    BY <1>2, <2>10 DEF EndInv, NotifiedRemoves, HookSet, CloseHeld, Awaited
  <2>12. EndNotifies' /\ TerminalClaimed'
    BY <2>2 DEF EndNotifies, TerminalClaimed
  <2>13. FenceSettles'
    BY <2>2, <2>8, <2>9 DEF FenceSettles
  <2>14. FinalizerTaken'
    BY <1>2, <2>2, <2>8, <2>9 DEF EndInv, FinalizerTaken
  <2>15. SlotDriven' /\ SlotFlags'
    BY <1>2, <1>5, <2>2, <2>8, <2>9 DEF EndInv, SlotDriven, SlotFlags
  <2> QED BY <2>9, <2>11, <2>12, <2>13, <2>14, <2>15 DEF EndInv
<1> QED BY <1>4, <1>5

\* The terminal transition of a claimed ERROR leaves the callback to the settlement.
LEMMA TerminalEnd ==
  ASSUME TypeOK, EndInv, NEW a \in Actors, TerminalState(a)
  PROVE  EndInv'
<1>1. PICK h \in {"errorState", "lingerClosed"} : Doing(a, h)
  BY DEF TerminalState
<1>2. er.claimed
  BY <1>1, DoingPending DEF EndInv, TerminalClaimed
<1> DEFINE q == If(state \notin Terminal, "maybeRelease")
<1>3. q \in Seq(Plain) /\ Then(a, q)
  <2>1. "maybeRelease" \in Plain
    BY DEF Plain, Steps, Watched
  <2> QED BY <2>1, PlainIf DEF TerminalState
<1> HIDE DEF q
<1>4. q \in Seq(Steps) /\ \A s \in Watched : ~Has(q, s)
  BY <1>3, PlainHas
<1>5. h # "drive" /\ h \notin Awaited
  BY DEF Awaited, Enders
<1>6. /\ UNCHANGED <<cf, er, drv, mx, once, man, left>>
      /\ "error" \in timers => "error" \in timers'
  BY DEF TerminalState, DisarmDeadline
<1>7. /\ \A s : s # h /\ Pending(s) => Pending(s)'
      /\ \A s : Pending(s)' => Pending(s) \/ Has(q, s)
      /\ Deferred' /\ DriverRuns' /\ Dead' /\ OpenOnce'
  <2>1. ~Has(q, "arriveTransportDeferred")
    BY <1>4 DEF Watched
  <2>2. man'.alive = man.alive /\ man'.present = man.present /\ left'["open"] = left["open"]
    BY <1>6
  <2> QED BY <1>1, <1>3, <1>4, <1>5, <1>6, <2>1, <2>2, EndMoves
<1>8. /\ \A s \in Awaited : Pending(s) => Pending(s)'
      /\ \A s \in Watched : Pending(s)' => Pending(s)
  BY <1>4, <1>5, <1>7
<1>9. NotifiedRemoves' /\ HookSet'
  BY <1>6, <1>8 DEF EndInv, NotifiedRemoves, HookSet, Awaited
<1>10. EndNotifies' /\ TerminalClaimed'
  BY <1>2, <1>6, <1>8 DEF EndInv, EndNotifies, TerminalClaimed, Awaited
<1>11. FenceSettles' /\ FinalizerTaken'
  BY <1>6, <1>8 DEF EndInv, FenceSettles, FinalizerTaken, Awaited, Watched, Enders
<1>12. SlotDriven' /\ SlotFlags' /\ CloseHeld'
  BY <1>6, <1>8 DEF EndInv, SlotDriven, SlotFlags, CloseHeld, Awaited
<1> QED BY <1>7, <1>9, <1>10, <1>11, <1>12 DEF EndInv

\* arrive_terminal_error_party(): the second party leaves a finalizer behind.
LEMMA ArriveEnd ==
  ASSUME TypeOK, EndInv, NEW a \in Actors, ArriveParty(a)
  PROVE  EndInv'
<1>1. PICK h \in {"arriveTransport", "arriveTransportDeferred", "arriveProducer"} :
        LET mine == IF h = "arriveProducer" THEN er.producer ELSE er.transport
            other == IF h = "arriveProducer" THEN er.transport ELSE er.producer
            last == ~mine /\ other
            deferred == h = "arriveTransportDeferred"
        IN  /\ Doing(a, h)
            /\ er' = [er EXCEPT !.producer = @ \/ h = "arriveProducer",
                                !.transport = @ \/ h # "arriveProducer",
                                !.finalize = @ \/ (last /\ deferred)]
            /\ Then(a, If(last /\ ~deferred, "finalizer"))
  BY DEF ArriveParty
<1>2. UNCHANGED <<state, cf, drv, mx, once, man, timers, left>>
  BY DEF ArriveParty
<1> DEFINE last == IF h = "arriveProducer" THEN ~er.producer /\ er.transport
                   ELSE ~er.transport /\ er.producer
           q == If(last /\ h # "arriveTransportDeferred", "finalizer")
<1>3. Doing(a, h) /\ Then(a, q)
  <2>1. CASE h = "arriveProducer"
    BY <1>1, <2>1
  <2>2. CASE h # "arriveProducer"
    BY <1>1, <2>2
  <2> QED BY <2>1, <2>2
<1>4. /\ er'.producer = (er.producer \/ h = "arriveProducer")
      /\ er'.transport = (er.transport \/ h # "arriveProducer")
      /\ er'.finalize = (er.finalize \/ (last /\ h = "arriveTransportDeferred"))
      /\ er'.fence = er.fence /\ er'.slot = er.slot /\ er'.claimed = er.claimed
      /\ er'.armed = er.armed /\ er'.sending = er.sending /\ er'.cancelled = er.cancelled
  <2>1. CASE h = "arriveProducer"
    BY <1>1, <2>1 DEF TypeOK, ErrorRecord
  <2>2. CASE h # "arriveProducer"
    BY <1>1, <2>2 DEF TypeOK, ErrorRecord
  <2> QED BY <2>1, <2>2
<1>5. /\ q \in Seq(Steps)
      /\ \A s : Has(q, s) <=> (last /\ h # "arriveTransportDeferred") /\ "finalizer" = s
  <2>1. "finalizer" \in Steps
    BY DEF Steps
  <2> QED BY <2>1, IfType, HasIf
<1> HIDE DEF q
<1>6. /\ \A s : s # h /\ Pending(s) => Pending(s)'
      /\ \A s : Has(q, s) => Pending(s)'
      /\ \A s : Pending(s)' => Pending(s) \/ Has(q, s)
      /\ Deferred' /\ DriverRuns' /\ Dead' /\ OpenOnce'
  <2>1. ~Has(q, "arriveTransportDeferred") /\ h # "drive"
    BY <1>5
  <2>2. man'.alive = man.alive /\ man'.present = man.present /\ left'["open"] = left["open"]
    BY <1>2
  <2> QED BY <1>2, <1>3, <1>5, <2>1, <2>2, EndMoves
<1>7. \A s \in {"errorState", "lingerClosed", "gate"} : Pending(s)' => Pending(s)
  BY <1>5, <1>6
<1>8. \A s \in Awaited \ {h} : Pending(s) => Pending(s)'
  BY <1>6
<1>9. NotifiedRemoves' /\ HookSet' /\ CloseHeld'
  BY <1>2, <1>8 DEF EndInv, NotifiedRemoves, HookSet, CloseHeld, Awaited
<1>10. EndNotifies' /\ TerminalClaimed'
  BY <1>2, <1>4, <1>7, <1>8 DEF EndInv, EndNotifies, TerminalClaimed, Awaited, Enders
<1>11. FenceSettles'
  <2> SUFFICES ASSUME er.fence
               PROVE  /\ er'.producer \/ Pending("arriveProducer")'
                      /\ \/ er'.transport \/ er'.slot
                         \/ Pending("arriveTransport")' \/ Pending("arriveTransportDeferred")'
                      /\ er'.producer /\ er'.transport => er'.finalize \/ Pending("finalizer")'
    BY <1>4 DEF FenceSettles
  <2>1. CASE h = "arriveProducer"
    BY <1>4, <1>5, <1>6, <2>1 DEF EndInv, FenceSettles
  <2>2. CASE h # "arriveProducer"
    BY <1>4, <1>5, <1>6, <2>2 DEF EndInv, FenceSettles
  <2> QED BY <2>1, <2>2
<1>12. FinalizerTaken'
  <2>1. ASSUME h = "arriveTransportDeferred", man.present PROVE Pending("takeFinalizer")
    <3>1. 1 \in DOMAIN todo[a] /\ todo[a][1] = "arriveTransportDeferred"
      BY <1>3, <2>1, DoingPending
    <3>2. 1 + 1 \in DOMAIN todo[a] /\ todo[a][1 + 1] = "takeFinalizer"
      BY <2>1, <3>1 DEF EndInv, Deferred
    <3> QED BY <3>2 DEF Pending, Has
  <2> QED BY <1>2, <1>4, <1>6, <1>7, <2>1 DEF EndInv, FinalizerTaken
<1>13. SlotDriven' /\ SlotFlags'
  BY <1>2, <1>4, <1>6 DEF EndInv, SlotDriven, SlotFlags
<1> QED BY <1>6, <1>9, <1>10, <1>11, <1>12, <1>13 DEF EndInv

\* What producers deposit for the driver.
LEMMA ProducerEnd ==
  ASSUME TypeOK, EndInv, NEW a \in Actors,
         ArmClose(a) \/ EmitClose(a) \/ TcpData(a) \/ AppendBytes(a)
  PROVE  EndInv'
<1>1. CASE ArmClose(a)
  <2>1. "armClose" \in Steps \ Awaited /\ Doing(a, "armClose")
    BY <1>1 DEF ArmClose, Steps, Awaited, Enders
  <2>2. <<>> \in Seq(Plain)
    BY PlainCalls
  <2>4. Still
    BY <1>1 DEF ArmClose, Still, DisarmDeadline
  <2> QED BY <1>1, <2>1, <2>2, <2>4, CalmStep DEF ArmClose, Terminal
<1>2. CASE EmitClose(a)
  <2>1. "emitClose" \in Steps \ Awaited /\ Doing(a, "emitClose")
    BY <1>2 DEF EmitClose, Steps, Awaited, Enders
  <2>2. {"driveAll"} \subseteq Plain
    BY DEF Plain, Steps, Watched
  <2>3. /\ <<>> \in Seq(Plain)
        /\ <<"driveAll">> \in Seq(Plain)
    BY <2>2, PlainCalls, PlainIf, PlainConcat
  <2>4. Still
    BY <1>2 DEF EmitClose, Still, DisarmDeadline, TypeOK, CloseRecord
  <2> QED BY <1>2, <2>1, <2>2, <2>3, <2>4, CalmStep DEF EmitClose, Terminal
<1>3. CASE TcpData(a)
  <2>1. "tcpData" \in Steps \ Awaited /\ Doing(a, "tcpData")
    BY <1>3 DEF TcpData, Steps, Awaited, Enders
  <2>2. {"append"} \subseteq Plain
    BY DEF Plain, Steps, Watched
  <2>3. If(state = "Connected" /\ ~co.abort, "append") \in Seq(Plain)
    BY <2>2, PlainCalls, PlainIf, PlainConcat
  <2>4. Still
    BY <1>3 DEF TcpData, Still, DisarmDeadline
  <2> QED BY <1>3, <2>1, <2>2, <2>3, <2>4, CalmStep DEF TcpData, Terminal
<1>4. CASE AppendBytes(a)
  <2>1. "append" \in Steps \ Awaited /\ Doing(a, "append")
    BY <1>4 DEF AppendBytes, Steps, Awaited, Enders
  <2>2. {"driveAll", "driveFull", "driveFullArm"} \subseteq Plain
    BY DEF Plain, Steps, Watched
  <2>3. /\ <<>> \in Seq(Plain) /\ <<"driveAll">> \in Seq(Plain)
        /\ <<"driveFull">> \in Seq(Plain) /\ <<"driveFullArm">> \in Seq(Plain)
    BY <2>2, PlainCalls
  <2>4. \/ Then(a, <<>>) \/ Then(a, <<"driveAll">>)
        \/ Then(a, <<"driveFull">>) \/ Then(a, <<"driveFullArm">>)
    BY <1>4, PolicyAssumption DEF AppendBytes
  <2>5. Still /\ state' = state
    BY <1>4 DEF AppendBytes, Still
  <2> QED BY <2>1, <2>3, <2>4, <2>5, CalmStep
<1> QED BY <1>1, <1>2, <1>3, <1>4

\* run_terminal_error_finalizer(), whoever takes it up.
LEMMA FinalizerEnd ==
  ASSUME TypeOK, EndInv, NEW a \in Actors, Finalizer(a) \/ TakeFinalizer(a)
  PROVE  EndInv'
<1>1. UNCHANGED <<state, cf, drv, mx, once, man, timers, left>>
  BY DEF Finalizer, TakeFinalizer
<1>2. {"cancelClose", "notifyClose", "finalizer"} \subseteq Steps
  BY DEF Steps
<1>3. ASSUME NEW h, NEW q \in Seq(Steps), Doing(a, h), Then(a, q), h # "drive",
             \A s : Has(q, s) => s \in {"cancelClose", "notifyClose", "finalizer"}
      PROVE  /\ \A s : s # h /\ Pending(s) => Pending(s)'
             /\ \A s : Has(q, s) => Pending(s)'
             /\ \A s \in {"errorState", "lingerClosed", "gate"} : Pending(s)' => Pending(s)
             /\ Deferred' /\ DriverRuns' /\ Dead' /\ OpenOnce'
  <2>1. ~Has(q, "arriveTransportDeferred")
    BY <1>3
  <2>2. man'.alive = man.alive /\ man'.present = man.present /\ left'["open"] = left["open"]
    BY <1>1
  <2>3. /\ \A s : s # h /\ Pending(s) => Pending(s)'
        /\ \A s : Has(q, s) => Pending(s)'
        /\ \A s : Pending(s)' => Pending(s) \/ Has(q, s)
        /\ Deferred' /\ DriverRuns' /\ Dead' /\ OpenOnce'
    BY <1>1, <1>3, <2>1, <2>2, EndMoves
  <2> QED BY <1>3, <2>3
<1>4. CASE Finalizer(a)
  <2> DEFINE q == <<"cancelClose", "notifyClose">>
  <2>1. Doing(a, "finalizer") /\ Then(a, q)
    BY <1>4 DEF Finalizer
  <2>2. q \in Seq(Steps) /\ \A s : Has(q, s) <=> "cancelClose" = s \/ "notifyClose" = s
    BY <1>2, StepCalls, HasTwo
  <2> HIDE DEF q
  <2>3. /\ \A s : s # "finalizer" /\ Pending(s) => Pending(s)'
        /\ \A s : Has(q, s) => Pending(s)'
        /\ \A s \in {"errorState", "lingerClosed", "gate"} : Pending(s)' => Pending(s)
        /\ Deferred' /\ DriverRuns' /\ Dead' /\ OpenOnce'
    BY <1>3, <2>1, <2>2
  <2>4. /\ ~er'.fence /\ er'.slot = er.slot /\ er'.claimed = er.claimed
        /\ er'.finalize = er.finalize
        /\ er'.armed = er.armed /\ er'.sending = er.sending /\ er'.cancelled = er.cancelled
    BY <1>4 DEF Finalizer, TypeOK, ErrorRecord
  <2>5. NotifiedRemoves' /\ HookSet' /\ CloseHeld'
    BY <1>1, <2>3 DEF EndInv, NotifiedRemoves, HookSet, CloseHeld
  <2>6. EndNotifies' /\ TerminalClaimed'
    BY <1>1, <2>2, <2>3, <2>4 DEF EndInv, EndNotifies, TerminalClaimed, Enders
  <2>7. FenceSettles' /\ FinalizerTaken'
    BY <1>1, <2>3, <2>4 DEF EndInv, FenceSettles, FinalizerTaken
  <2>8. SlotDriven' /\ SlotFlags'
    BY <1>1, <2>3, <2>4 DEF EndInv, SlotDriven, SlotFlags
  <2> QED BY <2>3, <2>5, <2>6, <2>7, <2>8 DEF EndInv
<1>5. CASE TakeFinalizer(a)
  <2> DEFINE q == If(er.finalize, "finalizer")
  <2>1. Doing(a, "takeFinalizer") /\ Then(a, q)
    BY <1>5 DEF TakeFinalizer
  <2>2. q \in Seq(Steps) /\ \A s : Has(q, s) <=> er.finalize /\ "finalizer" = s
    BY <1>2, IfType, HasIf
  <2> HIDE DEF q
  <2>3. /\ \A s : s # "takeFinalizer" /\ Pending(s) => Pending(s)'
        /\ \A s : Has(q, s) => Pending(s)'
        /\ \A s \in {"errorState", "lingerClosed", "gate"} : Pending(s)' => Pending(s)
        /\ Deferred' /\ DriverRuns' /\ Dead' /\ OpenOnce'
    BY <1>3, <2>1, <2>2
  <2>4. /\ er'.fence = er.fence /\ er'.slot = er.slot /\ er'.claimed = er.claimed
        /\ ~er'.finalize /\ er'.producer = er.producer /\ er'.transport = er.transport
        /\ er'.armed = er.armed /\ er'.sending = er.sending /\ er'.cancelled = er.cancelled
    BY <1>5 DEF TakeFinalizer, TypeOK, ErrorRecord
  <2>5. NotifiedRemoves' /\ HookSet' /\ CloseHeld'
    BY <1>1, <2>3 DEF EndInv, NotifiedRemoves, HookSet, CloseHeld
  <2>6. EndNotifies' /\ TerminalClaimed'
    BY <1>1, <2>3, <2>4 DEF EndInv, EndNotifies, TerminalClaimed, Enders
  <2>7. FenceSettles' /\ FinalizerTaken'
    BY <1>1, <2>2, <2>3, <2>4 DEF EndInv, FenceSettles, FinalizerTaken
  <2>8. SlotDriven' /\ SlotFlags'
    BY <1>1, <2>3, <2>4 DEF EndInv, SlotDriven, SlotFlags
  <2> QED BY <2>3, <2>5, <2>6, <2>7, <2>8 DEF EndInv
<1> QED BY <1>4, <1>5

\* arm_error_retry_timer(): a parked ERROR that was not cancelled gets its timer.
LEMMA ArmErrorEnd ==
  ASSUME TypeOK, EndInv, NEW a \in Actors, ArmError(a)
  PROVE  EndInv'
<1>1. Doing(a, "armError") /\ Then(a, <<>>) /\ <<>> \in Seq(Steps)
  BY StepCalls DEF ArmError
<1>2. UNCHANGED <<state, cf, er, drv, mx, once, man, left>> /\ timers \subseteq timers'
      /\ (er.armed /\ ~er.cancelled /\ er.slot => "error" \in timers')
  BY DEF ArmError
<1>3. /\ \A s : s # "armError" /\ Pending(s) => Pending(s)'
      /\ \A s : Pending(s)' => Pending(s)
      /\ Deferred' /\ DriverRuns' /\ Dead' /\ OpenOnce'
  <2>1. \A s : ~Has(<<>>, s)
    BY HasNone
  <2>2. man'.alive = man.alive /\ man'.present = man.present /\ left'["open"] = left["open"]
    BY <1>2
  <2> QED BY <1>1, <1>2, <2>1, <2>2, EndMoves
<1>4. NotifiedRemoves' /\ HookSet' /\ CloseHeld'
  BY <1>2, <1>3 DEF EndInv, NotifiedRemoves, HookSet, CloseHeld
<1>5. EndNotifies' /\ TerminalClaimed'
  BY <1>2, <1>3 DEF EndInv, EndNotifies, TerminalClaimed, Enders
<1>6. FenceSettles' /\ FinalizerTaken'
  BY <1>2, <1>3 DEF EndInv, FenceSettles, FinalizerTaken
<1>7. SlotDriven' /\ SlotFlags'
  BY <1>2, <1>3 DEF EndInv, SlotDriven, SlotFlags
<1> QED BY <1>3, <1>4, <1>5, <1>6, <1>7 DEF EndInv

----------------------------------------------------------------------------
(* The emission driver. *)

\* What a step of the driver does to the stacks.
LEMMA LoopMoves ==
  ASSUME TypeOK, EndInv, NEW a \in Actors, NEW h, NEW q \in Seq(Steps),
         Doing(a, h), Then(a, q), man' = man, left' = left
  PROVE  /\ \A s : s # h /\ Pending(s) => Pending(s)'
         /\ \A s : Has(q, s) => Pending(s)' /\ Has(todo'[a], s)
         /\ \A s : Pending(s)' => Pending(s) \/ Has(q, s)
         /\ ~Has(q, "arriveTransportDeferred") => Deferred'
         /\ Dead' /\ OpenOnce'
<1>1. TodoOK
  BY DEF TypeOK, TodoOK
<1>2. ASSUME ~Has(q, "arriveTransportDeferred") PROVE Deferred'
  <2>1. \A i \in DOMAIN q : q[i] # "arriveTransportDeferred"
    BY <1>2 DEF Has
  <2> QED BY <1>1, <2>1, DeferredMoves DEF EndInv
<1>3. Dead' /\ OpenOnce'
  BY DEF EndInv, Dead, OpenOnce, Doing, Client
<1> QED BY <1>1, <1>2, <1>3, PendingMoves, Moved

\* run_emission_driver(), entry: a kick that finds the driver busy is not lost.
LEMMA DriveEnd ==
  ASSUME TypeOK, StreamInv, EndInv, NEW a \in Actors, Drive(a)
  PROVE  EndInv'
<1>1. PICK h \in {"driveAll", "driveFull", "driveFullArm"} :
        /\ Doing(a, h)
        /\ IF Active THEN drv' = drv /\ Then(a, <<>>)
           ELSE /\ drv' = [Selecting EXCEPT !.owner = a, !.arm = h # "driveFull"]
                /\ Then(a, <<"drive">>)
  BY DEF Drive
<1>2. UNCHANGED <<state, cf, er, mx, once, man, timers, left>>
  BY DEF Drive
<1>3. <<>> \in Seq(Steps) /\ <<"drive">> \in Seq(Steps)
  <2>1. "drive" \in Steps
    BY DEF Steps
  <2> QED BY <2>1, StepCalls
<1>4. PICK q \in Seq(Steps) : /\ Then(a, q) /\ \A s : Has(q, s) => s = "drive"
                              /\ ~Active => Has(q, "drive")
  <2>1. (\A s : ~Has(<<>>, s)) /\ (\A s : Has(<<"drive">>, s) <=> "drive" = s)
    BY HasNone, HasOne
  <2> QED BY <1>1, <1>3, <2>1
<1>5. /\ \A s : s # h /\ Pending(s) => Pending(s)'
      /\ \A s : Has(q, s) => Pending(s)' /\ Has(todo'[a], s)
      /\ \A s : Pending(s)' => Pending(s) \/ Has(q, s)
      /\ Deferred' /\ Dead' /\ OpenOnce'
  BY <1>1, <1>2, <1>4, LoopMoves
<1>6. drv'.pc # "idle"
  <2>1. CASE Active
    BY <1>1, <2>1 DEF Active
  <2>2. CASE ~Active
    BY <1>1, <2>2 DEF Selecting, NoDriver
  <2> QED BY <2>1, <2>2
<1>7. DriverRuns'
  <2>1. CASE Active
    <3>1. drv' = drv /\ drv.owner \in Actors /\ TodoOK
      BY <1>1, <2>1 DEF TypeOK, DriverRecord, TodoOK
    <3> QED BY <1>1, <1>4, <2>1, <3>1, Moved DEF EndInv, DriverRuns, Active
  <2>2. CASE ~Active
    <3>1. drv'.owner = a
      BY <1>1, <2>2 DEF Selecting, NoDriver
    <3> QED BY <1>4, <1>5, <2>2, <3>1 DEF DriverRuns
  <2> QED BY <2>1, <2>2
<1>8. NotifiedRemoves' /\ HookSet'
  BY <1>2, <1>5 DEF EndInv, NotifiedRemoves, HookSet
<1>9. EndNotifies' /\ TerminalClaimed'
  BY <1>2, <1>4, <1>5 DEF EndInv, EndNotifies, TerminalClaimed, Enders
<1>10. FenceSettles' /\ FinalizerTaken'
  BY <1>2, <1>4, <1>5 DEF EndInv, FenceSettles, FinalizerTaken
<1>11. SlotDriven'
  BY <1>2, <1>5, <1>6 DEF EndInv, SlotDriven
<1>12. SlotFlags' /\ CloseHeld'
  <2>1. CASE Active
    BY <1>1, <1>2, <2>1 DEF EndInv, SlotFlags, CloseHeld
  <2>2. CASE ~Active
    <3>1. drv.kind = "none"
      BY <2>2 DEF Active, StreamInv, DriverOK, KindKnown
    <3> QED BY <1>2, <3>1 DEF EndInv, SlotFlags, CloseHeld
  <2> QED BY <2>1, <2>2
<1> QED BY <1>5, <1>7, <1>8, <1>9, <1>10, <1>11, <1>12 DEF EndInv

\* The driver goes on with its loop.
LEMMA LoopStays ==
  ASSUME TypeOK, EndInv, todo' = todo, drv'.pc # "idle", drv'.owner = drv.owner,
         drv.pc # "idle",
         UNCHANGED <<state, mx, once, man>>, left'["open"] = left["open"],
         timers \subseteq timers', timers # {} \/ man.alive,
         er' = er \/ er' = [er EXCEPT !.sending = TRUE],
         er'.sending => drv'.kind = "ERROR", cf'.frame = "InFlight" => drv'.kind = "CLOSE"
  PROVE  EndInv'
<1>1. \A s : Pending(s)' <=> Pending(s)
  BY DEF Pending, Has
<1>2. /\ er'.fence = er.fence /\ er'.slot = er.slot /\ er'.claimed = er.claimed
      /\ er'.finalize = er.finalize /\ er'.producer = er.producer
      /\ er'.transport = er.transport
      /\ er'.armed = er.armed /\ er'.cancelled = er.cancelled
      /\ er.sending => er'.sending
  BY DEF TypeOK, ErrorRecord
<1>3. man.alive
  BY DEF EndInv, Dead
<1>4. NotifiedRemoves' /\ HookSet'
  BY <1>1 DEF EndInv, NotifiedRemoves, HookSet
<1>5. EndNotifies' /\ TerminalClaimed'
  BY <1>1, <1>2 DEF EndInv, EndNotifies, TerminalClaimed
<1>6. FenceSettles' /\ FinalizerTaken' /\ Deferred'
  BY <1>1, <1>2 DEF EndInv, FenceSettles, FinalizerTaken, Deferred
<1>7. SlotDriven' /\ SlotFlags' /\ CloseHeld'
  BY <1>1, <1>2 DEF EndInv, SlotDriven, SlotFlags, CloseHeld
<1>8. DriverRuns' /\ Dead' /\ OpenOnce'
  BY <1>3 DEF EndInv, DriverRuns, Dead, OpenOnce, Client
<1> QED BY <1>4, <1>5, <1>6, <1>7, <1>8 DEF EndInv

\* The driver leaves only when no ERROR waits for it.
LEMMA LoopLeaves ==
  ASSUME TypeOK, StreamInv, EndInv, NEW a \in Actors, Doing(a, "drive"), NEW q \in Seq(Plain),
         Then(a, q), drv' = Idle, UNCHANGED <<state, er, cf, mx, once, man, left>>,
         "error" \in timers => "error" \in timers',
         er.slot => er.armed \/ er.sending \/ er.cancelled,
         drv.kind \notin {"ERROR", "CLOSE"}
  PROVE  EndInv'
<1>1. q \in Seq(Steps) /\ \A s \in Watched : ~Has(q, s)
  BY PlainHas
<1>2. /\ \A s : s # "drive" /\ Pending(s) => Pending(s)'
      /\ \A s : Pending(s)' => Pending(s) \/ Has(q, s)
      /\ Deferred' /\ Dead' /\ OpenOnce'
  <2>1. ~Has(q, "arriveTransportDeferred")
    BY <1>1 DEF Watched
  <2> QED BY <1>1, <2>1, LoopMoves
<1>3. \A s \in {"errorState", "lingerClosed", "gate"} : Pending(s)' => Pending(s)
  BY <1>1, <1>2 DEF Watched
<1>4. ~er.sending /\ (er.slot => er.armed) /\ cf.frame # "InFlight"
  BY DEF EndInv, SlotFlags, CloseHeld
<1>5. drv'.pc = "idle"
  BY IdleType
<1>6. NotifiedRemoves' /\ HookSet' /\ CloseHeld' /\ DriverRuns'
  BY <1>2, <1>4, <1>5 DEF EndInv, NotifiedRemoves, HookSet, CloseHeld, DriverRuns
<1>7. EndNotifies' /\ TerminalClaimed'
  BY <1>2, <1>3 DEF EndInv, EndNotifies, TerminalClaimed, Enders
<1>8. FenceSettles' /\ FinalizerTaken'
  BY <1>2, <1>3 DEF EndInv, FenceSettles, FinalizerTaken
<1>9. SlotDriven' /\ SlotFlags'
  BY <1>2, <1>4 DEF EndInv, SlotDriven, SlotFlags
<1> QED BY <1>2, <1>6, <1>7, <1>8, <1>9 DEF EndInv

\* The rounds of the loop: select, authorise, hand over, commit DATA.
LEMMA LoopEnd ==
  ASSUME TypeOK, StreamInv, EndInv, NEW a \in Actors,
         \/ SelectError(a) \/ SelectData(a) \/ SelectClose(a) \/ LeaveRemainder(a)
         \/ DrainComplete(a) \/ AuthoriseData(a) \/ Snapshot(a) \/ Send(a) \/ CommitData(a)
  PROVE  EndInv'
<1>1. /\ Doing(a, "drive") /\ drv.owner = a /\ drv.pc # "idle" /\ man.alive
      /\ drv.pc \in {"select", "authorise"} => drv.kind \in {"none", "DATA"}
  <2>1. Doing(a, "drive") /\ drv.owner = a /\ drv.pc # "idle"
    BY DEF SelectError, SelectData, SelectClose, LeaveRemainder, DrainComplete, AuthoriseData,
       Snapshot, Send, CommitData, Driving
  <2>2. man.alive
    BY <2>1 DEF EndInv, Dead, Doing
  <2>3. drv.pc \in {"select", "authorise"} => drv.kind \in {"none", "DATA"}
    BY DEF StreamInv, DriverOK, KindKnown
  <2> QED BY <2>1, <2>2, <2>3
<1>2. UNCHANGED <<state, mx, once, man>>
  BY DEF SelectError, SelectData, SelectClose, LeaveRemainder, DrainComplete, AuthoriseData,
     Snapshot, Send, CommitData
<1>3. /\ Selecting.pc = "select" /\ Selecting.owner = drv.owner /\ Selecting.kind = "none"
      /\ drv.kind = "none" \/ drv.kind = "DATA" => ~er.sending /\ cf.frame # "InFlight"
  BY DEF Selecting, NoDriver, EndInv, SlotFlags, CloseHeld
<1>4. <<>> \in Seq(Plain)
  BY PlainCalls
<1>5. CASE SelectError(a)
  <2>1. /\ drv'.pc = "snapshot" /\ drv'.owner = drv.owner /\ drv'.kind = "ERROR"
        /\ er' = [er EXCEPT !.sending = TRUE] /\ UNCHANGED <<todo, cf, timers, left>>
        /\ drv.pc = "select"
    BY <1>5 DEF SelectError, Driving, TypeOK, DriverRecord
  <2>2. cf'.frame # "InFlight"
    BY <1>1, <1>3, <2>1
  <2> QED BY <1>1, <1>2, <2>1, <2>2, LoopStays
<1>6. CASE SelectData(a)
  <2>1. /\ drv'.pc = "authorise" /\ drv'.owner = drv.owner /\ drv.pc = "select"
        /\ UNCHANGED <<todo, cf, er, timers, left>>
    BY <1>6 DEF SelectData, Driving, TypeOK, DriverRecord
  <2>2. ~er.sending /\ cf.frame # "InFlight"
    BY <1>1, <1>3, <2>1
  <2> QED BY <1>1, <1>2, <2>1, <2>2, LoopStays
<1>7. CASE SelectClose(a)
  <2>1. /\ drv'.pc = "snapshot" /\ drv'.owner = drv.owner /\ drv'.kind = "CLOSE"
        /\ UNCHANGED <<todo, er, timers, left>> /\ drv.pc = "select"
    BY <1>7 DEF SelectClose, Driving, TypeOK, DriverRecord
  <2>2. ~er.sending
    BY <1>1, <1>3, <2>1
  <2> QED BY <1>1, <1>2, <2>1, <2>2, LoopStays
<1>8. CASE LeaveRemainder(a)
  <2>1. /\ drv.pc = "select" /\ UNCHANGED <<cf, er, left>> /\ timers \subseteq timers'
        /\ ~ErrorEligible
        /\ \/ drv' = drv /\ todo' = todo
           \/ drv' = Idle /\ Then(a, <<>>)
    BY <1>8 DEF LeaveRemainder, Driving, ArmCoalesce
  <2>2. ~er.sending /\ cf.frame # "InFlight" /\ drv.kind \notin {"ERROR", "CLOSE"}
    BY <1>1, <1>3, <2>1
  <2>3. er.slot => er.armed \/ er.sending \/ er.cancelled
    BY <2>1 DEF ErrorEligible
  <2>4. CASE drv' = drv /\ todo' = todo
    BY <1>1, <1>2, <2>1, <2>2, <2>4, LoopStays
  <2>5. CASE drv' = Idle /\ Then(a, <<>>)
    <3>1. UNCHANGED <<state, er, cf, mx, once, man, left>>
      BY <1>2, <2>1
    <3> QED BY <1>1, <1>4, <2>1, <2>2, <2>3, <2>5, <3>1, LoopLeaves
  <2> QED BY <2>1, <2>4, <2>5
<1>9. CASE DrainComplete(a)
  <2>1. /\ drv.pc = "select" /\ UNCHANGED <<cf, er, left, timers>> /\ ~ErrorEligible
        /\ drv' = Idle
    BY <1>9 DEF DrainComplete, Driving
  <2>2. PICK b1, b2, b3 : Then(a, If(b1, "emitCloseAndTransition")
                                  \o (IF b2 THEN EmitLocalClose ELSE <<>>)
                                  \o If(b3, "finalizeRemote"))
    BY <1>9 DEF DrainComplete
  <2> DEFINE q == If(b1, "emitCloseAndTransition") \o (IF b2 THEN EmitLocalClose ELSE <<>>)
                  \o If(b3, "finalizeRemote")
  <2>3. q \in Seq(Plain)
    <3>1. {"emitCloseAndTransition", "emitClose", "casDisconnecting", "finalizeRemote"} \subseteq Plain
      BY DEF Plain, Steps, Watched
    <3>2. /\ If(b1, "emitCloseAndTransition") \in Seq(Plain)
          /\ If(b3, "finalizeRemote") \in Seq(Plain)
          /\ (IF b2 THEN EmitLocalClose ELSE <<>>) \in Seq(Plain)
      BY <1>4, <3>1, PlainCalls, PlainIf DEF EmitLocalClose
    <3> QED BY <3>2, PlainConcat
  <2>4. Then(a, q)
    BY <2>2
  <2>5. er.slot => er.armed \/ er.sending \/ er.cancelled
    BY <2>1 DEF ErrorEligible
  <2>6. drv.kind \notin {"ERROR", "CLOSE"}
    BY <1>1, <2>1
  <2>7. UNCHANGED <<state, er, cf, mx, once, man, left>>
    BY <1>2, <2>1
  <2> HIDE DEF q
  <2> QED BY <1>1, <2>1, <2>3, <2>4, <2>5, <2>6, <2>7, LoopLeaves
<1>10. CASE AuthoriseData(a)
  <2>1. /\ drv.pc = "authorise" /\ UNCHANGED <<cf, er, left, timers>>
        /\ \/ drv' = [drv EXCEPT !.pc = "snapshot"] /\ todo' = todo
           \/ drv' = Selecting /\ todo' = todo
           \/ ~ControlEligible /\ drv' = Idle /\ Then(a, <<>>)
    BY <1>10 DEF AuthoriseData, Driving
  <2>2. ~er.sending /\ cf.frame # "InFlight" /\ drv.kind \notin {"ERROR", "CLOSE"}
    BY <1>1, <1>3, <2>1
  <2>3. CASE drv' = [drv EXCEPT !.pc = "snapshot"] /\ todo' = todo
    <3>1. drv'.pc # "idle" /\ drv'.owner = drv.owner
      BY <2>3 DEF TypeOK, DriverRecord
    <3> QED BY <1>1, <1>2, <2>1, <2>2, <2>3, <3>1, LoopStays
  <2>4. CASE drv' = Selecting /\ todo' = todo
    BY <1>1, <1>2, <1>3, <2>1, <2>2, <2>4, LoopStays
  <2>5. CASE ~ControlEligible /\ drv' = Idle /\ Then(a, <<>>)
    <3>1. UNCHANGED <<state, er, cf, mx, once, man, left>>
      BY <1>2, <2>1
    <3>2. er.slot => er.armed \/ er.sending \/ er.cancelled
      BY <2>5 DEF ControlEligible, ErrorEligible
    <3> QED BY <1>1, <1>4, <2>1, <2>2, <2>5, <3>1, <3>2, LoopLeaves
  <2> QED BY <2>1, <2>3, <2>4, <2>5
<1>11. CASE Snapshot(a)
  <2>1. /\ drv'.pc # "idle" /\ drv'.owner = drv.owner /\ drv'.kind = drv.kind
        /\ UNCHANGED <<todo, cf, er, timers, left>>
    BY <1>11 DEF Snapshot, TypeOK, DriverRecord
  <2>2. (er.sending => drv.kind = "ERROR") /\ (cf.frame = "InFlight" => drv.kind = "CLOSE")
    BY DEF EndInv, SlotFlags, CloseHeld
  <2> QED BY <1>1, <1>2, <2>1, <2>2, LoopStays
<1>12. CASE Send(a)
  <2>1. /\ drv'.pc # "idle" /\ drv'.owner = drv.owner /\ drv'.kind = drv.kind
        /\ UNCHANGED <<todo, cf, er, timers>>
    BY <1>12 DEF Send, TypeOK, DriverRecord
  <2>2. (er.sending => drv.kind = "ERROR") /\ (cf.frame = "InFlight" => drv.kind = "CLOSE")
    BY DEF EndInv, SlotFlags, CloseHeld
  <2>3. left'["open"] = left["open"]
    BY <1>12, TransportLeaves DEF Send, TypeOK
  <2> QED BY <1>1, <1>2, <2>1, <2>2, <2>3, LoopStays
<1>13. CASE CommitData(a)
  <2>1. /\ drv.kind = "DATA" /\ UNCHANGED <<cf, er, left>> /\ timers \subseteq timers'
        /\ \/ drv' = Selecting /\ todo' = todo
           \/ ~(ErrorEligible /\ ~er.cancelled) /\ drv' = Idle /\ Then(a, <<>>)
    BY <1>13 DEF CommitData, ArmCoalesce
  <2>2. ~er.sending /\ cf.frame # "InFlight" /\ drv.kind \notin {"ERROR", "CLOSE"}
    BY <1>3, <2>1
  <2>3. CASE drv' = Selecting /\ todo' = todo
    BY <1>1, <1>2, <1>3, <2>1, <2>2, <2>3, LoopStays
  <2>4. CASE ~(ErrorEligible /\ ~er.cancelled) /\ drv' = Idle /\ Then(a, <<>>)
    <3>1. UNCHANGED <<state, er, cf, mx, once, man, left>>
      BY <1>2, <2>1
    <3>2. er.slot => er.armed \/ er.sending \/ er.cancelled
      BY <2>4 DEF ErrorEligible
    <3> QED BY <1>1, <1>4, <2>1, <2>2, <2>4, <3>1, <3>2, LoopLeaves
  <2> QED BY <2>1, <2>3, <2>4
<1> QED BY <1>5, <1>6, <1>7, <1>8, <1>9, <1>10, <1>11, <1>12, <1>13

\* The verdict on a control frame: the ERROR is parked with its timer or its
\* settlement goes on, the CLOSE is out of the driver's hands.
LEMMA CommitEnd ==
  ASSUME TypeOK, StreamInv, EndInv, NEW a \in Actors, CommitError(a) \/ CommitClose(a)
  PROVE  EndInv'
<1>1. /\ Doing(a, "drive") /\ drv.owner = a /\ drv.pc = "commit"
      /\ UNCHANGED <<state, mx, once, man, timers, left>>
  BY DEF CommitError, CommitClose, Driving
<1>2. {"armError", "arriveTransport", "drive", "maybeRelease", "armClose"} \subseteq Plain
  BY DEF Plain, Steps, Watched
<1>3. /\ Selecting.pc = "select" /\ Selecting.owner = a /\ Selecting.kind = "none"
      /\ Idle.pc = "idle" /\ Idle.kind = "none"
  BY <1>1, IdleType DEF Selecting, NoDriver
<1>4. ASSUME NEW q \in Seq(Plain), Then(a, q)
      PROVE  /\ \A s : s # "drive" /\ Pending(s) => Pending(s)'
             /\ \A s : Has(q, s) => Pending(s)' /\ Has(todo'[a], s)
             /\ \A s \in {"errorState", "lingerClosed", "gate"} : Pending(s)' => Pending(s)
             /\ Deferred' /\ Dead' /\ OpenOnce'
  <2>1. q \in Seq(Steps) /\ \A s \in Watched : ~Has(q, s)
    BY <1>4, PlainHas
  <2>2. ~Has(q, "arriveTransportDeferred") /\ {"errorState", "lingerClosed", "gate"} \subseteq Watched
    BY <2>1 DEF Watched
  <2>3. man' = man /\ left' = left
    BY <1>1
  <2> QED BY <1>1, <1>4, <2>1, <2>2, <2>3, LoopMoves
<1>5. CASE CommitError(a)
  <2>0. drv.kind = "ERROR" /\ cf' = cf /\ cf.frame # "InFlight"
    BY <1>5 DEF CommitError, EndInv, CloseHeld
  <2>1. CASE drv.out = "SendqFull" /\ ~er.cancelled
    <3> DEFINE q == <<"armError">>
    <3>1. q \in Seq(Plain) /\ Has(q, "armError")
      BY <1>2, PlainCalls, HasOne
    <3>2. Then(a, q) /\ drv' = Idle
          /\ ~er'.sending /\ er'.armed /\ er'.slot = er.slot /\ er'.claimed = er.claimed
          /\ er'.cancelled = er.cancelled /\ er'.fence = er.fence /\ er'.finalize = er.finalize
          /\ er'.producer = er.producer /\ er'.transport = er.transport
      BY <1>5, <2>1 DEF CommitError, TypeOK, ErrorRecord
    <3> HIDE DEF q
    <3>3. /\ \A s : s # "drive" /\ Pending(s) => Pending(s)'
          /\ Pending("armError")'
          /\ \A s \in {"errorState", "lingerClosed", "gate"} : Pending(s)' => Pending(s)
          /\ Deferred' /\ Dead' /\ OpenOnce'
      BY <1>4, <3>1, <3>2
    <3>4. NotifiedRemoves' /\ HookSet' /\ CloseHeld' /\ DriverRuns'
      BY <1>1, <1>3, <2>0, <3>2, <3>3 DEF EndInv, NotifiedRemoves, HookSet, CloseHeld, DriverRuns
    <3>5. EndNotifies' /\ TerminalClaimed'
      BY <1>1, <3>2, <3>3 DEF EndInv, EndNotifies, TerminalClaimed, Enders
    <3>6. FenceSettles' /\ FinalizerTaken'
      BY <1>1, <3>2, <3>3 DEF EndInv, FenceSettles, FinalizerTaken
    <3>7. SlotDriven' /\ SlotFlags'
      <4>1. er.claimed
        BY <2>0 DEF StreamInv, ErrorUnsent
      <4> QED BY <2>1, <3>2, <3>3, <4>1 DEF EndInv, SlotDriven, SlotFlags
    <3> QED BY <3>3, <3>4, <3>5, <3>6, <3>7 DEF EndInv
  <2>2. CASE ~(drv.out = "SendqFull" /\ ~er.cancelled)
    <3> DEFINE q == <<"arriveTransport", "drive">>
    <3>1. q \in Seq(Plain) /\ Has(q, "arriveTransport") /\ Has(q, "drive")
      BY <1>2, PlainCalls, HasTwo
    <3>2. Then(a, q) /\ drv' = Selecting
          /\ ~er'.sending /\ ~er'.slot /\ er'.armed = er.armed /\ er'.claimed = er.claimed
          /\ er'.cancelled = er.cancelled /\ er'.fence = er.fence /\ er'.finalize = er.finalize
          /\ er'.producer = er.producer /\ er'.transport = er.transport
      BY <1>5, <2>2 DEF CommitError, TypeOK, ErrorRecord
    <3> HIDE DEF q
    <3>3. /\ \A s : s # "drive" /\ Pending(s) => Pending(s)'
          /\ Pending("arriveTransport")' /\ Has(todo'[a], "drive")
          /\ \A s \in {"errorState", "lingerClosed", "gate"} : Pending(s)' => Pending(s)
          /\ Deferred' /\ Dead' /\ OpenOnce'
      BY <1>4, <3>1, <3>2
    <3>4. NotifiedRemoves' /\ HookSet' /\ CloseHeld' /\ DriverRuns'
      BY <1>1, <1>3, <2>0, <3>2, <3>3 DEF EndInv, NotifiedRemoves, HookSet, CloseHeld, DriverRuns
    <3>5. EndNotifies' /\ TerminalClaimed'
      BY <1>1, <3>2, <3>3 DEF EndInv, EndNotifies, TerminalClaimed, Enders
    <3>6. FenceSettles' /\ FinalizerTaken'
      BY <1>1, <3>2, <3>3 DEF EndInv, FenceSettles, FinalizerTaken
    <3>7. SlotDriven' /\ SlotFlags'
      BY <3>2, <3>3 DEF EndInv, SlotDriven, SlotFlags
    <3> QED BY <3>3, <3>4, <3>5, <3>6, <3>7 DEF EndInv
  <2> QED BY <2>1, <2>2
<1>6. CASE CommitClose(a)
  <2>1. PICK s \in {"maybeRelease", "armClose"} : Then(a, <<s, "drive">>)
    BY <1>6 DEF CommitClose
  <2> DEFINE q == <<s, "drive">>
  <2>2. q \in Seq(Plain) /\ Has(q, "drive")
    BY <1>2, PlainCalls, HasTwo
  <2>3. Then(a, q)
    BY <2>1
  <2> HIDE DEF q
  <2>4. /\ drv' = Selecting /\ er' = er /\ cf'.frame # "InFlight" /\ drv.kind = "CLOSE"
    BY <1>6 DEF CommitClose, TypeOK, CloseRecord
  <2>5. /\ \A t : t # "drive" /\ Pending(t) => Pending(t)'
        /\ Has(todo'[a], "drive")
        /\ \A t \in {"errorState", "lingerClosed", "gate"} : Pending(t)' => Pending(t)
        /\ Deferred' /\ Dead' /\ OpenOnce'
    BY <1>4, <2>2, <2>3
  <2>6. NotifiedRemoves' /\ HookSet' /\ CloseHeld' /\ DriverRuns'
    BY <1>1, <1>3, <2>4, <2>5 DEF EndInv, NotifiedRemoves, HookSet, CloseHeld, DriverRuns
  <2>7. EndNotifies' /\ TerminalClaimed'
    BY <1>1, <2>4, <2>5 DEF EndInv, EndNotifies, TerminalClaimed, Enders
  <2>8. FenceSettles' /\ FinalizerTaken'
    BY <1>1, <2>4, <2>5 DEF EndInv, FenceSettles, FinalizerTaken
  <2>9. SlotDriven' /\ SlotFlags'
    BY <1>1, <1>3, <2>4, <2>5 DEF EndInv, SlotDriven, SlotFlags
  <2> QED BY <2>5, <2>6, <2>7, <2>8, <2>9 DEF EndInv
<1> QED BY <1>5, <1>6

----------------------------------------------------------------------------
(* Handlers that begin, and the destructor. *)

\* An idle actor is given a handler: nothing that was pending is lost.
LEMMA Loaded ==
  ASSUME TypeOK, EndInv, NEW b \in Actors, todo[b] = <<>>, NEW q \in Seq(Plain),
         todo' = [todo EXCEPT ![b] = q], drv' = drv, man'.present = man.present
  PROVE  /\ \A s : Pending(s) => Pending(s)'
         /\ \A s : Has(q, s) => Pending(s)'
         /\ \A s \in Watched : Pending(s)' => Pending(s)
         /\ Deferred' /\ DriverRuns'
<1>1. /\ todo'[b] = q /\ \A c \in Actors : c # b => todo'[c] = todo[c]
      /\ drv.owner \in Actors
  BY DEF TypeOK, DriverRecord
<1>2. \A s : ~Has(todo[b], s)
  BY HasNone
<1>3. \A c \in Actors : \A s : Has(todo[c], s) => Has(todo'[c], s)
  <2> SUFFICES ASSUME NEW c \in Actors, NEW s, Has(todo[c], s) PROVE Has(todo'[c], s)
    OBVIOUS
  <2> QED BY <1>1, <1>2
<1>4. \A s \in Watched : ~Has(q, s)
  BY PlainHas
<1>5. \A s : Pending(s) => Pending(s)'
  BY <1>3 DEF Pending
<1>6. \A s : Has(q, s) => Pending(s)'
  BY <1>1 DEF Pending
<1>7. \A s \in Watched : Pending(s)' => Pending(s)
  BY <1>1, <1>4 DEF Pending
<1>8. Deferred'
  <2> SUFFICES ASSUME man.present, NEW c \in Actors, NEW i \in DOMAIN todo'[c],
                      todo'[c][i] = "arriveTransportDeferred"
               PROVE  i + 1 \in DOMAIN todo'[c] /\ todo'[c][i + 1] = "takeFinalizer"
    BY DEF Deferred
  <2>1. c # b
    BY <1>1, <1>4 DEF Watched, Has
  <2> QED BY <1>1, <2>1 DEF EndInv, Deferred
<1>9. DriverRuns'
  BY <1>1, <1>3 DEF EndInv, DriverRuns
<1> QED BY <1>5, <1>6, <1>7, <1>8, <1>9

\* A frame, a socket event, a request of the manager's user or a posted removal.
LEMMA BeginEnd ==
  ASSUME TypeOK, EndInv, (\E o \in Ops : Start(o)) \/ RunPosted
  PROVE  EndInv'
<1>1. PICK b \in Actors, q \in Seq(Plain) :
        /\ todo[b] = <<>> /\ todo' = [todo EXCEPT ![b] = q]
        /\ man.posted /\ ~man'.posted => Has(q, "remove")
  <2>1. CASE \E o \in Ops : Start(o)
    <3>1. PICK o \in Ops : Start(o)
      BY <2>1
    <3>2. Worker(o) \in Actors
      BY DEF Worker, Actors
    <3>3. Handler(o) \in Seq(Plain)
      <4>1. o \notin {"rxData", "reap"} => o \in Plain
        <5>1. /\ {"open", "rxAck", "rxClose", "rxError", "tcpData", "eof", "reset"} \subseteq Plain
              /\ {"hangup", "remove", "closeAll", "abandonAll", "closeAllLocal",
                  "failLocally"} \subseteq Plain
          BY DEF Plain, Steps, Watched
        <5> QED BY <5>1 DEF Ops
      <4>3. {"ack", "timeoutClose", "remove"} \subseteq Plain
        BY DEF Plain, Steps, Watched
      <4>2. Handler(o) = <<"ack">> \/ Handler(o) = <<"timeoutClose", "remove">>
            \/ (o \notin {"rxData", "reap"} /\ Handler(o) = <<o>>)
        BY DEF Handler
      <4> QED BY <4>1, <4>2, <4>3, PlainCalls
    <3> QED BY <3>1, <3>2, <3>3 DEF Start
  <2>2. CASE RunPosted
    <3>1. "remove" \in Plain /\ "io" \in Actors
      BY DEF Plain, Steps, Watched, Actors
    <3>2. <<"remove">> \in Seq(Plain) /\ Has(<<"remove">>, "remove")
      BY <3>1, PlainCalls, HasOne
    <3> QED BY <2>2, <3>1, <3>2 DEF RunPosted
  <2> QED BY <2>1, <2>2
<1>2. /\ UNCHANGED <<state, cf, er, drv, mx, once, timers>>
      /\ man'.alive = man.alive /\ man'.present = man.present /\ man'.idFree = man.idFree
  BY DEF Start, RunPosted, TypeOK, ManagerRecord
<1>3. /\ \A s : Pending(s) => Pending(s)'
      /\ \A s : Has(q, s) => Pending(s)'
      /\ \A s \in Watched : Pending(s)' => Pending(s)
      /\ Deferred' /\ DriverRuns'
  BY <1>1, <1>2, Loaded
<1>4. man.alive /\ left'["open"] <= left["open"] /\ left["open"] \in Nat /\ left'["open"] \in Nat
  <2>0. "open" \in Ops \cup Faults
    BY DEF Ops
  <2>1. CASE \E o \in Ops : Start(o)
    <3>1. PICK o \in Ops : Start(o)
      BY <2>1
    <3>2. left[o] > 0 /\ left' = [left EXCEPT ![o] = @ - 1] /\ MayStart(o)
      BY <3>1 DEF Start
    <3>3. left'["open"] <= left["open"] /\ left["open"] \in Nat /\ left'["open"] \in Nat
      BY <2>0, <3>2 DEF TypeOK, Budget
    <3>4. man.present \/ Referenced \/ (o = "open" /\ left["open"] > 0)
      BY <3>2 DEF MayStart, Ops
    <3>5. man.alive
      <4> SUFFICES ASSUME ~man.alive PROVE FALSE
        OBVIOUS
      <4>1. ~man.present /\ left["open"] = 0 /\ timers = {} /\ \A c \in Actors : todo[c] = <<>>
        BY DEF EndInv, Dead
      <4> QED BY <3>4, <4>1 DEF Referenced
    <3> QED BY <3>3, <3>5
  <2>2. CASE RunPosted
    <3>1. Referenced /\ left' = left
      BY <2>2 DEF RunPosted
    <3>2. man.alive
      <4> SUFFICES ASSUME ~man.alive PROVE FALSE
        OBVIOUS
      <4>1. ~man.present /\ left["open"] = 0 /\ timers = {} /\ \A c \in Actors : todo[c] = <<>>
        BY DEF EndInv, Dead
      <4> QED BY <3>1, <4>1 DEF Referenced
    <3> QED BY <2>0, <3>1, <3>2 DEF TypeOK, Budget
  <2> QED BY <2>1, <2>2
<1>5. Dead' /\ OpenOnce'
  BY <1>2, <1>4 DEF EndInv, Dead, OpenOnce, Client
<1>6. NotifiedRemoves' /\ HookSet' /\ CloseHeld'
  BY <1>1, <1>2, <1>3 DEF EndInv, NotifiedRemoves, HookSet, CloseHeld
<1>7. EndNotifies' /\ TerminalClaimed'
  BY <1>2, <1>3 DEF EndInv, EndNotifies, TerminalClaimed, Watched
<1>8. FenceSettles' /\ FinalizerTaken'
  BY <1>2, <1>3 DEF EndInv, FenceSettles, FinalizerTaken, Watched
<1>9. SlotDriven' /\ SlotFlags'
  BY <1>2, <1>3 DEF EndInv, SlotDriven, SlotFlags
<1> QED BY <1>3, <1>5, <1>6, <1>7, <1>8, <1>9 DEF EndInv

\* A timer: the one of the parked ERROR hands it back to the driver.
LEMMA FireEnd ==
  ASSUME TypeOK, StreamInv, EndInv, NEW t \in Timers, Fire(t)
  PROVE  EndInv'
<1>1. t \in Actors /\ t \in timers /\ todo[t] = <<>>
  BY DEF Fire, Actors
<1>2. {"retryOpen", "expire", "driveAll", "ack"} \subseteq Plain
  BY DEF Plain, Steps, Watched
<1>3. PICK q \in Seq(Plain) :
        /\ todo' = [todo EXCEPT ![t] = q]
        /\ t = "error" /\ ~er.cancelled /\ er.slot => Has(q, "driveAll")
  <2> DEFINE q == CASE t = "open" -> <<"retryOpen">>
                    [] t = "deadline" -> If(state = "Connecting", "expire")
                    [] t = "coalesce" -> <<"driveAll">>
                    [] t = "close" -> If(~cf.cancelled /\ ~er.claimed /\ cf.frame = "Owed", "driveAll")
                    [] t = "error" -> If(~er.cancelled /\ er.slot, "driveAll")
                    [] t = "ack" -> <<"ack">>
  <2>1. /\ todo' = [todo EXCEPT ![t] = q]
        /\ t \in {"open", "deadline", "coalesce", "close", "error", "ack"}
    BY DEF Fire, Timers
  <2>4. /\ t = "open" => q = <<"retryOpen">>
        /\ t = "deadline" => q = If(state = "Connecting", "expire")
        /\ t = "coalesce" => q = <<"driveAll">>
        /\ t = "close" => q = If(~cf.cancelled /\ ~er.claimed /\ cf.frame = "Owed", "driveAll")
        /\ t = "error" => q = If(~er.cancelled /\ er.slot, "driveAll")
        /\ t = "ack" => q = <<"ack">>
    OBVIOUS
  <2> HIDE DEF q
  <2>2. q \in Seq(Plain)
    BY <1>2, <2>1, <2>4, PlainCalls DEF If
  <2>3. t = "error" /\ ~er.cancelled /\ er.slot => Has(q, "driveAll")
    BY <2>4, HasOne DEF If
  <2> QED BY <2>1, <2>2, <2>3
<1>4. /\ UNCHANGED <<state, drv, mx, once, man, left>>
      /\ cf'.frame = cf.frame
      /\ er'.slot = er.slot /\ er'.sending = er.sending /\ er'.claimed = er.claimed
      /\ er'.cancelled = er.cancelled /\ er'.fence = er.fence /\ er'.finalize = er.finalize
      /\ er'.producer = er.producer /\ er'.transport = er.transport
      /\ t # "error" => er'.armed = er.armed /\ ("error" \in timers => "error" \in timers')
      /\ t = "error" => ~er'.armed
  BY DEF Fire, TypeOK, CloseRecord, ErrorRecord
<1>5. /\ \A s : Pending(s) => Pending(s)'
      /\ \A s : Has(q, s) => Pending(s)'
      /\ \A s \in Watched : Pending(s)' => Pending(s)
      /\ Deferred' /\ DriverRuns'
  BY <1>1, <1>3, <1>4, Loaded
<1>6. Dead' /\ OpenOnce'
  BY <1>1, <1>4 DEF EndInv, Dead, OpenOnce, Client
<1>7. NotifiedRemoves' /\ HookSet' /\ CloseHeld'
  BY <1>4, <1>5 DEF EndInv, NotifiedRemoves, HookSet, CloseHeld
<1>8. EndNotifies' /\ TerminalClaimed'
  BY <1>4, <1>5 DEF EndInv, EndNotifies, TerminalClaimed, Watched
<1>9. FenceSettles' /\ FinalizerTaken'
  BY <1>4, <1>5 DEF EndInv, FenceSettles, FinalizerTaken, Watched
<1>10. SlotFlags'
  BY <1>4 DEF EndInv, SlotFlags
<1>11. SlotDriven'
  <2>1. CASE t # "error"
    BY <1>4, <1>5, <2>1 DEF EndInv, SlotDriven
  <2>2. CASE t = "error"
    <3>1. er.slot /\ er.cancelled => drv.kind = "ERROR"
      BY DEF EndInv, SlotFlags
    <3>2. drv.kind = "ERROR" => drv.pc # "idle"
      BY DEF StreamInv, DriverOK, KindKnown
    <3> QED BY <1>3, <1>4, <1>5, <2>2, <3>1, <3>2 DEF SlotDriven
  <2> QED BY <2>1, <2>2
<1> QED BY <1>5, <1>6, <1>7, <1>8, <1>9, <1>10, <1>11 DEF EndInv

\* ~TunnelImpl(): nobody is left, so the hook that frees the id is set.
LEMMA DestroyEnd ==
  ASSUME TypeOK, StreamInv, EndInv, Destroy
  PROVE  EndInv'
<1>1. /\ ~man.present /\ ~(left["open"] > 0) /\ timers \cap StrongTimers = {}
      /\ \A a \in Actors : todo[a] = <<>>
  BY DEF Destroy, Referenced
<1>2. \A s : ~Pending(s)
  BY <1>1, HasNone DEF Pending
<1>3. drv.pc = "idle" /\ drv.kind = "none"
  <2>1. drv.owner \in Actors
    BY DEF TypeOK, DriverRecord
  <2>2. drv.pc = "idle"
    BY <1>1, <2>1, HasNone DEF EndInv, DriverRuns
  <2> QED BY <2>2 DEF StreamInv, DriverOK, KindKnown
<1>4. ~er.slot /\ ~er.sending
  BY <1>1, <1>2, <1>3 DEF EndInv, SlotDriven, SlotFlags, StrongTimers
<1>5. er.fence => er.finalize
  BY <1>2, <1>4 DEF EndInv, FenceSettles
<1>6. /\ ~er'.fence /\ ~er'.finalize /\ ~er'.slot /\ ~er'.sending /\ ~er'.armed
      /\ er'.claimed = er.claimed
      /\ once'.notified = (once.notified \/ er.finalize)
  <2> DEFINE e == SettleErrorForShutdown(er)
  <2>1. /\ e \in ErrorRecord /\ e.slot = (er.slot /\ er.sending) /\ ~e.armed
        /\ e.claimed = er.claimed /\ e.fence = er.fence /\ e.sending = er.sending
    BY SettleFields, SettleType DEF TypeOK
  <2>2. ~ParkedError(er)
    BY <1>4 DEF ParkedError
  <2>3. /\ er' = [e EXCEPT !.transport = @ \/ ParkedError(er),
                           !.fence = @ /\ ~(ParkedError(er) \/ er.finalize), !.finalize = FALSE]
        /\ once' = [once EXCEPT !.notified = @ \/ (ParkedError(er) \/ er.finalize)]
    BY DEF Destroy
  <2> HIDE DEF e
  <2> QED BY <1>4, <1>5, <2>1, <2>2, <2>3 DEF TypeOK, ErrorRecord, OnceRecord
<1>7. /\ ~man'.present /\ ~man'.alive
      /\ man'.idFree = (man.idFree \/ mx.hook = "set")
      /\ mx'.hook = IF mx.hook = "set" THEN "fired" ELSE mx.hook
      /\ timers' = {} /\ cf'.frame # "InFlight"
      /\ UNCHANGED <<state, drv, todo, left>>
  <2>1. /\ man' = [man EXCEPT !.alive = FALSE, !.posted = FALSE, !.idFree = @ \/ mx.hook = "set"]
        /\ mx'.hook = IF mx.hook = "set" THEN "fired" ELSE mx.hook
        /\ cf' = [cf EXCEPT !.frame = IF @ \in {"Owed", "InFlight"} THEN "Abandoned" ELSE @]
        /\ timers' = {} /\ UNCHANGED <<state, drv, todo, left>>
    BY DEF Destroy, TypeOK, SocketRecord
  <2> QED BY <1>1, <2>1 DEF TypeOK, ManagerRecord, CloseRecord
<1>8. man'.idFree
  BY <1>1, <1>2, <1>7 DEF EndInv, HookSet
<1>9. \A s : ~Pending(s)'
  BY <1>1, <1>7, HasNone DEF Pending
<1>10. NotifiedRemoves' /\ HookSet' /\ CloseHeld' /\ DriverRuns'
  BY <1>3, <1>7, <1>8 DEF NotifiedRemoves, HookSet, CloseHeld, DriverRuns
<1>11. EndNotifies' /\ TerminalClaimed'
  BY <1>2, <1>5, <1>6, <1>7, <1>9 DEF EndInv, EndNotifies, TerminalClaimed
<1>12. FenceSettles' /\ FinalizerTaken' /\ Deferred'
  BY <1>6, <1>7, <1>9 DEF FenceSettles, FinalizerTaken, Deferred
<1>13. SlotDriven' /\ SlotFlags'
  BY <1>6 DEF SlotDriven, SlotFlags
<1>14. Dead' /\ OpenOnce'
  <2>1. left["open"] \in Nat
    BY DEF TypeOK, Budget, Ops
  <2> QED BY <1>1, <1>6, <1>7, <1>8, <2>1 DEF EndInv, Dead, OpenOnce, Client
<1> QED BY <1>10, <1>11, <1>12, <1>13, <1>14 DEF EndInv

----------------------------------------------------------------------------
LEMMA EndBegins == Init => EndInv
<1> SUFFICES ASSUME Init PROVE EndInv
  OBVIOUS
<1>1. \A s : ~Pending(s)
  BY HasNone DEF Init, Pending
<1>2. NotifiedRemoves /\ HookSet /\ Dead
  BY DEF Init, NotifiedRemoves, HookSet, Dead
<1>3. EndNotifies /\ TerminalClaimed
  BY <1>1, StartAssumption DEF Init, EndNotifies, TerminalClaimed, Terminal
<1>4. FenceSettles /\ FinalizerTaken /\ Deferred
  BY <1>1 DEF Init, FenceSettles, FinalizerTaken, Deferred
<1>5. SlotDriven /\ SlotFlags /\ CloseHeld
  BY DEF Init, SlotDriven, SlotFlags, CloseHeld
<1>6. DriverRuns
  BY DEF Init, DriverRuns, NoDriver
<1>7. OpenOnce
  BY OpenOnceAssumption DEF Init, OpenOnce, Client
<1> QED BY <1>2, <1>3, <1>4, <1>5, <1>6, <1>7 DEF EndInv

LEMMA EndGoesOn == TypeOK /\ StreamInv /\ EndInv /\ [Next]_vars => EndInv'
<1> SUFFICES ASSUME TypeOK, StreamInv, EndInv, [Next]_vars PROVE EndInv'
  OBVIOUS
<1>1. ASSUME NEW a \in Actors, TeardownStep(a) PROVE EndInv'
  BY <1>1, PassingEnd, HookEnd, NotifyEnd, OwnEnd, ShutdownEnd, ErrorEnd, TerminalEnd,
     ArriveEnd, FinalizerEnd DEF TeardownStep, Passing
<1>2. ASSUME NEW a \in Actors, DriverStep(a) PROVE EndInv'
  BY <1>2, DriveEnd, LoopEnd, CommitEnd, ArmErrorEnd, ProducerEnd DEF DriverStep
<1>3. CASE UNCHANGED vars
  BY <1>3 DEF vars, EndInv, NotifiedRemoves, EndNotifies, TerminalClaimed, FenceSettles,
     Deferred, FinalizerTaken, SlotDriven, SlotFlags, DriverRuns, CloseHeld, HookSet, Dead,
     OpenOnce, Pending, Has, Enders, Client
<1> QED BY <1>1, <1>2, <1>3, HandshakeEnd, BeginEnd, FireEnd, DestroyEnd DEF Next, Step, Rest

\* Whoever ends a tunnel, and whatever races it, somebody is left to finish: the
\* close callback, the settlement of the terminal ERROR, the driver behind a
\* deposited ERROR and the hook that frees the id are always on their way.
THEOREM EndInvariant == Spec => [](TypeOK /\ StreamInv /\ EndInv)
BY EndBegins, EndGoesOn, StreamInvariant, PTL DEF Spec

----------------------------------------------------------------------------
(* A client's tunnel that is removed before open() was called on it.         *)

\* All that can run on it: requests of the manager and what they call.
EarlySteps ==
  {"timeoutClose", "close", "remove", "closeAll", "abandonAll", "closeAllLocal", "setHook",
   "teardown", "teardownAll", "teardownAbandon", "forceClose", "forceCloseDrain", "own",
   "ownDrain", "ownClaimed", "driveAll", "drive", "flushTail", "fence", "fenceDrain",
   "takeFinalizer", "dropSocket", "drainSocket", "maybeRelease", "releaseId", "notifyClose",
   "cancelClose", "gate"}
Forces == {"teardown", "teardownAll", "teardownAbandon", "forceClose", "forceCloseDrain"}
Releasers == {"ownClaimed", "maybeRelease", "releaseId"}

EarlyState ==
  /\ state \in {"None", "Closed"} /\ op.phase \in {"Pending", "Abandoned"}
  /\ cf.frame \in {"NotOwed", "Abandoned"} /\ ~er.claimed /\ ~er.fence /\ ~er.finalize
  /\ co.fifo = <<>> /\ ~co.closing /\ ~co.remotePending
  /\ drv.kind = "none" /\ timers = {} /\ ~OnWire("OPEN")
  /\ started \cap {"open", "rxAck"} = {}
EarlyTokens == \A s : Pending(s) => s \in EarlySteps

\* The removal claims Closed, and whoever reaches Closed with the hook set, or sets
\* it then, goes on to release the id.
EarlyFree ==
  ~man.present =>
    /\ state = "None" => \E s \in Forces : Pending(s)
    /\ \/ man.idFree \/ Pending("setHook")
       \/ mx.hook = "set" /\ (state = "None" \/ \E s \in Releasers : Pending(s))

EarlyInv == left["open"] > 0 => EarlyState /\ EarlyTokens /\ EarlyFree

\* A step that neither removes, claims nor releases.
LEMMA EarlyCall ==
  ASSUME TypeOK, EarlyTokens, EarlyFree, NEW a \in Actors, NEW h, NEW q \in Seq(EarlySteps),
         Doing(a, h), Then(a, q), h \notin Forces \cup Releasers \cup {"setHook"},
         state' = state, man'.present = man.present, man'.idFree = man.idFree,
         mx'.hook = mx.hook
  PROVE  EarlyTokens' /\ EarlyFree'
<1>1. q \in Seq(Steps) /\ \A s : Has(q, s) => s \in EarlySteps
  <2>1. EarlySteps \subseteq Steps
    BY DEF EarlySteps, Steps
  <2>2. \A i \in DOMAIN q : q[i] \in EarlySteps
    BY ElementOfSeq, LenProperties
  <2> QED BY <2>1, <2>2 DEF Has
<1>2. TodoOK
  BY DEF TypeOK, TodoOK
<1>3. /\ \A s : s # h /\ Pending(s) => Pending(s)'
      /\ \A s : Pending(s)' => Pending(s) \/ Has(q, s)
  BY <1>1, <1>2, PendingMoves
<1>4. EarlyTokens'
  BY <1>1, <1>3 DEF EarlyTokens
<1>5. \A s \in Forces \cup Releasers \cup {"setHook"} : Pending(s) => Pending(s)'
  BY <1>3
<1> QED BY <1>4, <1>5 DEF EarlyFree

LEMMA EarlyCalls ==
  /\ <<>> \in Seq(EarlySteps)
  /\ \A s \in EarlySteps : <<s>> \in Seq(EarlySteps)
  /\ \A s, t \in EarlySteps : <<s, t>> \in Seq(EarlySteps)
  /\ \A s, t, u \in EarlySteps : <<s, t, u>> \in Seq(EarlySteps)
  /\ \A p, q \in Seq(EarlySteps) : p \o q \in Seq(EarlySteps)
BY ConcatProperties

\* What only moves on.
LEMMA EarlyPassing ==
  ASSUME TypeOK, StreamInv, Client, EarlyState, EarlyTokens, EarlyFree, NEW a \in Actors,
         \/ TimeoutClose(a) \/ Close(a) \/ CancelClose(a) \/ NotifyClose(a) \/ FlushTail(a)
         \/ DropSocket(a) \/ TakeFinalizer(a)
  PROVE  EarlyState' /\ EarlyTokens' /\ EarlyFree'
<1>1. {"close", "maybeRelease", "remove"} \subseteq EarlySteps
  BY DEF EarlySteps
<1>2. {"timeoutClose", "close", "cancelClose", "notifyClose", "flushTail", "dropSocket",
       "drainSocket", "takeFinalizer"} \cap (Forces \cup Releasers \cup {"setHook"}) = {}
  BY DEF Forces, Releasers
<1>3. /\ UNCHANGED <<state, op, co, drv, wire, started>>
      /\ man'.present = man.present /\ man'.idFree = man.idFree /\ mx'.hook = mx.hook
  BY DEF TimeoutClose, Close, CancelClose, NotifyClose, FlushTail, DropSocket, TakeFinalizer,
     TypeOK, ManagerRecord, SocketRecord
<1>4. EarlyState'
  <2>1. cf'.frame \in {"NotOwed", "Abandoned"} /\ timers' = {}
    BY DEF TimeoutClose, Close, CancelClose, NotifyClose, FlushTail, DropSocket, TakeFinalizer,
       TypeOK, CloseRecord, EarlyState
  <2>2. ~er'.claimed /\ ~er'.fence /\ ~er'.finalize
    BY DEF TimeoutClose, Close, CancelClose, NotifyClose, FlushTail, DropSocket, TakeFinalizer,
       TypeOK, ErrorRecord, EarlyState
  <2> QED BY <1>3, <2>1, <2>2 DEF EarlyState, OnWire
<1>5. PICK h \in {"timeoutClose", "close", "cancelClose", "notifyClose", "flushTail",
                  "dropSocket", "drainSocket", "takeFinalizer"} : Doing(a, h)
  BY DEF TimeoutClose, Close, CancelClose, NotifyClose, FlushTail, DropSocket, TakeFinalizer
<1>6. PICK q \in Seq(EarlySteps) : Then(a, q)
  <2>1. CASE TimeoutClose(a)
    BY <1>1, <2>1, EarlyCalls DEF TimeoutClose, EarlyState
  <2>2. CASE Close(a)
    <3>1. state # "Connecting" /\ state # "Connected" /\ <<>> \o <<>> = <<>>
      BY DEF EarlyState
    <3>2. Then(a, <<>>)
      BY <2>2, <3>1 DEF Close, If
    <3> QED BY <3>2, EarlyCalls
  <2>3. CASE CancelClose(a)
    BY <1>1, <2>3, EarlyCalls DEF CancelClose
  <2>4. CASE NotifyClose(a)
    BY <1>1, <2>4, EarlyCalls DEF NotifyClose, If
  <2>5. CASE FlushTail(a) \/ DropSocket(a)
    BY <2>5, EarlyCalls DEF FlushTail, DropSocket
  <2>6. CASE TakeFinalizer(a)
    BY <2>6, EarlyCalls DEF TakeFinalizer, If, EarlyState
  <2> QED BY <2>1, <2>2, <2>3, <2>4, <2>5, <2>6
<1>7. h \notin Forces \cup Releasers \cup {"setHook"}
  BY <1>2
<1> QED BY <1>3, <1>4, <1>5, <1>6, <1>7, EarlyCall

\* The shutdown of the stream, and a driver that finds nothing to do.
LEMMA EarlyShutdown ==
  ASSUME TypeOK, StreamInv, EarlyState, EarlyTokens, EarlyFree, NEW a \in Actors,
         Fence(a) \/ CloseGate(a) \/ Drive(a) \/ DrainComplete(a)
  PROVE  EarlyState' /\ EarlyTokens' /\ EarlyFree'
<1>1. {"takeFinalizer", "dropSocket", "drainSocket", "drive"} \subseteq EarlySteps
  BY DEF EarlySteps
<1>2. {"fence", "fenceDrain", "gate", "driveAll", "driveFull", "driveFullArm", "drive"}
        \cap (Forces \cup Releasers \cup {"setHook"}) = {}
  BY DEF Forces, Releasers
<1>3. /\ UNCHANGED <<state, op, cf, man, wire, started>> /\ mx'.hook = mx.hook
  BY DEF Fence, CloseGate, Drive, DrainComplete, TypeOK, SocketRecord
<1>4. ~ParkedError(er)
  BY DEF ParkedError, EarlyState, StreamInv, ClaimSeals
<1>5. EarlyState'
  <2>1. ~er'.claimed /\ ~er'.fence /\ ~er'.finalize
    <3>1. er' = er \/ er' = SettleErrorForShutdown(er)
      BY DEF Fence, CloseGate, Drive, DrainComplete
    <3> QED BY <3>1, SettleFields DEF TypeOK, EarlyState
  <2>2. co'.fifo = <<>> /\ ~co'.closing /\ ~co'.remotePending
    BY DEF Fence, CloseGate, Drive, DrainComplete, PublishAbort, TypeOK, OutboundRecord, EarlyState
  <2>3. drv'.kind = "none" /\ timers' = {}
    BY IdleType, SelectingType DEF Fence, CloseGate, Drive, DrainComplete, EarlyState, TypeOK,
       Selecting, NoDriver, DriverRecord
  <2> QED BY <1>3, <2>1, <2>2, <2>3 DEF EarlyState, OnWire
<1>6. PICK h \in {"fence", "fenceDrain", "gate", "driveAll", "driveFull", "driveFullArm",
                  "drive"} : Doing(a, h)
  BY DEF Fence, CloseGate, Drive, DrainComplete, Driving
<1>7. PICK q \in Seq(EarlySteps) : Then(a, q)
  <2>0. <<>> \o <<>> = <<>> /\ \A s : <<>> \o <<s>> = <<s>>
    OBVIOUS
  <2>1. CASE Fence(a)
    <3>1. PICK x \in {"drainSocket", "dropSocket"} :
            Then(a, If(ParkedError(er), "arriveTransportDeferred") \o <<"takeFinalizer">> \o <<x>>)
      BY <2>1 DEF Fence
    <3>2. If(ParkedError(er), "arriveTransportDeferred") = <<>>
      BY <1>4 DEF If
    <3>3. <<>> \in Seq(EarlySteps) /\ <<"takeFinalizer">> \in Seq(EarlySteps) /\ <<x>> \in Seq(EarlySteps)
      BY <1>1, EarlyCalls
    <3>4. <<>> \o <<"takeFinalizer">> \o <<x>> \in Seq(EarlySteps)
      BY <3>3, EarlyCalls
    <3> QED BY <3>1, <3>2, <3>4
  <2>2. CASE CloseGate(a)
    BY <1>4, <2>2, EarlyCalls DEF CloseGate, If
  <2>3. CASE Drive(a)
    BY <1>1, <2>3, EarlyCalls DEF Drive
  <2>4. CASE DrainComplete(a)
    <3>1. Then(a, <<>> \o <<>> \o <<>>)
      BY <2>4 DEF DrainComplete, If, EarlyState
    <3> QED BY <2>0, <3>1, EarlyCalls
  <2> QED BY <2>1, <2>2, <2>3, <2>4
<1>8. h \notin Forces \cup Releasers \cup {"setHook"}
  BY <1>2
<1>9. man'.present = man.present /\ man'.idFree = man.idFree
  BY <1>3
<1> QED BY <1>3, <1>5, <1>6, <1>7, <1>8, <1>9, EarlyCall

\* The stacks under any of these steps.
LEMMA EarlyMoves ==
  ASSUME TypeOK, EarlyTokens, NEW a \in Actors, NEW h, NEW q \in Seq(EarlySteps),
         Doing(a, h), Then(a, q)
  PROVE  /\ EarlyTokens'
         /\ \A s : s # h /\ Pending(s) => Pending(s)'
         /\ \A s : Has(q, s) => Pending(s)'
<1>1. q \in Seq(Steps) /\ \A s : Has(q, s) => s \in EarlySteps
  <2>1. EarlySteps \subseteq Steps
    BY DEF EarlySteps, Steps
  <2>2. \A i \in DOMAIN q : q[i] \in EarlySteps
    BY ElementOfSeq, LenProperties
  <2> QED BY <2>1, <2>2 DEF Has
<1>2. TodoOK
  BY DEF TypeOK, TodoOK
<1> QED BY <1>1, <1>2, PendingMoves DEF EarlyTokens

\* The removal, the hook and the release.
LEMMA EarlyHook ==
  ASSUME TypeOK, EarlyState, EarlyTokens, EarlyFree, NEW a \in Actors,
         RemoveEntry(a) \/ SetHook(a) \/ MaybeRelease(a) \/ ReleaseId(a)
  PROVE  EarlyState' /\ EarlyTokens' /\ EarlyFree'
<1>1. EarlyState'
  <2>1. UNCHANGED <<state, op, cf, er, co, drv, wire, timers, started>>
    BY DEF RemoveEntry, SetHook, MaybeRelease, ReleaseId
  <2> QED BY <2>1 DEF EarlyState, OnWire
<1>2. {"setHook", "teardown", "teardownAll", "teardownAbandon", "cancelClose", "gate",
       "forceClose", "maybeRelease", "releaseId"} \subseteq EarlySteps
  BY DEF EarlySteps
<1>3. CASE RemoveEntry(a)
  <2>1. PICK h \in {"remove", "closeAll", "abandonAll", "closeAllLocal"} :
          /\ Doing(a, h)
          /\ man' = [man EXCEPT !.present = FALSE,
                                !.idFree = @ \/ (man.present /\ h = "closeAllLocal")]
          /\ Then(a, IF ~man.present THEN <<>>
                     ELSE CASE h = "remove" -> <<"setHook", "teardown">>
                            [] h = "closeAll" -> <<"setHook", "teardownAll">>
                            [] h = "abandonAll" -> <<"setHook", "teardownAbandon">>
                            [] h = "closeAllLocal" -> <<"cancelClose", "gate", "forceClose">>)
    BY <1>3 DEF RemoveEntry
  <2>2. PICK q : /\ Then(a, q)
                 /\ \/ q = <<>> /\ ~man.present
                    \/ q = <<"setHook", "teardown">>
                    \/ q = <<"setHook", "teardownAll">>
                    \/ q = <<"setHook", "teardownAbandon">>
                    \/ q = <<"cancelClose", "gate", "forceClose">> /\ h = "closeAllLocal" /\ man.present
    BY <2>1
  <2>3. q \in Seq(EarlySteps)
    <3>1. \A s \in {"teardown", "teardownAll", "teardownAbandon"} :
            <<"setHook", s>> \in Seq(EarlySteps)
      BY <1>2, EarlyCalls
    <3>2. <<"cancelClose", "gate", "forceClose">> \in Seq(EarlySteps) /\ <<>> \in Seq(EarlySteps)
      BY <1>2, EarlyCalls
    <3> QED BY <2>2, <3>1, <3>2
  <2>4. \/ ~man.present
        \/ Has(q, "setHook") /\ \E s \in Forces : Has(q, s)
        \/ h = "closeAllLocal" /\ man.present /\ \E s \in Forces : Has(q, s)
    <3>1. {"teardown", "teardownAll", "teardownAbandon", "forceClose"} \subseteq Forces
      BY DEF Forces
    <3>2. /\ \A s : Has(<<"setHook", s>>, "setHook") /\ Has(<<"setHook", s>>, s)
          /\ Has(<<"cancelClose", "gate", "forceClose">>, "forceClose")
      BY HasTwo, HasThree
    <3> QED BY <2>2, <3>1, <3>2
  <2>5. ~man'.present /\ (man.idFree => man'.idFree)
        /\ (h = "closeAllLocal" /\ man.present => man'.idFree)
    BY <2>1 DEF TypeOK, ManagerRecord
  <2>6. /\ EarlyTokens'
        /\ \A s : s # h /\ Pending(s) => Pending(s)'
        /\ \A s : Has(q, s) => Pending(s)'
    BY <2>1, <2>2, <2>3, EarlyMoves
  <2>7. h \notin Forces \cup Releasers \cup {"setHook"}
    BY DEF Forces, Releasers
  <2>8. UNCHANGED <<state, mx>>
    BY <1>3 DEF RemoveEntry
  <2>9. EarlyFree'
    <3>1. CASE man.present
      BY <2>4, <2>5, <2>6, <3>1 DEF EarlyFree
    <3>2. CASE ~man.present
      <4>1. \A s \in Forces \cup Releasers \cup {"setHook"} : Pending(s) => Pending(s)'
        BY <2>6, <2>7
      <4> QED BY <2>5, <2>8, <3>2, <4>1 DEF EarlyFree
    <3> QED BY <3>1, <3>2
  <2> QED BY <1>1, <2>6, <2>9
<1>4. CASE SetHook(a)
  <2>1. /\ Doing(a, "setHook") /\ Then(a, <<"maybeRelease">>) /\ mx'.hook = "set"
        /\ UNCHANGED <<state, man>>
    BY <1>4 DEF SetHook, TypeOK, SocketRecord
  <2>2. <<"maybeRelease">> \in Seq(EarlySteps) /\ Has(<<"maybeRelease">>, "maybeRelease")
    BY <1>2, EarlyCalls, HasOne
  <2>3. /\ EarlyTokens' /\ Pending("maybeRelease")'
        /\ \A s : s # "setHook" /\ Pending(s) => Pending(s)'
    BY <2>1, <2>2, EarlyMoves
  <2>4. EarlyFree'
    <3>1. "setHook" \notin Forces /\ "maybeRelease" \in Releasers
      BY DEF Forces, Releasers
    <3> QED BY <2>1, <2>3, <3>1 DEF EarlyFree
  <2> QED BY <1>1, <2>3, <2>4
<1>5. CASE MaybeRelease(a)
  <2>1. /\ Doing(a, "maybeRelease") /\ UNCHANGED <<state, man, mx>>
        /\ Then(a, If(IdReleasable, "releaseId"))
    BY <1>5 DEF MaybeRelease
  <2> DEFINE q == If(IdReleasable, "releaseId")
  <2>2. q \in Seq(EarlySteps) /\ (state # "None" => Has(q, "releaseId"))
    <3>1. state # "None" => IdReleasable
      BY DEF EarlyState, IdReleasable, Terminal
    <3> QED BY <1>2, <3>1, EarlyCalls, HasOne DEF If
  <2>3. Then(a, q)
    BY <2>1
  <2> HIDE DEF q
  <2>4. /\ EarlyTokens' /\ (Has(q, "releaseId") => Pending("releaseId")')
        /\ \A s : s # "maybeRelease" /\ Pending(s) => Pending(s)'
    BY <2>1, <2>2, <2>3, EarlyMoves
  <2>5. EarlyFree'
    <3>1. "maybeRelease" \notin Forces /\ "releaseId" \in Releasers /\ "maybeRelease" # "setHook"
      BY DEF Forces, Releasers
    <3> QED BY <2>1, <2>2, <2>4, <3>1 DEF EarlyFree
  <2> QED BY <1>1, <2>4, <2>5
<1>6. CASE ReleaseId(a)
  <2>1. /\ Doing(a, "releaseId") /\ Then(a, <<>>) /\ state' = state
        /\ man'.present = man.present
        /\ mx.hook = "set" => man'.idFree
        /\ mx.hook # "set" => mx' = mx /\ man' = man
        /\ man.idFree => man'.idFree
    BY <1>6 DEF ReleaseId, TypeOK, ManagerRecord
  <2>2. <<>> \in Seq(EarlySteps)
    BY EarlyCalls
  <2>3. /\ EarlyTokens'
        /\ \A s : s # "releaseId" /\ Pending(s) => Pending(s)'
    BY <2>1, <2>2, EarlyMoves
  <2>4. EarlyFree'
    <3>1. "releaseId" \notin Forces /\ "releaseId" # "setHook"
      BY DEF Forces
    <3> QED BY <2>1, <2>3, <3>1 DEF EarlyFree
  <2> QED BY <1>1, <2>3, <2>4
<1> QED BY <1>3, <1>4, <1>5, <1>6

\* The teardown of a removed tunnel claims Closed and owns the release.
LEMMA EarlyForce ==
  ASSUME TypeOK, EarlyState, EarlyTokens, EarlyFree, NEW a \in Actors,
         Teardown(a) \/ ForceClaim(a) \/ ForceOwn(a)
  PROVE  EarlyState' /\ EarlyTokens' /\ EarlyFree'
<1>1. {"forceClose", "forceCloseDrain", "own", "ownDrain", "ownClaimed", "driveAll", "flushTail",
       "fence", "fenceDrain", "maybeRelease", "notifyClose"} \subseteq EarlySteps
  BY DEF EarlySteps
<1>2. UNCHANGED <<er, co, drv, wire, started, man, mx>>
  BY DEF Teardown, ForceClaim, ForceOwn
<1>3. \A h : Doing(a, h) => h \in EarlySteps
  <2> SUFFICES ASSUME NEW h, Doing(a, h) PROVE h \in EarlySteps
    OBVIOUS
  <2>1. Pending(h)
    BY DoingPending DEF TypeOK, TodoOK, Pending, Has
  <2> QED BY <2>1 DEF EarlyTokens
<1>4. CASE Teardown(a)
  <2>1. PICK h \in {"teardown", "teardownAll", "teardownAbandon"},
             s \in {"forceClose", "forceCloseDrain"} : Doing(a, h) /\ Then(a, <<s>>)
    BY <1>4 DEF Teardown, EarlyState, Established, AbortTeardownRequired
  <2>2. <<s>> \in Seq(EarlySteps) /\ Has(<<s>>, s)
    BY <1>1, EarlyCalls, HasOne
  <2>3. /\ EarlyTokens' /\ Pending(s)'
        /\ \A t : t # h /\ Pending(t) => Pending(t)'
    BY <2>1, <2>2, EarlyMoves
  <2>4. UNCHANGED <<state, op, cf, timers>>
    BY <1>4 DEF Teardown
  <2>5. EarlyState'
    BY <1>2, <2>4 DEF EarlyState, OnWire
  <2>6. EarlyFree'
    <3>1. h \notin Releasers \cup {"setHook"} /\ s \in Forces
      BY DEF Forces, Releasers
    <3> QED BY <1>2, <2>3, <2>4, <3>1 DEF EarlyFree
  <2> QED BY <2>3, <2>5, <2>6
<1>5. CASE ForceClaim(a)
  <2>1. PICK h \in {"forceClose", "forceCloseDrain"} :
          /\ Doing(a, h) /\ op' = CancelOpenRetry(op)
          /\ state' = "Closed"
          /\ cf' = DeferCloseToSender(op, cf)
          /\ timers' \subseteq timers
          /\ Then(a, IF state = "None" THEN <<"ownClaimed">>
                     ELSE IF h = "forceCloseDrain" THEN <<"ownDrain">> ELSE <<"own">>)
    <3>1. PICK h \in {"forceClose", "forceCloseDrain", "expire"} :
            LET claimed == state \notin Terminal /\ (h = "expire" => state = "Connecting")
                announce == claimed /\ (state = "Connected" \/ (state = "Connecting" /\ op.phase = "Sent"))
                owed == DeferCloseToSender(op, cf)
            IN /\ Doing(a, h)
               /\ IF h = "expire" /\ ~claimed
                  THEN UNCHANGED <<state, op, cf, timers>> /\ Then(a, <<>>)
                  ELSE /\ state' = IF claimed THEN "Closed" ELSE state
                       /\ op' = CancelOpenRetry(op)
                       /\ cf' = IF announce THEN NoteCloseOwed(owed) ELSE owed
                       /\ timers' = timers \ (IF claimed THEN {"open", "deadline"} ELSE {"open"})
                       /\ Then(a, IF announce THEN <<"ownAnnounce">>
                                  ELSE IF claimed THEN <<"ownClaimed">>
                                  ELSE IF h = "forceCloseDrain" /\ state = "Closed" THEN <<"ownDrain">>
                                  ELSE <<"own">>)
      BY <1>5 DEF ForceClaim
    <3>2. h # "expire"
      BY <1>3, <3>1 DEF EarlySteps
    <3>3. (state = "None" \/ state = "Closed") /\ (state \notin Terminal <=> state = "None")
      BY DEF EarlyState, Terminal
    <3> QED BY <3>1, <3>2, <3>3
  <2>2. PICK q \in Seq(EarlySteps) : Then(a, q) /\ (state = "None" => Has(q, "ownClaimed"))
    <3>1. \A s \in {"ownClaimed", "ownDrain", "own"} : <<s>> \in Seq(EarlySteps) /\ Has(<<s>>, s)
      BY <1>1, EarlyCalls, HasOne
    <3> QED BY <2>1, <3>1
  <2>3. /\ EarlyTokens' /\ (state = "None" => Pending("ownClaimed")')
        /\ \A t : t # h /\ Pending(t) => Pending(t)'
    BY <2>1, <2>2, EarlyMoves
  <2>4. EarlyState'
    <3>1. cf' = cf
      BY <2>1 DEF DeferCloseToSender, EarlyState
    <3>2. op'.phase = "Abandoned"
      BY <2>1 DEF CancelOpenRetry, EarlyState, TypeOK, OpenRecord
    <3>3. timers' = {}
      BY <2>1 DEF EarlyState
    <3> QED BY <1>2, <2>1, <3>1, <3>2, <3>3 DEF EarlyState, OnWire
  <2>5. EarlyFree'
    <3>1. h \notin Releasers \cup {"setHook"} /\ "ownClaimed" \in Releasers
      BY DEF Releasers
    <3> QED BY <1>2, <2>1, <2>3, <3>1 DEF EarlyFree
  <2> QED BY <2>3, <2>4, <2>5
<1>6. CASE ForceOwn(a)
  <2>1. PICK h \in {"own", "ownDrain", "ownClaimed", "ownAnnounce"} :
          /\ Doing(a, h)
          /\ Then(a, IF h \notin {"ownClaimed", "ownAnnounce"} /\ once.released THEN <<>>
                     ELSE (IF ~once.released /\ ~mx.gate THEN <<"driveAll", "flushTail">> ELSE <<>>)
                          \o If(h = "ownAnnounce", "emitClose")
                          \o If(~once.released, IF h = "ownDrain" THEN "fenceDrain" ELSE "fence")
                          \o <<"driveAll">> \o <<"maybeRelease", "notifyClose">>)
    BY <1>6 DEF ForceOwn
  <2>2. h # "ownAnnounce"
    BY <1>3, <2>1 DEF EarlySteps
  <2> DEFINE r == (IF ~once.released /\ ~mx.gate THEN <<"driveAll", "flushTail">> ELSE <<>>)
                  \o If(h = "ownAnnounce", "emitClose")
                  \o If(~once.released, IF h = "ownDrain" THEN "fenceDrain" ELSE "fence")
                  \o <<"driveAll">>
             t == <<"maybeRelease", "notifyClose">>
  <2>3. r \in Seq(EarlySteps) /\ t \in Seq(EarlySteps) /\ Has(t, "maybeRelease")
    <3>1. /\ (IF ~once.released /\ ~mx.gate THEN <<"driveAll", "flushTail">> ELSE <<>>) \in Seq(EarlySteps)
          /\ If(h = "ownAnnounce", "emitClose") \in Seq(EarlySteps)
          /\ If(~once.released, IF h = "ownDrain" THEN "fenceDrain" ELSE "fence") \in Seq(EarlySteps)
          /\ <<"driveAll">> \in Seq(EarlySteps)
      BY <1>1, <2>2, EarlyCalls DEF If
    <3>2. t \in Seq(EarlySteps) /\ Has(t, "maybeRelease")
      BY <1>1, EarlyCalls, HasTwo
    <3>3. r \in Seq(EarlySteps)
      BY <3>1, EarlyCalls
    <3> QED BY <3>2, <3>3
  <2>4. Then(a, r \o t) \/ (h # "ownClaimed" /\ Then(a, <<>>))
    BY <2>1
  <2> HIDE DEF r, t
  <2>5. r \o t \in Seq(EarlySteps) /\ <<>> \in Seq(EarlySteps) /\ Has(r \o t, "maybeRelease")
    <3>1. EarlySteps \subseteq Steps
      BY DEF EarlySteps, Steps
    <3>2. r \in Seq(Steps) /\ t \in Seq(Steps)
      BY <2>3, <3>1
    <3> QED BY <2>3, <3>2, EarlyCalls, HasConcat
  <2>6. PICK q \in Seq(EarlySteps) : Then(a, q) /\ (h = "ownClaimed" => Has(q, "maybeRelease"))
    BY <2>4, <2>5
  <2>7. /\ EarlyTokens' /\ (h = "ownClaimed" => Pending("maybeRelease")')
        /\ \A s : s # h /\ Pending(s) => Pending(s)'
    BY <2>1, <2>6, EarlyMoves
  <2>8. UNCHANGED <<state, op, cf, timers>>
    BY <1>6 DEF ForceOwn
  <2>9. EarlyState'
    BY <1>2, <2>8 DEF EarlyState, OnWire
  <2>10. EarlyFree'
    <3>1. h \notin Forces \cup {"setHook"} /\ "maybeRelease" \in Releasers
          /\ (h # "ownClaimed" => h \notin Releasers)
      BY <2>2 DEF Forces, Releasers
    <3> QED BY <1>2, <2>7, <2>8, <3>1 DEF EarlyFree
  <2> QED BY <2>7, <2>9, <2>10
<1> QED BY <1>4, <1>5, <1>6

\* Nothing else can run on a tunnel that was not opened.
LEMMA EarlyStep ==
  ASSUME TypeOK, StreamInv, EndInv, EarlyInv, NEW a \in Actors, Step(a)
  PROVE  EarlyInv'
<1> SUFFICES ASSUME left'["open"] > 0 PROVE EarlyState' /\ EarlyTokens' /\ EarlyFree'
  BY DEF EarlyInv
<1>1. left["open"] > 0
  <2>1. left' = left \/ \E out, f : Transport(out, f)
    BY DEF Step, HandshakeStep, Open, AttemptOpen, OpenSnapshot, OpenTransport, OpenSent,
       OpenFull, OpenFail, ArmOpenRetry, ArmDeadline, Rollback, ResetPhase, RetryOpen,
       RetryFailed, RxAck, AckConnect,
       DriverStep, Drive, SelectError, SelectData, LeaveRemainder, SelectClose,
       DrainComplete, AuthoriseData, Snapshot, Send, CommitError, CommitClose, CommitData,
       ArmClose, ArmError, EmitClose, TcpData, AppendBytes,
       TeardownStep, AbandonClose, CancelClose, MaybeRelease, ReleaseId,
       NotifyClose, Close, CloseHandshake, CloseCas, CloseConnected, EmitCloseAndTransition,
       CasDisconnecting, TcpEof, EofStream, RxClose, FinalizeRemote, RxError, ForceClaim,
       ForceOwn, FlushTail, Fence, DropSocket, SendError, TerminalState, ArriveParty,
       Finalizer, TakeFinalizer, TimeoutClose, RemoveEntry, SetHook, Teardown, AbandonLate,
       CloseGate, LocalDisconnect, SendAck, AckSnapshot, AckTransport
  <2> QED BY <2>1, TransportLeaves DEF TypeOK
<1>2. EarlyState /\ EarlyTokens /\ EarlyFree
  BY <1>1 DEF EarlyInv
<1>3. Client
  <2>1. left["open"] \in Nat
    BY DEF TypeOK, Budget, Ops
  <2> QED BY <1>1, <2>1 DEF EndInv, OpenOnce
<1>4. \A h : Doing(a, h) => h \in EarlySteps
  BY <1>2, DoingPending DEF EarlyTokens
<1>5. CASE HandshakeStep(a)
  <2>1. PICK h \in {"open", "attemptOpen", "openSnapshot", "openTransport", "openSent",
                    "openFull", "openFail", "armOpenRetry", "armDeadline", "rollback",
                    "resetPhase", "retryOpen", "retryFailed", "rxAck", "ackConnect"} : Doing(a, h)
    BY <1>5 DEF HandshakeStep, Open, AttemptOpen, OpenSnapshot, OpenTransport, OpenSent,
       OpenFull, OpenFail, ArmOpenRetry, ArmDeadline, Rollback, ResetPhase, RetryOpen,
       RetryFailed, RxAck, AckConnect
  <2> QED BY <1>4, <2>1 DEF EarlySteps
<1>6. CASE DriverStep(a)
  <2>1. CASE Drive(a) \/ DrainComplete(a)
    BY <1>2, <2>1, EarlyShutdown
  <2>2. CASE ArmClose(a) \/ ArmError(a) \/ EmitClose(a) \/ TcpData(a) \/ AppendBytes(a)
    <3>1. PICK h \in {"armClose", "armError", "emitClose", "tcpData", "append"} : Doing(a, h)
      BY <2>2 DEF ArmClose, ArmError, EmitClose, TcpData, AppendBytes
    <3> QED BY <1>4, <3>1 DEF EarlySteps
  <2>3. CASE SelectError(a)
    BY <1>2, <2>3 DEF SelectError, ErrorEligible, EarlyState, StreamInv, ClaimSeals
  <2>4. CASE SelectData(a) \/ LeaveRemainder(a)
    BY <1>2, <2>4 DEF SelectData, LeaveRemainder, EarlyState
  <2>5. CASE SelectClose(a)
    BY <1>2, <2>5 DEF SelectClose, CloseEligible, EarlyState
  <2>6. CASE \/ AuthoriseData(a) \/ Snapshot(a) \/ Send(a)
             \/ CommitError(a) \/ CommitClose(a) \/ CommitData(a)
    <3>1. drv.pc \notin {"idle", "select"}
      BY <2>6 DEF AuthoriseData, Snapshot, Send, CommitError, CommitClose, CommitData, Driving
    <3> QED BY <1>2, <3>1 DEF EarlyState, StreamInv, DriverOK, KindKnown
  <2> QED BY <1>6, <2>1, <2>2, <2>3, <2>4, <2>5, <2>6 DEF DriverStep
<1>7. CASE TeardownStep(a)
  <2>1. CASE \/ AbandonClose(a) \/ CloseHandshake(a) \/ CloseCas(a) \/ CloseConnected(a)
             \/ EmitCloseAndTransition(a) \/ CasDisconnecting(a) \/ TcpEof(a) \/ EofStream(a)
             \/ RxClose(a) \/ FinalizeRemote(a) \/ RxError(a) \/ SendError(a) \/ TerminalState(a)
             \/ ArriveParty(a) \/ Finalizer(a) \/ AbandonLate(a) \/ LocalDisconnect(a)
             \/ SendAck(a) \/ AckSnapshot(a) \/ AckTransport(a)
    <3>1. PICK h \in {"abandonClose", "closeHandshake", "closeCas", "closeConnected",
                      "emitCloseAndTransition", "casDisconnecting", "eof", "eofStream", "rxClose",
                      "finalizeRemote", "rxError", "sendError", "failLocally", "linger",
                      "errorState", "lingerClosed", "arriveTransport", "arriveTransportDeferred",
                      "arriveProducer", "finalizer", "abandonLate", "reset", "hangup", "ack",
                      "ackSnapshot", "ackTransport"} : Doing(a, h)
      BY <2>1 DEF AbandonClose, CloseHandshake, CloseCas, CloseConnected,
         EmitCloseAndTransition, CasDisconnecting, TcpEof, EofStream, RxClose, FinalizeRemote,
         RxError, SendError, TerminalState, ArriveParty, Finalizer, AbandonLate,
         LocalDisconnect, SendAck, AckSnapshot, AckTransport
    <3> QED BY <1>4, <3>1 DEF EarlySteps
  <2> QED BY <1>2, <1>3, <1>7, <2>1, EarlyPassing, EarlyShutdown, EarlyHook, EarlyForce
      DEF TeardownStep
<1> QED BY <1>5, <1>6, <1>7 DEF Step

\* A handler begins.
LEMMA EarlyLoaded ==
  ASSUME TypeOK, EarlyTokens, EarlyFree, NEW b \in Actors, todo[b] = <<>>,
         NEW q \in Seq(EarlySteps), todo' = [todo EXCEPT ![b] = q], state' = state, mx' = mx,
         man'.present = man.present, man'.idFree = man.idFree
  PROVE  EarlyTokens' /\ EarlyFree'
<1>1. todo'[b] = q /\ \A c \in Actors : c # b => todo'[c] = todo[c]
  BY DEF TypeOK
<1>2. \A s : ~Has(todo[b], s)
  BY HasNone
<1>3. \A s : Has(q, s) => s \in EarlySteps
  <2>1. \A i \in DOMAIN q : q[i] \in EarlySteps
    BY ElementOfSeq, LenProperties
  <2> QED BY <2>1 DEF Has
<1>4. \A s : Pending(s) => Pending(s)'
  <2> SUFFICES ASSUME NEW s, NEW c \in Actors, Has(todo[c], s) PROVE Has(todo'[c], s)
    BY DEF Pending
  <2> QED BY <1>1, <1>2
<1>5. EarlyTokens'
  <2> SUFFICES ASSUME NEW s, NEW c \in Actors, Has(todo'[c], s) PROVE s \in EarlySteps
    BY DEF EarlyTokens, Pending
  <2> QED BY <1>1, <1>3 DEF EarlyTokens, Pending
<1> QED BY <1>4, <1>5 DEF EarlyFree

\* Only the manager's users can begin one on a tunnel that was not opened.
LEMMA EarlyOutside ==
  ASSUME TypeOK, EndInv, EarlyInv,
         \/ \E o \in Ops : Start(o)
         \/ \E t \in Timers : Fire(t)
         \/ RunPosted \/ Destroy
  PROVE  EarlyInv'
<1> SUFFICES ASSUME left'["open"] > 0 PROVE EarlyState' /\ EarlyTokens' /\ EarlyFree'
  BY DEF EarlyInv
<1>0. left["open"] \in Nat /\ left["open"] <= 1 /\ (left["open"] > 0 => Client)
  <2>1. left["open"] \in Nat
    BY DEF TypeOK, Budget, Ops
  <2> QED BY <2>1 DEF EndInv, OpenOnce
<1>1. left["open"] > 0 /\ ~Start("open")
  <2>1. ASSUME NEW o \in Ops, Start(o) PROVE left["open"] > 0 /\ o # "open"
    <3>1. left' = [left EXCEPT ![o] = @ - 1] /\ "open" \in DOMAIN left
      BY <2>1 DEF Start, TypeOK, Budget, Ops
    <3> QED BY <1>0, <3>1
  <2>2. ASSUME ~\E o \in Ops : Start(o) PROVE left' = left
    BY <2>2 DEF Fire, RunPosted, Destroy
  <2>3. "open" \in Ops
    BY DEF Ops
  <2> QED BY <2>1, <2>2, <2>3
<1>2. EarlyState /\ EarlyTokens /\ EarlyFree /\ Client
  BY <1>0, <1>1 DEF EarlyInv
<1>3. {"timeoutClose", "remove", "closeAll", "abandonAll", "closeAllLocal"} \subseteq EarlySteps
  BY DEF EarlySteps
<1>4. CASE \E o \in Ops : Start(o)
  <2>1. PICK o \in Ops : Start(o)
    BY <1>4
  <2>2. /\ MayStart(o) /\ todo[Worker(o)] = <<>>
        /\ todo' = [todo EXCEPT ![Worker(o)] = Handler(o)]
        /\ started' = started \cup {o}
        /\ UNCHANGED <<state, op, cf, er, co, drv, mx, man, wire, timers>>
    BY <2>1 DEF Start
  <2>3. o \in {"reap", "remove", "closeAll", "abandonAll", "closeAllLocal"}
    <3>1. ~OnWire("OPEN") /\ ~Started("open") /\ ~Started("rxAck") /\ state \notin Established
      BY <1>2 DEF EarlyState, Started, Established
    <3>2. o # "open"
      BY <1>1, <2>1
    <3> QED BY <1>2, <2>2, <3>1, <3>2 DEF MayStart, Ops
  <2>4. Handler(o) \in Seq(EarlySteps)
    <3>1. Handler(o) = <<"timeoutClose", "remove">> \/ (o # "reap" /\ Handler(o) = <<o>>)
      BY <2>3 DEF Handler
    <3> QED BY <1>3, <2>3, <3>1, EarlyCalls
  <2>5. Worker(o) \in Actors
    BY DEF Worker, Actors
  <2>6. EarlyTokens' /\ EarlyFree'
    BY <1>2, <2>2, <2>4, <2>5, EarlyLoaded
  <2>7. EarlyState'
    BY <1>2, <2>2, <2>3 DEF EarlyState, OnWire
  <2> QED BY <2>6, <2>7
<1>5. CASE \E t \in Timers : Fire(t)
  BY <1>2, <1>5 DEF Fire, EarlyState
<1>6. CASE RunPosted
  <2>1. /\ "io" \in Actors /\ todo["io"] = <<>> /\ todo' = [todo EXCEPT !["io"] = <<"remove">>]
        /\ UNCHANGED <<state, op, cf, er, co, drv, mx, wire, timers, started>>
        /\ man'.present = man.present /\ man'.idFree = man.idFree
    BY <1>6 DEF RunPosted, Actors, TypeOK, ManagerRecord
  <2>2. <<"remove">> \in Seq(EarlySteps)
    BY <1>3, EarlyCalls
  <2>3. EarlyTokens' /\ EarlyFree'
    BY <1>2, <2>1, <2>2, EarlyLoaded
  <2> QED BY <1>2, <2>1, <2>3 DEF EarlyState, OnWire
<1>7. CASE Destroy
  BY <1>1, <1>7 DEF Destroy, Referenced
<1> QED BY <1>4, <1>5, <1>6, <1>7

LEMMA EarlyHolds == Spec => []EarlyInv
<1>1. Init => EarlyInv
  <2> SUFFICES ASSUME Init, left["open"] > 0 PROVE EarlyState /\ EarlyTokens /\ EarlyFree
    BY DEF EarlyInv
  <2>1. state = "None"
    BY OpenOnceAssumption, ScenarioAssumption, StartAssumption DEF Init, Ops
  <2>2. EarlyTokens
    BY HasNone DEF Init, EarlyTokens, Pending
  <2>3. drv.kind = "none" /\ ~OnWire("OPEN")
    BY IdleType DEF Init, Idle, OnWire
  <2> QED BY <2>1, <2>2, <2>3 DEF Init, EarlyState, EarlyFree
<1>2. TypeOK /\ StreamInv /\ EndInv /\ EarlyInv /\ [Next]_vars => EarlyInv'
  <2> SUFFICES ASSUME TypeOK, StreamInv, EndInv, EarlyInv, [Next]_vars PROVE EarlyInv'
    OBVIOUS
  <2>1. CASE UNCHANGED vars
    BY <2>1 DEF vars, EarlyInv, EarlyState, EarlyTokens, EarlyFree, Pending, Has, OnWire
  <2> QED BY <2>1, EarlyStep, EarlyOutside DEF Next, Rest
<1> QED BY <1>1, <1>2, EndInvariant, PTL DEF Spec

\* A tunnel that ended has left the manager's map once nothing is running or armed,
\* and one that left the map has given its id back, for every scenario of frames,
\* socket events, requests of the manager's users and transport faults: the close
\* callback removes it whichever of the racing paths ended it, and the hook of
\* remove_tunnel_impl(), the settlement of the terminal ERROR, the CLOSE or the
\* destructor frees the id.
THEOREM IdReturnedHolds == Spec => []IdReturned
<1>1. TypeOK /\ EndInv /\ EarlyInv => IdReturned
  <2> SUFFICES ASSUME TypeOK, EndInv, EarlyInv, Quiet PROVE
        /\ state \in Terminal => ~man.present
        /\ ~man.present => man.idFree
    BY DEF IdReturned, EndedRemoved, RemovedIdFree
  <2>1. /\ \A a \in Actors : todo[a] = <<>>
        /\ timers = {} /\ ~man.posted /\ (man.alive => Referenced)
    BY DEF Quiet
  <2>2. \A s : ~Pending(s)
    BY <2>1, HasNone DEF Pending
  <2>3. drv.pc = "idle"
    BY <2>1, HasNone DEF EndInv, DriverRuns, TypeOK, DriverRecord
  <2>4. ~er.slot
    BY <2>1, <2>2, <2>3 DEF EndInv, SlotDriven
  <2>5. ASSUME state \in Terminal, man.present PROVE FALSE
    <3>1. ~er.fence
      BY <2>2, <2>4, <2>5 DEF EndInv, FenceSettles, FinalizerTaken
    <3>2. once.notified
      BY <2>2, <2>5, <3>1 DEF EndInv, EndNotifies
    <3> QED BY <2>1, <2>2, <2>5, <3>2 DEF EndInv, NotifiedRemoves
  <2>6. ASSUME ~man.present PROVE man.idFree
    <3>1. CASE left["open"] > 0
      BY <2>2, <2>6, <3>1 DEF EarlyInv, EarlyFree
    <3>2. CASE ~(left["open"] > 0)
      <4>1. ~Referenced
        BY <2>1, <2>6, <3>2 DEF Referenced
      <4> QED BY <2>1, <4>1 DEF EndInv, Dead
    <3> QED BY <3>1, <3>2
  <2> QED BY <2>5, <2>6
<1> QED BY <1>1, EndInvariant, EarlyHolds, PTL

\* What must not be left of a terminal ERROR or of a frame in the driver's hands
\* when nothing is running and nothing is armed.
Settled ==
  /\ drv.pc = "idle" /\ cf.frame # "InFlight"
  /\ ~er.slot /\ ~er.sending /\ ~er.fence /\ ~er.finalize

\* The part of NothingStranded that concerns the terminal ERROR and the driver
\* holds in every scenario: whatever kick found the driver busy, retry timer was
\* cancelled or party arrived second, run_emission_driver() is left only with its
\* frame settled, the ERROR slot is emptied and the id fence comes down.
THEOREM SettledHolds == Spec => [](Quiet => Settled)
<1>1. TypeOK /\ StreamInv /\ EndInv /\ EarlyInv => (Quiet => Settled)
  <2> SUFFICES ASSUME TypeOK, StreamInv, EndInv, EarlyInv, Quiet PROVE Settled
    OBVIOUS
  <2>1. /\ \A a \in Actors : todo[a] = <<>>
        /\ timers = {} /\ (man.alive => Referenced)
    BY DEF Quiet
  <2>2. \A s : ~Pending(s)
    BY <2>1, HasNone DEF Pending
  <2>3. drv.pc = "idle"
    BY <2>1, HasNone DEF EndInv, DriverRuns, TypeOK, DriverRecord
  <2>4. drv.kind = "none"
    BY <2>3 DEF StreamInv, DriverOK, KindKnown
  <2>5. ~er.slot /\ ~er.sending /\ cf.frame # "InFlight"
    BY <2>1, <2>2, <2>3, <2>4 DEF EndInv, SlotDriven, SlotFlags, CloseHeld
  <2>6. ~er.finalize
    <3>1. CASE man.present
      BY <2>2, <3>1 DEF EndInv, FinalizerTaken
    <3>2. CASE left["open"] > 0
      BY <3>2 DEF EarlyInv, EarlyState
    <3>3. CASE ~man.present /\ ~(left["open"] > 0)
      <4>1. ~Referenced
        BY <2>1, <3>3 DEF Referenced
      <4> QED BY <2>1, <4>1 DEF EndInv, Dead
    <3> QED BY <3>1, <3>2, <3>3
  <2>7. ~er.fence
    BY <2>2, <2>5, <2>6 DEF EndInv, FenceSettles
  <2> QED BY <2>3, <2>5, <2>6, <2>7 DEF Settled
<1> QED BY <1>1, EndInvariant, EarlyHolds, PTL
=============================================================================
