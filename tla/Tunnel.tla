------------------------------- MODULE Tunnel -------------------------------
(***************************************************************************)
(* One TunnelImpl with everything that acts on it: the opener, the inbound *)
(* frame strand, the TCP strand, the manager and its reaper, the posted    *)
(* removals and the six timers.                                            *)
(***************************************************************************)
EXTENDS TunnelHandshake, EmissionDriver, TunnelTeardown

Init ==
  /\ state = StartState
  /\ op = [phase |-> "Pending", abandon |-> FALSE, owed |-> FALSE]
  /\ cf = [frame |-> "NotOwed", req |-> FALSE, armed |-> FALSE, cancelled |-> FALSE]
  /\ er = [claimed |-> FALSE, fence |-> FALSE, slot |-> FALSE, sending |-> FALSE,
           armed |-> FALSE, cancelled |-> FALSE, producer |-> FALSE, transport |-> FALSE,
           finalize |-> FALSE]
  /\ co = [abort |-> FALSE, fifo |-> <<>>, flush |-> FALSE, closing |-> FALSE,
           closingFull |-> FALSE, remotePending |-> FALSE, remoteSeen |-> FALSE,
           closeSent |-> FALSE, streamDone |-> FALSE]
  /\ drv = NoDriver
  /\ mx = [gate |-> FALSE, hook |-> "none", socket |-> "held"]
  /\ once = [released |-> FALSE, notified |-> FALSE]
  /\ man = [present |-> TRUE, idFree |-> FALSE, posted |-> FALSE, alive |-> TRUE]
  /\ emitted = 0 /\ accepted = 0
  /\ wire = <<>>
  /\ timers = {}
  /\ todo = [a \in Actors |-> <<>>]
  /\ left \in Scenarios
  /\ started = {}

----------------------------------------------------------------------------
(* The outside: frames from the peer, the TCP socket, the manager's users. *)

Started(o) == o \in started

\* The strand that runs the handler of o, and the handler.
Worker(o) ==
  CASE o = "open" -> "app"
    [] o \in {"rxAck", "rxData", "rxClose", "rxError"} -> "inbound"
    [] o \in {"tcpData", "eof", "reset", "hangup"} -> "tcp"
    [] o = "reap" -> "reaper"
    [] OTHER -> "mgr"

Handler(o) ==
  CASE o = "rxData" -> <<"ack">>
    [] o = "reap" -> <<"timeoutClose", "remove">>
    [] OTHER -> <<o>>

\* A peer answers only an OPEN it has seen, in order, and route_frame() finds
\* the tunnel in the map.  A socket delivers data, then its end; on the client
\* its read loop runs on the thread that called open() (SOCKS5) or is started by
\* the transition to Connected (port forwards).
MayStart(o) ==
  LET peerKnows == ~Client \/ OnWire("OPEN")
      peerAccepted == ~Client \/ Started("rxAck")
      opened == todo["app"] = <<>> \/ state \notin {"None", "Connecting"}
      socketOpen == /\ mx.socket = "held" /\ ~once.notified /\ Referenced
                    /\ Client => Started("open") /\ opened
  IN CASE o = "open" -> TRUE
       [] o = "rxAck" -> man.present /\ peerKnows /\ ~Started("rxError")
       [] o = "rxData" -> man.present /\ peerAccepted /\ ~Started("rxClose") /\ ~Started("rxError")
       [] o = "rxClose" -> man.present /\ peerAccepted /\ ~Started("rxError")
       [] o = "rxError" -> man.present /\ peerKnows
       [] o = "tcpData" -> socketOpen /\ \A e \in {"eof", "reset", "hangup"} : ~Started(e)
       [] o = "eof" -> socketOpen /\ \A e \in {"reset", "hangup"} : ~Started(e)
       [] o \in {"reset", "hangup"} -> socketOpen
       [] o = "reap" -> man.present /\ state # "Connecting"
       [] o = "failLocally" -> man.present /\ state \in Established
       [] OTHER -> man.present

Start(o) ==
  /\ left[o] > 0
  /\ MayStart(o)
  /\ todo[Worker(o)] = <<>>
  /\ todo' = [todo EXCEPT ![Worker(o)] = Handler(o)]
  /\ left' = [left EXCEPT ![o] = @ - 1]
  /\ started' = started \cup {o}
  /\ UNCHANGED <<state, op, cf, er, co, drv, mx, once, man, emitted, accepted, wire, timers>>

----------------------------------------------------------------------------
(* Timer handlers, with the critical section each begins with. *)

Fire(t) ==
  /\ t \in timers /\ todo[t] = <<>>
  /\ t \in StrongTimers \/ Referenced
  /\ timers' = timers \ {t}
  /\ cf' = IF t # "close" THEN cf
           ELSE [cf EXCEPT !.armed = FALSE,
                           !.req = @ \/ (~cf.cancelled /\ ~er.claimed /\ cf.frame = "Owed")]
  /\ er' = IF t # "error" THEN er ELSE [er EXCEPT !.armed = FALSE]
  /\ todo' = [todo EXCEPT ![t] =
       CASE t = "open" -> <<"retryOpen">>
         [] t = "deadline" -> If(state = "Connecting", "expire")
         [] t = "coalesce" -> <<"driveAll">>
         [] t = "close" -> If(~cf.cancelled /\ ~er.claimed /\ cf.frame = "Owed", "driveAll")
         [] t = "error" -> If(~er.cancelled /\ er.slot, "driveAll")
         [] t = "ack" -> <<"ack">>]
  /\ UNCHANGED <<state, op, co, drv, mx, once, man, emitted, accepted, wire, left, started>>

\* The server's posted remove_tunnel_if(), which holds the tunnel weakly.
RunPosted ==
  /\ man.posted /\ Referenced /\ todo["io"] = <<>>
  /\ man' = [man EXCEPT !.posted = FALSE]
  /\ todo' = [todo EXCEPT !["io"] = <<"remove">>]
  /\ UNCHANGED <<state, op, cf, er, co, drv, mx, once, emitted, accepted, wire, timers, left, started>>

\* ~TunnelImpl(): runs as soon as nobody refers to the tunnel; weak timers die with it.
Destroy ==
  LET settled == ParkedError(er) \/ er.finalize
  IN /\ man.alive /\ ~Referenced
     /\ man' = [man EXCEPT !.alive = FALSE, !.posted = FALSE,
                           !.idFree = @ \/ mx.hook = "set"]
     /\ mx' = [mx EXCEPT !.hook = IF @ = "set" THEN "fired" ELSE @,
                         !.socket = IF @ = "held" THEN "forced" ELSE @]
     /\ er' = [SettleErrorForShutdown(er) EXCEPT !.transport = @ \/ ParkedError(er),
                                                 !.fence = @ /\ ~settled, !.finalize = FALSE]
     /\ once' = [once EXCEPT !.notified = @ \/ settled]
     /\ cf' = [cf EXCEPT !.frame = IF @ \in {"Owed", "InFlight"} THEN "Abandoned" ELSE @]
     /\ timers' = {}
     /\ UNCHANGED <<state, op, co, drv, emitted, accepted, wire, todo, left, started>>

Quiet ==
  /\ timers = {} /\ ~man.posted /\ (man.alive => Referenced)
  /\ \A a \in Actors : todo[a] = <<>>

\* Nothing is running and nothing is armed: the tunnel waits for the outside.
Rest == Quiet /\ UNCHANGED vars

----------------------------------------------------------------------------
Step(a) == HandshakeStep(a) \/ DriverStep(a) \/ TeardownStep(a)

Next ==
  \/ \E o \in Ops : Start(o)
  \/ \E t \in Timers : Fire(t)
  \/ \E a \in Actors : Step(a)
  \/ RunPosted \/ Destroy \/ Rest

\* Threads of the io_context run, armed timers fire, posted work runs; nothing
\* obliges the peer, the socket or the manager's users to act.
Fairness ==
  /\ \A a \in Actors : WF_vars(Step(a))
  /\ \A t \in Timers : WF_vars(Fire(t))
  /\ WF_vars(RunPosted) /\ WF_vars(Destroy)

Spec == Init /\ [][Next]_vars
FairSpec == Spec /\ Fairness

----------------------------------------------------------------------------
OpenRecord == [phase : OpenPhases, abandon : BOOLEAN, owed : BOOLEAN]
CloseRecord == [frame : CloseFrameStates, req : BOOLEAN, armed : BOOLEAN, cancelled : BOOLEAN]
ErrorRecord ==
  [claimed : BOOLEAN, fence : BOOLEAN, slot : BOOLEAN, sending : BOOLEAN, armed : BOOLEAN,
   cancelled : BOOLEAN, producer : BOOLEAN, transport : BOOLEAN, finalize : BOOLEAN]
Bytes == [id : Nat, cap : Nat]
OutboundRecord ==
  [abort : BOOLEAN, fifo : Seq(Bytes), flush : BOOLEAN, closing : BOOLEAN,
   closingFull : BOOLEAN, remotePending : BOOLEAN, remoteSeen : BOOLEAN,
   closeSent : BOOLEAN, streamDone : BOOLEAN]
DriverRecord ==
  [owner : Actors, pc : {"idle", "select", "authorise", "snapshot", "transport", "commit"},
   kind : {"none", "DATA", "CLOSE", "ERROR"}, from : Nat, n : Nat, out : Outcomes,
   arm : BOOLEAN]
SocketRecord ==
  [gate : BOOLEAN, hook : {"none", "set", "fired"}, socket : {"held", "drained", "forced"}]
OnceRecord == [released : BOOLEAN, notified : BOOLEAN]
ManagerRecord == [present : BOOLEAN, idFree : BOOLEAN, posted : BOOLEAN, alive : BOOLEAN]
Budget == [Ops \cup Faults -> Nat]

\* Every variable stays in its type; in particular the undo of a failed send
\* (total_bytes_emitted_.fetch_sub) never takes the counter below zero.
TypeOK ==
  /\ state \in States /\ op \in OpenRecord /\ cf \in CloseRecord /\ er \in ErrorRecord
  /\ co \in OutboundRecord /\ drv \in DriverRecord /\ mx \in SocketRecord
  /\ once \in OnceRecord /\ man \in ManagerRecord
  /\ emitted \in Nat /\ accepted \in Nat
  /\ wire \in Seq(Frames)
  /\ timers \subseteq Timers
  /\ todo \in [Actors -> Seq(Steps)]
  /\ left \in Budget
  /\ started \subseteq Ops

IsKind(i, k) == wire[i].kind = k

----------------------------------------------------------------------------
(* What goes on the wire. *)

\* Once a TUNNEL_ERROR has left, no DATA, CLOSE or second ERROR follows it: the
\* "monotonic ladder" close() and run_emission_driver() keep, whatever the
\* producers racing the driver do (ACKs are credit for the other direction).
ErrorIsLast ==
  \A i, j \in DOMAIN wire : i < j /\ IsKind(i, "ERROR") => wire[j].kind \in {"ACK", "OPEN"}

\* At most one TUNNEL_CLOSE per tunnel, across close(), half-close, force_close(),
\* the OPEN sender's deferred CLOSE and the CLOSE retry timer: a second one could
\* name a tunnel that has taken over the id (emit_close_frame_once()).
OneClose ==
  \A i, j \in DOMAIN wire : IsKind(i, "CLOSE") /\ IsKind(j, "CLOSE") => i = j

\* The client's TUNNEL_OPEN is sent at most once and before every other frame of
\* the tunnel, so no CLOSE or ERROR can overtake it (attempt_open_send()).
OpenIsFirst ==
  \A i \in DOMAIN wire : IsKind(i, "OPEN") <=> Client /\ i = 1

\* Bytes counted in total_bytes_emitted_ that no frame has carried (yet).
Unsent ==
  IF drv.kind = "DATA" /\ (drv.pc \in {"snapshot", "transport"}
                           \/ (drv.pc = "commit" /\ drv.out # "Sent"))
  THEN drv.n ELSE 0

NextByte == emitted - Unsent + 1

Stream == INSTANCE OutboundStream WITH log <- wire, next <- NextByte, sealed <- co.abort

\* The whole machinery (cohorts, coalescing policies, SENDQ retries, the driver
\* hand-over, aborts and the outbound gate) implements OutboundStream: accepted
\* bytes leave exactly once and in order, with at most one CLOSE, and at most one
\* ERROR behind everything else.
StreamContract == Stream!Spec

----------------------------------------------------------------------------
(* What must have happened by the time nothing is left to do. *)

\* Every obligation is discharged: no frame requested, in flight or owed, no
\* ERROR slot or id fence up, no byte in the FIFO.  A kick that found the driver
\* busy, or a retry timer that was not armed, would leave one behind.
NothingStranded ==
  Quiet => /\ drv.pc = "idle" /\ ~cf.req /\ cf.frame \notin {"Owed", "InFlight"}
           /\ ~er.slot /\ ~er.fence /\ ~er.finalize
           /\ co.fifo = <<>>

\* The peer hears of this tunnel by its OPEN first; once it was told of it, it is
\* told of its end (a CLOSE the transport refuses for good counts), unless it
\* ended it itself with an ERROR or the local teardown is the silent one.
PeerTold ==
  /\ OpenIsFirst
  /\ Quiet /\ (~Client \/ OnWire("OPEN")) /\ (state \in Terminal \/ ~man.present)
    /\ started \cap {"rxError", "failLocally", "closeAllLocal"} = {}
    => OnWire("CLOSE") \/ OnWire("ERROR") \/ cf.frame = "Resolved"

\* A tunnel that reached Closed or Error has left the manager's map: the close
\* callback fired once and removed it, whichever of the racing paths ended it.
EndedRemoved == Quiet /\ state \in Terminal => ~man.present

\* A tunnel that has left the map has given its id back: a refused OPEN, an
\* abandoned handshake or a racing removal leaks none of the 65535 ids.
RemovedIdFree == Quiet /\ ~man.present => man.idFree

\* However the handshake fails or is abandoned, the tunnel is removed once it has
\* ended, and its id returned once it is removed.
IdReturned == EndedRemoved /\ RemovedIdFree

\* When the local connection is gone the tunnel does not stay established.
HangupEnds ==
  Quiet /\ started \cap {"hangup", "reset"} # {} => state \notin {"Connecting", "Connected"}

----------------------------------------------------------------------------
(* What a step may never do. *)

\* Once the manager may hand the id to another tunnel, no frame naming it leaves.
\* Apart from close_all_local(), which forgets the session with all its ids, and
\* from a peer's ERROR that is handled before the thread that sent the OPEN has
\* recorded it: its deferred CLOSE may follow.
IdReleaseSafe ==
  [][man.idFree /\ started \cap {"closeAllLocal", "rxError"} = {} => wire' = wire]_vars

\* Closed and Error are final: no late ACK, half-close or handshake rollback
\* resurrects the tunnel (transition_state(), emit_close_and_transition()).
TerminalIsFinal == [][(state \in Terminal) => (state' = state)]_vars

----------------------------------------------------------------------------
(* What must eventually happen. *)

\* The id of a removed tunnel is handed back, through retries and the destructor.
IdReclaimed == ~man.present ~> man.idFree

\* A terminal ERROR settles: both parties arrive and the id fence comes down.
ErrorSettles == er.claimed ~> ~er.fence

\* What holds an id back comes to an end: the retries of a removed tunnel and the
\* fence of a terminal ERROR.
IdsComeBack == IdReclaimed /\ ErrorSettles

\* Bytes taken from the local socket leave the FIFO: a backpressured or sub-cap
\* remainder always has a timer or a running driver behind it.
BytesLeave == co.fifo # <<>> ~> co.fifo = <<>>
============================================================================
