--------------------------- MODULE TcpConnection ---------------------------
(***************************************************************************)
(* One local TCP connection: connect, read loop, peer-close watch, write   *)
(* queue, send shutdown and close (src/src/core/tcp_connection.cpp).       *)
(*                                                                         *)
(* Calls post to the connection's strand; a socket operation is pending in *)
(* the kernel until its handler is queued on the strand, and closing the   *)
(* socket turns the pending ones into aborted ones.  A handler is one      *)
(* step.  Bytes are numbers, writes of one byte.  The watermark and        *)
(* on_writable are FlowControl.tla's.                                      *)
(***************************************************************************)
EXTENDS Integers, Sequences, FiniteSets, SequencesExt

CONSTANTS HoldCap    \* kPeerCloseHoldbackCap

ASSUME HoldAssumption == HoldCap \in Nat \ {0}

T(k) == [k |-> k, b |-> <<>>]
With(k, b) == [k |-> k, b |-> b]
Post(s, t) == [s EXCEPT !.run = Append(@, t)]

\* ops: what is pending in the kernel; run: the strand; fly: the write in
\* flight; fed, eof, ends: what the consumer was told; inb, pfin: sent by the
\* peer and not yet read; out, fin: what the peer gets; sent, due: writes called,
\* and those called before the end was asked for (-1 while it was not).
Fresh(st) ==
  [st |-> st, run |-> <<>>, ops |-> {}, fault |-> FALSE,
   q |-> <<>>, fly |-> <<>>, bytes |-> 0, writing |-> FALSE, req |-> FALSE, done |-> FALSE,
   rfly |-> FALSE, rclosed |-> FALSE, paused |-> FALSE,
   watch |-> FALSE, wfly |-> FALSE, hold |-> <<>>, pend |-> FALSE,
   fed |-> <<>>, eof |-> 0, ends |-> 0, told |-> 0,
   inb |-> <<>>, pfin |-> "no", sentIn |-> <<>>, out |-> <<>>, fin |-> "no", sent |-> 0, due |-> -1]

Open(s) == s.st \in {"Connected", "Disconnecting"}

----------------------------------------------------------------------------
(* Closing. *)

AbortOf == [w |-> "wabort", r |-> "rabort", wait |-> "waitabort", c |-> "cfail"]
Aborted(s) == SetToSeq({T(AbortOf[o]) : o \in s.ops})

\* Mutant: a connection that is closed already is closed again.
do_close_again(s, abortive) ==
  [s EXCEPT !.st = "Disconnected", !.run = @ \o Aborted(s), !.ops = {},
            !.bytes = @ - Len(s.q), !.q = <<>>, !.writing = FALSE, !.rclosed = TRUE,
            !.req = TRUE, !.done = TRUE, !.ends = @ + 1,
            !.fin = IF @ = "no" THEN (IF abortive THEN "rst" ELSE "fin") ELSE @]

\* do_close(): once; the write in flight refunds itself when it is aborted.
do_close(s, abortive) ==
  IF s.st = "Disconnected" THEN s
  ELSE [s EXCEPT !.st = "Disconnected", !.run = @ \o Aborted(s), !.ops = {},
                 !.bytes = @ - Len(s.q), !.q = <<>>, !.writing = FALSE, !.rclosed = TRUE,
                 !.req = TRUE, !.done = TRUE, !.ends = @ + 1,
                 !.fin = IF @ = "no" THEN (IF abortive THEN "rst" ELSE "fin") ELSE @]

do_force_close(s, reset) ==
  IF s.st = "Disconnected" THEN s
  ELSE do_close([s EXCEPT !.bytes = @ - Len(s.q), !.q = <<>>, !.fault = TRUE], reset)

\* close_on_callback_fault(), a read, a write or a watch that fails.
Fail(s) == IF s.st = "Disconnected" THEN s
           ELSE do_close([s EXCEPT !.st = "Disconnecting", !.fault = TRUE], FALSE)

----------------------------------------------------------------------------
(* Writing. *)

\* Mutant: the FIN does not wait for the write in flight.
shutdown_send_early(s) ==
  IF s.req /\ ~s.done /\ s.q = <<>> THEN [s EXCEPT !.done = TRUE, !.fin = "fin"] ELSE s

maybe_shutdown_send(s) ==
  IF s.req /\ ~s.done /\ ~s.writing /\ s.q = <<>>
  THEN [s EXCEPT !.done = TRUE, !.fin = IF @ = "no" THEN "fin" ELSE @] ELSE s

do_write(s) ==
  IF s.q = <<>>
  THEN LET r == maybe_shutdown_send([s EXCEPT !.writing = FALSE])
       IN  IF r.st = "Disconnecting" THEN do_close(r, FALSE) ELSE r
  ELSE [s EXCEPT !.writing = TRUE, !.fly = <<Head(s.q)>>, !.q = Tail(@), !.ops = @ \cup {"w"}]

enqueue_write(s, b) ==
  LET r == [s EXCEPT !.bytes = @ + 1, !.q = Append(@, b)]
  IN  IF r.writing THEN r ELSE do_write(r)

\* write(): refused when closed or after shutdown_send(), at the call ...
Write(s) == IF ~Open(s) \/ s.req THEN s
            ELSE Post([s EXCEPT !.sent = @ + 1], With("write", <<s.sent + 1>>))
\* ... and again on the strand.
RunWrite(s, b) == IF ~Open(s) \/ s.req THEN s ELSE enqueue_write(s, b[1])

WriteDone(s) == do_write([s EXCEPT !.bytes = @ - 1, !.fly = <<>>])
\* Failed, or aborted by do_close(), which has run then.
WriteFailed(s) ==
  do_close([s EXCEPT !.writing = FALSE, !.bytes = @ - 1, !.fly = <<>>, !.fault = TRUE,
                     !.st = IF @ = "Connected" THEN "Disconnecting" ELSE @], FALSE)

shutdown_send(s) == IF s.st = "Disconnected" THEN s ELSE maybe_shutdown_send([s EXCEPT !.req = TRUE])

close(s) ==
  IF s.st = "Disconnected" THEN s
  ELSE LET r == [s EXCEPT !.st = "Disconnecting"]
       IN  IF ~s.writing /\ s.q = <<>> THEN do_close(r, FALSE) ELSE r

----------------------------------------------------------------------------
(* Reading; Feed(s, b) is the consumer's on_data. *)

do_read(s) ==
  IF s.st = "Connected" /\ ~s.rclosed /\ ~s.paused /\ ~s.rfly
  THEN [s EXCEPT !.rfly = TRUE, !.ops = @ \cup {"r"}] ELSE s

ReadFailed(s) == IF s.st = "Connected" THEN Fail([s EXCEPT !.rfly = FALSE]) ELSE [s EXCEPT !.rfly = FALSE]
ReadEnded(s) == [s EXCEPT !.rfly = FALSE, !.rclosed = TRUE, !.eof = @ + 1]

pause_read(s) == [s EXCEPT !.paused = TRUE]
resume_read(s) == IF s.paused THEN Post([s EXCEPT !.paused = FALSE], T("doread")) ELSE s

\* start_read(): what the watch has read first, then a FIN behind it.
StartRead(s) ==
  IF s.st /= "Connected" THEN [s EXCEPT !.watch = FALSE]
  ELSE LET r == [s EXCEPT !.watch = FALSE, !.fed = @ \o s.hold, !.hold = <<>>]
       IN  IF r.pend THEN [r EXCEPT !.pend = FALSE, !.eof = @ + 1] ELSE do_read(r)

----------------------------------------------------------------------------
(* The peer-close watch of a connection whose read loop has not started. *)

do_watch(s) ==
  IF s.watch /\ s.st = "Connected" /\ ~s.rclosed /\ ~s.rfly /\ ~s.wfly
  THEN [s EXCEPT !.wfly = TRUE, !.ops = @ \cup {"wait"}] ELSE s

\* Readable: bank what there is, or see the FIN behind it, or give up.
Readable(s) ==
  LET r == [s EXCEPT !.wfly = FALSE]
      n == IF Len(s.inb) <= HoldCap - Len(s.hold) THEN Len(s.inb) ELSE HoldCap - Len(s.hold)
  IN  CASE ~r.watch \/ r.st /= "Connected" -> r
        [] OTHER ->
             CASE r.inb /= <<>> /\ Len(r.hold) >= HoldCap ->
                    Fail([r EXCEPT !.watch = FALSE, !.hold = <<>>])
               [] r.inb /= <<>> /\ Len(r.hold) < HoldCap ->
                    do_watch([r EXCEPT !.hold = @ \o SubSeq(r.inb, 1, n),
                                       !.inb = SubSeq(@, n + 1, Len(@))])
               [] r.inb = <<>> /\ r.pfin = "no" -> do_watch(r)
               [] r.inb = <<>> /\ r.pfin = "fin" /\ r.hold /= <<>> ->
                    [r EXCEPT !.watch = FALSE, !.pend = TRUE, !.rclosed = TRUE]
               [] OTHER -> Fail([r EXCEPT !.watch = FALSE, !.hold = <<>>])

----------------------------------------------------------------------------
(* Connecting; told counts the outcomes the caller got. *)

async_connect(s) == IF s.st = "Disconnected" THEN [s EXCEPT !.st = "Connecting", !.ops = @ \cup {"c"}]
                    ELSE [s EXCEPT !.told = @ + 1]
ConnectDone(s) == IF s.st = "Connecting" THEN [s EXCEPT !.st = "Connected", !.told = @ + 1]
                  ELSE [s EXCEPT !.told = @ + 1]
ConnectFailed(s) == [s EXCEPT !.st = "Disconnected", !.told = @ + 1]

----------------------------------------------------------------------------
(* The strand and the kernel. *)

\* A task on the strand, reads of data apart.
Handle(s, t) ==
  CASE t.k = "write" -> RunWrite(s, t.b)
    [] t.k = "shut" -> shutdown_send(s)
    [] t.k = "close" -> close(s)
    [] t.k = "force" -> do_force_close(s, FALSE)
    [] t.k = "abort" -> do_force_close(s, TRUE)
    [] t.k = "start" -> StartRead(s)
    [] t.k = "doread" -> do_read(s)
    [] t.k = "watch" -> do_watch([s EXCEPT !.watch = TRUE])
    [] t.k = "unwatch" -> [s EXCEPT !.watch = FALSE]
    [] t.k = "wdone" -> WriteDone(s)
    [] t.k \in {"wfail", "wabort"} -> WriteFailed(s)
    [] t.k = "reof" -> ReadEnded(s)
    [] t.k = "rfail" -> ReadFailed(s)
    [] t.k = "rabort" -> [s EXCEPT !.rfly = FALSE]
    [] t.k = "ready" -> Readable(s)
    [] t.k = "waitabort" -> [s EXCEPT !.wfly = FALSE]
    [] t.k = "cdone" -> ConnectDone(s)
    [] t.k = "cfail" -> ConnectFailed(s)

\* An operation the kernel completes: its handler is queued.
Completed(s, op, t) == Post([s EXCEPT !.ops = @ \ {op}], t)
Completions(s) ==
  (IF "w" \in s.ops
   THEN {IF s.pfin = "rst" THEN Completed(s, "w", T("wfail"))
         ELSE Completed([s EXCEPT !.out = @ \o s.fly], "w", T("wdone"))} ELSE {})
  \cup (IF "r" \in s.ops /\ s.inb /= <<>>
        THEN {Completed([s EXCEPT !.inb = SubSeq(@, n + 1, Len(@))], "r",
                        With("rdone", SubSeq(s.inb, 1, n))) : n \in 1 .. Len(s.inb)} ELSE {})
  \cup (IF "r" \in s.ops /\ s.inb = <<>> /\ s.pfin /= "no"
        THEN {Completed(s, "r", T(IF s.pfin = "fin" THEN "reof" ELSE "rfail"))} ELSE {})
  \cup (IF "wait" \in s.ops /\ (s.inb /= <<>> \/ s.pfin /= "no")
        THEN {Completed(s, "wait", T("ready"))} ELSE {})
  \cup (IF "c" \in s.ops THEN {Completed(s, "c", T("cdone")), Completed(s, "c", T("cfail"))} ELSE {})

\* The peer sends, finishes or resets (which discards what was not yet read).
PeerSends(s, b) == [s EXCEPT !.inb = Append(@, b), !.sentIn = Append(@, b)]
PeerEnds(s, how) == [s EXCEPT !.pfin = how, !.inb = IF how = "rst" THEN <<>> ELSE @,
                              !.fault = @ \/ how = "rst"]
============================================================================
