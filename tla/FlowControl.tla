---------------------------- MODULE FlowControl ----------------------------
(***************************************************************************)
(* One direction of a stream, end to end: a local source feeds a sending   *)
(* tunnel through its window and its backlog (src/src/tunnel/tunnel.cpp),  *)
(* the receiving tunnel writes to its TcpConnection                        *)
(* (src/src/core/tcp_connection.cpp) and returns credit as TUNNEL_ACKs,    *)
(* which it withholds while that connection is over its limit.             *)
(*                                                                         *)
(* Bytes are numbered as the source produces them.  The emission driver is *)
(* one step here: module Tunnel shows that what it was given leaves once   *)
(* and in order (OutboundStream), with the CLOSE behind an empty FIFO.     *)
(***************************************************************************)
EXTENDS Integers, Sequences

CONSTANTS
  Source,        \* "socket": pausable, ends in a half-close; "pipe": stdin, ends in close()
  Total,         \* bytes the source has
  ReadSizes,     \* how many bytes one read may return
  Holdback,      \* bytes read ahead before start_read(), delivered in one call
  Windows,       \* the values target_window_bytes() may take
  AckThreshold,  \* ack_threshold_ of the receiver
  WriteLimit,    \* max_write_buffer_size_ of the receiver's connection
  FrameCap,      \* payload of one DATA frame
  FullBudget,    \* how many ACK sends may find the SENDQ full ...
  FailBudget     \* ... or fail for good

ASSUME SourceAssumption == Source \in {"socket", "pipe"} /\ Total \in Nat /\ Holdback \in 0 .. Total
ASSUME ReadAssumption == ReadSizes \subseteq Nat \ {0} /\ 1 \in ReadSizes
ASSUME WindowAssumption == Windows \subseteq Nat /\ Windows # {}
ASSUME LimitAssumption ==
  /\ AckThreshold \in Nat \ {0} /\ WriteLimit \in Nat \ {0} /\ FrameCap \in Nat \ {0}
  /\ FullBudget \in Nat /\ FailBudget \in Nat

VARIABLES
  tcp,     \* the source's strand: pc, bytes in hand, count read, pause flag, posted do_read()s
  ack,     \* the sender's inbound thread in handle_tunnel_ack_frame(): pc, credit, backlog chunk
  win,     \* send_window_used_, the target window, total_bytes_{sent,emitted,acked}_
  backlog, \* pending_tcp_input_ and pending_tcp_eof_, tcp_backpressure_mutex_
  outb,    \* the FIFO, the deferred close and "state_ is Connected"
  net,     \* frames on their way to the receiver, in order (toxcore is lossless)
  acks,    \* credit on its way back
  rx,      \* the receiver's inbound thread: the frame it is handling
  since,   \* bytes_received_since_ack_
  sock,    \* the receiver's TcpConnection
  credit,  \* the threads that may be inside send_ack(): pc and the amount exchanged out
  armed,   \* ack_retry_timer_armed_
  faults   \* remaining transport faults, and the credit a permanent failure dropped

vars == <<tcp, ack, win, backlog, outb, net, acks, rx, since, sock, credit, armed, faults>>

Creditors == {"rx", "strand", "timer"}
Socket == Source = "socket"
Frame(k, bytes) == [kind |-> k, bytes |-> bytes]
NoFrame == Frame("NONE", <<>>)
Numbers(i, j) == [k \in 1 .. (j - i + 1) |-> i + k - 1]
Drop(s, n) == SubSeq(s, n + 1, Len(s))
Least(m, n) == IF m <= n THEN m ELSE n

Init ==
  /\ tcp = [pc |-> IF Holdback > 0 THEN "check" ELSE "reading", chunk |-> Numbers(1, Holdback),
            read |-> Holdback, paused |-> FALSE, reposts |-> 0]
  /\ ack = [pc |-> "idle", n |-> 0, chunk |-> <<>>]
  /\ win \in [used : {0}, size : Windows, sent : {0}, emitted : {0}, acked : {0}]
  /\ backlog = [bytes |-> <<>>, eof |-> FALSE]
  /\ outb = [fifo |-> <<>>, closing |-> FALSE, connected |-> TRUE]
  /\ net = <<>> /\ acks = <<>>
  /\ rx = NoFrame
  /\ since = 0
  /\ sock = [bytes |-> 0, posted |-> <<>>, queue |-> <<>>, hit |-> FALSE,
             shut |-> FALSE, fin |-> FALSE, out |-> <<>>]
  /\ credit = [c \in Creditors |-> [pc |-> "idle", n |-> 0]]
  /\ armed = FALSE
  /\ faults = [full |-> FullBudget, fail |-> FailBudget, dropped |-> 0]

----------------------------------------------------------------------------
(* The source's strand: do_read() and on_tcp_data_received(). *)

ReadCompletes ==
  /\ tcp.pc = "reading"
  /\ \E n \in ReadSizes :
       /\ tcp.read + n <= Total
       /\ tcp' = [tcp EXCEPT !.pc = "check", !.chunk = Numbers(tcp.read + 1, tcp.read + n),
                             !.read = @ + n]
  /\ UNCHANGED <<ack, win, backlog, outb, net, acks, rx, since, sock, credit, armed, faults>>

\* The read ends with EOF: read_closed_.
ReadEof ==
  /\ tcp.pc = "reading" /\ tcp.read = Total
  /\ tcp' = [tcp EXCEPT !.pc = "eof"]
  /\ UNCHANGED <<ack, win, backlog, outb, net, acks, rx, since, sock, credit, armed, faults>>

\* Behind a backlog the bytes queue, and the pause is inside the lock.
CheckBacklog ==
  /\ tcp.pc = "check"
  /\ IF outb.connected /\ backlog.bytes # <<>>
     THEN /\ backlog' = [backlog EXCEPT !.bytes = @ \o tcp.chunk]
          /\ tcp' = [tcp EXCEPT !.pc = "loop", !.paused = @ \/ Socket]
     ELSE /\ backlog' = backlog
          /\ tcp' = [tcp EXCEPT !.pc = IF outb.connected THEN "reserve" ELSE "loop"]
  /\ UNCHANGED <<ack, win, outb, net, acks, rx, since, sock, credit, armed, faults>>

\* Mutant: the window is tested without the bytes that are to be sent.
FitsEmptyOnly(n) == outb.connected /\ win.used < win.size

\* send_data_to_tox(): the window test and the reservation are one CAS.
Fits(n) == outb.connected /\ win.used + n <= win.size

TcpReserve ==
  /\ tcp.pc = "reserve"
  /\ IF Fits(Len(tcp.chunk))
     THEN /\ win' = [win EXCEPT !.used = @ + Len(tcp.chunk)]
          /\ tcp' = [tcp EXCEPT !.pc = "append"]
     ELSE /\ win' = win
          /\ tcp' = [tcp EXCEPT !.pc = "insert"]
  /\ UNCHANGED <<ack, backlog, outb, net, acks, rx, since, sock, credit, armed, faults>>

TcpAppend ==
  /\ tcp.pc = "append"
  /\ outb' = [outb EXCEPT !.fifo = @ \o tcp.chunk]
  /\ win' = [win EXCEPT !.sent = @ + Len(tcp.chunk)]
  /\ tcp' = [tcp EXCEPT !.pc = "loop"]
  /\ UNCHANGED <<ack, backlog, net, acks, rx, since, sock, credit, armed, faults>>

\* Refused: the bytes are kept first ...
TcpInsert ==
  /\ tcp.pc = "insert"
  /\ backlog' = [backlog EXCEPT !.bytes = @ \o tcp.chunk]
  /\ tcp' = [tcp EXCEPT !.pc = IF Socket THEN "pause" ELSE "loop"]
  /\ UNCHANGED <<ack, win, outb, net, acks, rx, since, sock, credit, armed, faults>>

\* ... and the reading is paused afterwards, outside the lock.
TcpPause ==
  /\ tcp.pc = "pause"
  /\ tcp' = [tcp EXCEPT !.pc = "loop", !.paused = TRUE]
  /\ UNCHANGED <<ack, win, backlog, outb, net, acks, rx, since, sock, credit, armed, faults>>

\* do_read() at the end of the completion handler; a pipe reads on.
NextRead ==
  /\ tcp.pc = "loop"
  /\ tcp' = [tcp EXCEPT !.pc = IF tcp.paused THEN "idle" ELSE "reading"]
  /\ UNCHANGED <<ack, win, backlog, outb, net, acks, rx, since, sock, credit, armed, faults>>

\* The do_read() that resume_read() posted; a read in flight suppresses it.
PostedRead ==
  /\ tcp.reposts > 0 /\ tcp.pc \in {"idle", "reading", "done"}
  /\ tcp' = [tcp EXCEPT !.reposts = @ - 1,
                        !.pc = IF @ = "idle" /\ ~tcp.paused THEN "reading" ELSE @]
  /\ UNCHANGED <<ack, win, backlog, outb, net, acks, rx, since, sock, credit, armed, faults>>

\* on_tcp_read_eof() waits for the backlog; the pipe's close() knows only the FIFO.
SourceEof ==
  /\ tcp.pc = "eof"
  /\ tcp' = [tcp EXCEPT !.pc = "done"]
  /\ IF Socket /\ backlog.bytes # <<>>
     THEN backlog' = [backlog EXCEPT !.eof = TRUE] /\ outb' = outb
     ELSE outb' = [outb EXCEPT !.closing = TRUE] /\ backlog' = backlog
  /\ UNCHANGED <<ack, win, net, acks, rx, since, sock, credit, armed, faults>>

----------------------------------------------------------------------------
(* The emission driver. *)

\* total_bytes_emitted_ is counted before the frame is handed over.
EmitData ==
  LET n == Least(FrameCap, Len(outb.fifo))
  IN /\ outb.fifo # <<>>
     /\ outb' = [outb EXCEPT !.fifo = Drop(@, n)]
     /\ win' = [win EXCEPT !.emitted = @ + n]
     /\ net' = Append(net, Frame("DATA", SubSeq(outb.fifo, 1, n)))
     /\ UNCHANGED <<tcp, ack, backlog, acks, rx, since, sock, credit, armed, faults>>

\* A drained FIFO lets the deferred CLOSE out and ends admission.
EmitClose ==
  /\ outb.fifo = <<>> /\ outb.closing /\ outb.connected
  /\ outb' = [outb EXCEPT !.connected = FALSE]
  /\ net' = Append(net, Frame("CLOSE", <<>>))
  /\ UNCHANGED <<tcp, ack, win, backlog, acks, rx, since, sock, credit, armed, faults>>

----------------------------------------------------------------------------
(* The sender's inbound thread: handle_tunnel_ack_frame(). *)

\* The credit is clamped to what was emitted and not yet acknowledged.
RxAck ==
  /\ ack.pc = "idle" /\ acks # <<>>
  /\ LET n == Least(Head(acks), win.emitted - win.acked)
     IN /\ win' = [win EXCEPT !.acked = @ + n]
        /\ ack' = [ack EXCEPT !.pc = "release", !.n = n]
  /\ acks' = Tail(acks)
  /\ UNCHANGED <<tcp, backlog, outb, net, rx, since, sock, credit, armed, faults>>

\* Mutant: the release subtracts one byte too few.
ReleaseShort ==
  /\ ack.pc = "release"
  /\ \E w \in IF ack.n > 0 THEN Windows ELSE {win.size} :
       win' = [win EXCEPT !.used = IF @ > ack.n - 1 THEN @ - (ack.n - 1) ELSE 0, !.size = w]
  /\ ack' = [ack EXCEPT !.pc = "flush"]
  /\ UNCHANGED <<tcp, backlog, outb, net, acks, rx, since, sock, credit, armed, faults>>

\* Saturating release; the RTT and bandwidth samples may resize the window.
ReleaseWindow ==
  /\ ack.pc = "release"
  /\ \E w \in IF ack.n > 0 THEN Windows ELSE {win.size} :
       win' = [win EXCEPT !.used = IF @ > ack.n THEN @ - ack.n ELSE 0, !.size = w]
  /\ ack' = [ack EXCEPT !.pc = "flush"]
  /\ UNCHANGED <<tcp, backlog, outb, net, acks, rx, since, sock, credit, armed, faults>>

\* flush_pending_tcp_input(): take as much of the backlog as the window has room for.
FlushBacklog ==
  /\ ack.pc = "flush"
  /\ ack' = IF backlog.bytes = <<>>
            THEN [ack EXCEPT !.pc = IF Socket /\ ack.n > 0 THEN "resume" ELSE "eof"]
            ELSE IF win.used >= win.size THEN [ack EXCEPT !.pc = "eof"]
            ELSE [ack EXCEPT !.pc = "reserve",
                    !.chunk = SubSeq(backlog.bytes, 1,
                                     Least(win.size - win.used, Len(backlog.bytes)))]
  /\ UNCHANGED <<tcp, win, backlog, outb, net, acks, rx, since, sock, credit, armed, faults>>

FlushReserve ==
  /\ ack.pc = "reserve"
  /\ IF Fits(Len(ack.chunk))
     THEN /\ win' = [win EXCEPT !.used = @ + Len(ack.chunk)]
          /\ ack' = [ack EXCEPT !.pc = "append"]
     ELSE /\ win' = win
          /\ ack' = [ack EXCEPT !.pc = "eof"]
  /\ UNCHANGED <<tcp, backlog, outb, net, acks, rx, since, sock, credit, armed, faults>>

FlushAppend ==
  /\ ack.pc = "append"
  /\ outb' = [outb EXCEPT !.fifo = @ \o ack.chunk]
  /\ win' = [win EXCEPT !.sent = @ + Len(ack.chunk)]
  /\ ack' = [ack EXCEPT !.pc = "consume"]
  /\ UNCHANGED <<tcp, backlog, net, acks, rx, since, sock, credit, armed, faults>>

\* Mutant: the backlog is cleared, with what arrived during the send.
FlushConsumeAll ==
  /\ ack.pc = "consume"
  /\ backlog' = [backlog EXCEPT !.bytes = <<>>]
  /\ ack' = [ack EXCEPT !.pc = "flush"]
  /\ UNCHANGED <<tcp, win, outb, net, acks, rx, since, sock, credit, armed, faults>>

\* The sent prefix leaves the backlog only now, under the lock again.
FlushConsume ==
  /\ ack.pc = "consume"
  /\ backlog' = [backlog EXCEPT !.bytes = Drop(@, Len(ack.chunk))]
  /\ ack' = [ack EXCEPT !.pc = "flush"]
  /\ UNCHANGED <<tcp, win, outb, net, acks, rx, since, sock, credit, armed, faults>>

\* resume_read(): the flag is exchanged and do_read() posted.
ResumeRead ==
  /\ ack.pc = "resume"
  /\ tcp' = [tcp EXCEPT !.paused = FALSE, !.reposts = IF tcp.paused THEN @ + 1 ELSE @]
  /\ ack' = [ack EXCEPT !.pc = "eof"]
  /\ UNCHANGED <<win, backlog, outb, net, acks, rx, since, sock, credit, armed, faults>>

\* maybe_finish_pending_tcp_eof()
FinishEof ==
  /\ ack.pc = "eof"
  /\ IF backlog.eof /\ backlog.bytes = <<>>
     THEN /\ backlog' = [backlog EXCEPT !.eof = FALSE]
          /\ outb' = [outb EXCEPT !.closing = TRUE]
     ELSE UNCHANGED <<backlog, outb>>
  /\ ack' = [ack EXCEPT !.pc = "idle"]
  /\ UNCHANGED <<tcp, win, net, acks, rx, since, sock, credit, armed, faults>>

----------------------------------------------------------------------------
(* The receiver's inbound thread: DATA and CLOSE. *)

RxFree == rx = NoFrame /\ credit["rx"].pc = "idle"

RxData ==
  /\ RxFree /\ net # <<>> /\ Head(net).kind = "DATA"
  /\ rx' = Head(net) /\ net' = Tail(net)
  /\ since' = since + Len(Head(net).bytes)
  /\ UNCHANGED <<tcp, ack, win, backlog, outb, acks, sock, credit, armed, faults>>

\* TcpConnection::write() always posts the bytes; over its limit it says no, and
\* the ACK is withheld.  Otherwise maybe_send_ack().
WriteToTcp ==
  /\ rx # NoFrame
  /\ LET over == sock.bytes + Len(rx.bytes) > WriteLimit
     IN credit' = IF over \/ since < AckThreshold THEN credit
                  ELSE [credit EXCEPT !["rx"].pc = "take"]
  /\ sock' = [sock EXCEPT !.posted = Append(@, rx)]
  /\ rx' = NoFrame
  /\ UNCHANGED <<tcp, ack, win, backlog, outb, net, acks, since, armed, faults>>

\* handle_tunnel_close_frame(): shutdown_send() is posted behind the writes.
RxClose ==
  /\ RxFree /\ net # <<>> /\ Head(net).kind = "CLOSE"
  /\ sock' = [sock EXCEPT !.posted = Append(@, Head(net))]
  /\ net' = Tail(net)
  /\ UNCHANGED <<tcp, ack, win, backlog, outb, acks, rx, since, credit, armed, faults>>

----------------------------------------------------------------------------
(* The strand of the receiver's TcpConnection. *)

StrandFree == credit["strand"].pc = "idle"

\* maybe_shutdown_send_locked(): the FIN goes out behind an empty queue.
MaybeShutdown(s) == [s EXCEPT !.fin = @ \/ (s.shut /\ s.queue = <<>>)]

\* enqueue_write_locked(), or the posted half of shutdown_send().
RunPosted ==
  /\ StrandFree /\ sock.posted # <<>>
  /\ LET f == Head(sock.posted)
         total == sock.bytes + Len(f.bytes)
         rest == [sock EXCEPT !.posted = Tail(@)]
     IN sock' = IF f.kind = "CLOSE" THEN MaybeShutdown([rest EXCEPT !.shut = TRUE])
                ELSE IF sock.shut THEN rest
                ELSE [rest EXCEPT !.bytes = total, !.hit = @ \/ total >= WriteLimit,
                                  !.queue = Append(@, f.bytes)]
  /\ UNCHANGED <<tcp, ack, win, backlog, outb, net, acks, rx, since, credit, armed, faults>>

\* A write completes: below half the limit the tunnel may flush its withheld ACK.
WriteCompletes ==
  /\ StrandFree /\ sock.queue # <<>>
  /\ LET left == sock.bytes - Len(Head(sock.queue))
         done == [sock EXCEPT !.bytes = left, !.queue = Tail(@), !.out = @ \o Head(sock.queue)]
         writable == sock.hit /\ left <= WriteLimit \div 2
     IN /\ sock' = IF writable THEN done ELSE MaybeShutdown(done)
        /\ credit' = IF writable THEN [credit EXCEPT !["strand"].pc = "take"] ELSE credit
  /\ UNCHANGED <<tcp, ack, win, backlog, outb, net, acks, rx, since, armed, faults>>

----------------------------------------------------------------------------
(* send_ack(), entered from DATA, from notify_tcp_writable() and from the retry timer. *)

\* What the writable callback's verdict does; do_write() follows.
AfterCredit(c, flushed) ==
  IF c # "strand" THEN sock
  ELSE MaybeShutdown([sock EXCEPT !.hit = @ /\ ~flushed])

TakeCredit(c) ==
  /\ credit[c].pc = "take"
  /\ since' = 0
  /\ credit' = [credit EXCEPT ![c] = IF since = 0 THEN [pc |-> "idle", n |-> 0]
                                     ELSE [pc |-> "send", n |-> since]]
  /\ sock' = IF since = 0 THEN AfterCredit(c, TRUE) ELSE sock
  /\ UNCHANGED <<tcp, ack, win, backlog, outb, net, acks, rx, armed, faults>>

CreditDone(c) == credit' = [credit EXCEPT ![c] = [pc |-> "idle", n |-> 0]]

CreditSent(c) ==
  /\ credit[c].pc = "send"
  /\ acks' = Append(acks, credit[c].n)
  /\ CreditDone(c)
  /\ sock' = AfterCredit(c, TRUE)
  /\ UNCHANGED <<tcp, ack, win, backlog, outb, net, rx, since, armed, faults>>

\* Mutant: a backpressured ACK waits for the next DATA frame instead of a timer.
CreditFullUnarmed(c) ==
  /\ credit[c].pc = "send" /\ faults.full > 0
  /\ faults' = [faults EXCEPT !.full = @ - 1]
  /\ since' = since + credit[c].n
  /\ CreditDone(c)
  /\ sock' = AfterCredit(c, FALSE)
  /\ UNCHANGED <<tcp, ack, win, backlog, outb, net, acks, rx, armed>>

\* SENDQ full: the credit is added back, and arm_ack_retry_timer().
CreditFull(c) ==
  /\ credit[c].pc = "send" /\ faults.full > 0
  /\ faults' = [faults EXCEPT !.full = @ - 1]
  /\ since' = since + credit[c].n
  /\ armed' = TRUE
  /\ CreditDone(c)
  /\ sock' = AfterCredit(c, FALSE)
  /\ UNCHANGED <<tcp, ack, win, backlog, outb, net, acks, rx>>

\* A permanent failure drops the credit and reports it as flushed.
CreditFailed(c) ==
  /\ credit[c].pc = "send" /\ faults.fail > 0
  /\ faults' = [faults EXCEPT !.fail = @ - 1, !.dropped = @ + credit[c].n]
  /\ CreditDone(c)
  /\ sock' = AfterCredit(c, TRUE)
  /\ UNCHANGED <<tcp, ack, win, backlog, outb, net, acks, rx, since, armed>>

FireAckRetry ==
  /\ armed /\ credit["timer"].pc = "idle"
  /\ armed' = FALSE
  /\ credit' = [credit EXCEPT !["timer"].pc = "take"]
  /\ UNCHANGED <<tcp, ack, win, backlog, outb, net, acks, rx, since, sock, faults>>

----------------------------------------------------------------------------
SourceStep ==
  \/ ReadCompletes \/ ReadEof \/ CheckBacklog \/ TcpReserve \/ TcpAppend \/ TcpInsert
  \/ TcpPause \/ NextRead \/ PostedRead \/ SourceEof
DriverStep == EmitData \/ EmitClose
AckStep ==
  \/ RxAck \/ ReleaseWindow \/ FlushBacklog \/ FlushReserve \/ FlushAppend \/ FlushConsume
  \/ ResumeRead \/ FinishEof
ReceiverStep == RxData \/ WriteToTcp \/ RxClose
StrandStep == RunPosted \/ WriteCompletes
CreditStep(c) == TakeCredit(c) \/ CreditSent(c) \/ CreditFull(c) \/ CreditFailed(c)

\* Nothing is running, nothing is under way and no timer is armed.
Settled ==
  /\ tcp.pc \in {"idle", "done"} /\ tcp.reposts = 0
  /\ outb.fifo = <<>> /\ ~(outb.closing /\ outb.connected)
  /\ net = <<>> /\ acks = <<>> /\ ack.pc = "idle" /\ rx = NoFrame
  /\ sock.posted = <<>> /\ sock.queue = <<>>
  /\ \A c \in Creditors : credit[c].pc = "idle"
  /\ ~armed

Rest == Settled /\ UNCHANGED vars

Next ==
  \/ SourceStep \/ DriverStep \/ AckStep \/ ReceiverStep \/ StrandStep \/ FireAckRetry
  \/ (\E c \in Creditors : CreditStep(c)) \/ Rest

\* The source has data and the receiving application reads; frames travel, and
\* the threads and timers of both io_contexts run.
Fairness ==
  /\ WF_vars(SourceStep) /\ WF_vars(DriverStep) /\ WF_vars(AckStep)
  /\ WF_vars(ReceiverStep) /\ WF_vars(RunPosted) /\ WF_vars(WriteCompletes)
  /\ WF_vars(FireAckRetry)
  /\ \A c \in Creditors : WF_vars(CreditStep(c))

Spec == Init /\ [][Next]_vars
FairSpec == Spec /\ Fairness

----------------------------------------------------------------------------
SourceRecord ==
  [pc : {"idle", "reading", "check", "reserve", "append", "insert", "pause", "loop", "eof", "done"},
   chunk : Seq(Nat), read : Nat, paused : BOOLEAN, reposts : Nat]
AckRecord ==
  [pc : {"idle", "release", "flush", "reserve", "append", "consume", "resume", "eof"},
   n : Nat, chunk : Seq(Nat)]
WindowRecord == [used : Nat, size : Windows, sent : Nat, emitted : Nat, acked : Nat]
BacklogRecord == [bytes : Seq(Nat), eof : BOOLEAN]
OutboundRecord == [fifo : Seq(Nat), closing : BOOLEAN, connected : BOOLEAN]
Frames == [kind : {"DATA", "CLOSE"}, bytes : Seq(Nat)]
ConnectionRecord ==
  [bytes : Int, posted : Seq(Frames), queue : Seq(Seq(Nat)), hit : BOOLEAN, shut : BOOLEAN,
   fin : BOOLEAN, out : Seq(Nat)]
CreditRecord == [pc : {"idle", "take", "send"}, n : Nat]

\* Every variable keeps its type: no counter of the window goes below zero.
TypeOK ==
  /\ tcp \in SourceRecord /\ ack \in AckRecord /\ win \in WindowRecord
  /\ backlog \in BacklogRecord /\ outb \in OutboundRecord
  /\ net \in Seq(Frames) /\ acks \in Seq(Nat)
  /\ rx \in Frames \cup {NoFrame} /\ since \in Nat
  /\ sock \in ConnectionRecord
  /\ credit \in [Creditors -> CreditRecord]
  /\ armed \in BOOLEAN
  /\ faults \in [full : Nat, fail : Nat, dropped : Nat]

\* What a thread has reserved in the window and not yet appended, and what was
\* acknowledged and not yet released.
Reserved ==
  (IF tcp.pc = "append" THEN Len(tcp.chunk) ELSE 0)
    + (IF ack.pc = "append" THEN Len(ack.chunk) ELSE 0)
Releasing == IF ack.pc = "release" THEN ack.n ELSE 0

\* send_window_used_ is exactly what was admitted and not acknowledged, with the
\* reservations in hand: two threads reserve and one releases without a lock.
WindowAccount ==
  /\ win.used + win.acked = win.sent + Reserved + Releasing
  /\ win.acked <= win.emitted
  /\ win.emitted + Len(outb.fifo) = win.sent

\* Unacknowledged bytes never exceed the largest window the estimator has set,
\* whatever reads and backlog flushes race for the room.
WindowBound == \E w \in Windows : win.sent - win.acked <= w

\* A receiver that owes an ACK sends it: withheld credit is flushed once the
\* socket drains (notify_tcp_writable()) and a backpressured ACK is retried.
CreditReturned == since >= AckThreshold ~> since < AckThreshold
============================================================================
