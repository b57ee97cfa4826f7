----------------------------- MODULE FlowProofs -----------------------------
(***************************************************************************)
(* One stream of FlowControl for every window set, threshold and limit.    *)
(* The window: send_window_used_ is exact, and it bounds what is           *)
(* unacknowledged.  Types alone are not inductive: the ACK clamp is a      *)
(* natural number only because acked <= emitted (WindowAccount).           *)
(* The credit: it is in one place at a time, so the clamp takes nothing.   *)
(* The bytes: every place holds a run of consecutive numbers, and the runs *)
(* follow one another from the application back to the source.             *)
(***************************************************************************)
EXTENDS FlowProperties, SequenceTheorems, FiniteSetTheorems, WellFoundedInduction, TLAPS

----------------------------------------------------------------------------
(* Sequences of bytes, and the fields of the records. *)

\* A numbered chunk is a sequence of bytes.
LEMMA NumbersType == \A i, j \in Nat : Numbers(i, j) \in Seq(Nat)
<1>1. TAKE i, j \in Nat
<1>2. CASE j - i + 1 < 0
  <2>1. Numbers(i, j) = [k \in 1 .. 0 |-> i + k - 1]
    BY <1>2 DEF Numbers
  <2> QED BY <2>1
<1>3. CASE j - i + 1 >= 0
  <2>1. \A k \in 1 .. (j - i + 1) : i + k - 1 \in Nat
    OBVIOUS
  <2> QED BY <1>3, <2>1 DEF Numbers
<1> QED BY <1>2, <1>3

\* What is left of a sequence of bytes is one, and so is a prefix of it, with
\* the lengths the counters are changed by.
LEMMA DropType ==
  ASSUME NEW s \in Seq(Nat), NEW n \in Nat
  PROVE  Drop(s, n) \in Seq(Nat) /\ (n <= Len(s) => Len(Drop(s, n)) = Len(s) - n)
<1>1. Drop(s, n) \in Seq(Nat)
  BY SubSeqProperties, LenProperties DEF Drop
<1>2. n <= Len(s) => Len(Drop(s, n)) = Len(s) - n
  BY DEF Drop
<1> QED BY <1>1, <1>2

LEMMA PrefixType ==
  \A s \in Seq(Nat), n \in Nat :
    n <= Len(s) => SubSeq(s, 1, n) \in Seq(Nat) /\ Len(SubSeq(s, 1, n)) = n
OBVIOUS

LEMMA LeastType == \A m, n \in Nat : Least(m, n) \in Nat /\ Least(m, n) <= m /\ Least(m, n) <= n
BY DEF Least

\* The sender's counters and sequences.
LEMMA SenderFields ==
  ASSUME TypeOK
  PROVE  /\ tcp.chunk \in Seq(Nat) /\ Len(tcp.chunk) \in Nat /\ tcp.read \in Nat
         /\ tcp.reposts \in Nat /\ tcp.paused \in BOOLEAN
         /\ ack.chunk \in Seq(Nat) /\ Len(ack.chunk) \in Nat /\ ack.n \in Nat
         /\ win.used \in Nat /\ win.sent \in Nat /\ win.emitted \in Nat /\ win.acked \in Nat
         /\ win.size \in Windows /\ win.size \in Nat
         /\ backlog.bytes \in Seq(Nat) /\ Len(backlog.bytes) \in Nat
         /\ outb.fifo \in Seq(Nat) /\ Len(outb.fifo) \in Nat
<1>1. tcp.chunk \in Seq(Nat) /\ tcp.read \in Nat /\ tcp.reposts \in Nat /\ tcp.paused \in BOOLEAN
  BY DEF TypeOK, SourceRecord
<1>2. ack.chunk \in Seq(Nat) /\ ack.n \in Nat
  BY DEF TypeOK, AckRecord
<1>3. /\ win.used \in Nat /\ win.sent \in Nat /\ win.emitted \in Nat /\ win.acked \in Nat
      /\ win.size \in Windows
  BY DEF TypeOK, WindowRecord
<1>4. backlog.bytes \in Seq(Nat)
  BY DEF TypeOK, BacklogRecord
<1>5. outb.fifo \in Seq(Nat)
  BY DEF TypeOK, OutboundRecord
<1> QED BY <1>1, <1>2, <1>3, <1>4, <1>5, LenProperties, WindowAssumption

----------------------------------------------------------------------------
(* Types. *)

\* Every step of the source keeps the types.
LEMMA SourceType == ASSUME TypeOK, SourceStep PROVE TypeOK'
<1>1. CASE ReadCompletes
  <2>1. PICK n \in ReadSizes :
          tcp' = [tcp EXCEPT !.pc = "check", !.chunk = Numbers(tcp.read + 1, tcp.read + n),
                             !.read = @ + n]
    BY <1>1 DEF ReadCompletes
  <2>2. n \in Nat /\ tcp.read + 1 \in Nat /\ tcp.read + n \in Nat
    <3> DEFINE r == tcp.read
    <3>1. n \in Nat /\ r \in Nat
      BY ReadAssumption, SenderFields
    <3> HIDE DEF r
    <3>2. r + 1 \in Nat /\ r + n \in Nat
      BY <3>1
    <3> QED BY <3>1, <3>2 DEF r
  <2>3. Numbers(tcp.read + 1, tcp.read + n) \in Seq(Nat)
    BY <2>2, NumbersType
  <2>4. tcp' \in SourceRecord
    BY <2>1, <2>2, <2>3 DEF TypeOK, SourceRecord
  <2> QED BY <1>1, <2>4 DEF ReadCompletes, TypeOK
<1>2. CASE ReadEof
  <2>1. tcp' \in SourceRecord
    BY <1>2 DEF ReadEof, TypeOK, SourceRecord
  <2> QED BY <1>2, <2>1 DEF ReadEof, TypeOK
<1>3. CASE CheckBacklog
  <2>1. backlog.bytes \o tcp.chunk \in Seq(Nat)
    BY SenderFields, ConcatProperties
  <2>2. backlog' \in BacklogRecord
    BY <1>3, <2>1 DEF CheckBacklog, TypeOK, BacklogRecord
  <2>3. (tcp.paused \/ Socket) \in BOOLEAN
    OBVIOUS
  <2>4. tcp' \in SourceRecord
    BY <1>3, <2>3 DEF CheckBacklog, TypeOK, SourceRecord
  <2> QED BY <1>3, <2>2, <2>4 DEF CheckBacklog, TypeOK
<1>4. CASE TcpReserve
  <2>1. win.used + Len(tcp.chunk) \in Nat
    BY SenderFields
  <2>2. win' \in WindowRecord
    BY <1>4, <2>1 DEF TcpReserve, TypeOK, WindowRecord
  <2>3. tcp' \in SourceRecord
    BY <1>4 DEF TcpReserve, TypeOK, SourceRecord
  <2> QED BY <1>4, <2>2, <2>3 DEF TcpReserve, TypeOK
<1>5. CASE TcpAppend
  <2>1. win.sent + Len(tcp.chunk) \in Nat /\ outb.fifo \o tcp.chunk \in Seq(Nat)
    BY SenderFields, ConcatProperties
  <2>2. win' \in WindowRecord
    BY <1>5, <2>1 DEF TcpAppend, TypeOK, WindowRecord
  <2>3. outb' \in OutboundRecord
    BY <1>5, <2>1 DEF TcpAppend, TypeOK, OutboundRecord
  <2>4. tcp' \in SourceRecord
    BY <1>5 DEF TcpAppend, TypeOK, SourceRecord
  <2> QED BY <1>5, <2>2, <2>3, <2>4 DEF TcpAppend, TypeOK
<1>6. CASE TcpInsert
  <2>1. backlog.bytes \o tcp.chunk \in Seq(Nat)
    BY SenderFields, ConcatProperties
  <2>2. backlog' \in BacklogRecord
    BY <1>6, <2>1 DEF TcpInsert, TypeOK, BacklogRecord
  <2>3. tcp' \in SourceRecord
    BY <1>6 DEF TcpInsert, TypeOK, SourceRecord
  <2> QED BY <1>6, <2>2, <2>3 DEF TcpInsert, TypeOK
<1>7. CASE TcpPause
  <2>1. tcp' \in SourceRecord
    BY <1>7 DEF TcpPause, TypeOK, SourceRecord
  <2> QED BY <1>7, <2>1 DEF TcpPause, TypeOK
<1>8. CASE NextRead
  <2>1. tcp' \in SourceRecord
    BY <1>8 DEF NextRead, TypeOK, SourceRecord
  <2> QED BY <1>8, <2>1 DEF NextRead, TypeOK
<1>9. CASE PostedRead
  <2>1. tcp.reposts - 1 \in Nat
    BY <1>9, SenderFields DEF PostedRead
  <2>2. tcp' \in SourceRecord
    BY <1>9, <2>1 DEF PostedRead, TypeOK, SourceRecord
  <2> QED BY <1>9, <2>2 DEF PostedRead, TypeOK
<1>10. CASE SourceEof
  <2>1. tcp' \in SourceRecord
    BY <1>10 DEF SourceEof, TypeOK, SourceRecord
  <2>2. backlog' \in BacklogRecord
    BY <1>10 DEF SourceEof, TypeOK, BacklogRecord
  <2>3. outb' \in OutboundRecord
    BY <1>10 DEF SourceEof, TypeOK, OutboundRecord
  <2> QED BY <1>10, <2>1, <2>2, <2>3 DEF SourceEof, TypeOK
<1> QED BY <1>1, <1>2, <1>3, <1>4, <1>5, <1>6, <1>7, <1>8, <1>9, <1>10 DEF SourceStep

\* So do the driver's two.
LEMMA DriverType == ASSUME TypeOK, DriverStep PROVE TypeOK'
<1>1. CASE EmitData
  <2> DEFINE n == Least(FrameCap, Len(outb.fifo))
  <2>1. n \in Nat /\ n <= Len(outb.fifo)
    BY LeastType, LimitAssumption, SenderFields
  <2>2. Drop(outb.fifo, n) \in Seq(Nat) /\ SubSeq(outb.fifo, 1, n) \in Seq(Nat)
    BY <2>1, DropType, PrefixType, SenderFields
  <2>3. win.emitted + n \in Nat
    BY <2>1, SenderFields
  <2> HIDE DEF n
  <2>4. outb' \in OutboundRecord
    BY <1>1, <2>2 DEF EmitData, TypeOK, OutboundRecord, n
  <2>5. win' \in WindowRecord
    BY <1>1, <2>3 DEF EmitData, TypeOK, WindowRecord, n
  <2>6. Frame("DATA", SubSeq(outb.fifo, 1, n)) \in Frames
    BY <2>2 DEF Frame, Frames
  <2>7. net' \in Seq(Frames)
    BY <1>1, <2>6, AppendProperties DEF EmitData, TypeOK, n
  <2> QED BY <1>1, <2>4, <2>5, <2>7 DEF EmitData, TypeOK
<1>2. CASE EmitClose
  <2>1. outb' \in OutboundRecord
    BY <1>2 DEF EmitClose, TypeOK, OutboundRecord
  <2>2. Frame("CLOSE", <<>>) \in Frames
    BY DEF Frame, Frames
  <2>3. net' \in Seq(Frames)
    BY <1>2, <2>2, AppendProperties DEF EmitClose, TypeOK
  <2> QED BY <1>2, <2>1, <2>3 DEF EmitClose, TypeOK
<1> QED BY <1>1, <1>2 DEF DriverStep

\* What the window relies on: the counters are exact, and every reservation was
\* admitted under some window.
UsedBound == \E w \in Windows : win.used <= w
WindowInv == WindowAccount /\ UsedBound

\* The ACK handler keeps the types: the clamp is natural because acked <= emitted.
LEMMA AckType == ASSUME TypeOK, WindowInv, AckStep PROVE TypeOK'
<1>1. CASE RxAck
  <2> DEFINE n == Least(Head(acks), win.emitted - win.acked)
  <2>1. acks \in Seq(Nat) /\ acks # <<>>
    BY <1>1 DEF RxAck, TypeOK
  <2>2. Head(acks) \in Nat /\ Tail(acks) \in Seq(Nat)
    BY <2>1, HeadTailProperties
  <2>3. win.emitted - win.acked \in Nat
    BY SenderFields DEF WindowInv, WindowAccount
  <2>4. n \in Nat
    BY <2>2, <2>3, LeastType
  <2>5. win.acked + n \in Nat
    BY <2>4, SenderFields
  <2> HIDE DEF n
  <2>6. win' \in WindowRecord
    BY <1>1, <2>5 DEF RxAck, TypeOK, WindowRecord, n
  <2>7. ack' \in AckRecord
    BY <1>1, <2>4 DEF RxAck, TypeOK, AckRecord, n
  <2>8. acks' \in Seq(Nat)
    BY <1>1, <2>2 DEF RxAck
  <2> QED BY <1>1, <2>6, <2>7, <2>8 DEF RxAck, TypeOK
<1>2. CASE ReleaseWindow
  <2>1. (IF win.used > ack.n THEN win.used - ack.n ELSE 0) \in Nat
    BY SenderFields
  <2>2. PICK w \in Windows :
          win' = [win EXCEPT !.used = IF @ > ack.n THEN @ - ack.n ELSE 0, !.size = w]
    BY <1>2, SenderFields DEF ReleaseWindow
  <2>3. win' \in WindowRecord
    BY <2>1, <2>2 DEF TypeOK, WindowRecord
  <2>4. ack' \in AckRecord
    BY <1>2 DEF ReleaseWindow, TypeOK, AckRecord
  <2> QED BY <1>2, <2>3, <2>4 DEF ReleaseWindow, TypeOK
<1>3. CASE FlushBacklog
  <2>1. CASE backlog.bytes # <<>> /\ ~(win.used >= win.size)
    <3> DEFINE n == Least(win.size - win.used, Len(backlog.bytes))
    <3>1. win.size - win.used \in Nat
      BY <2>1, SenderFields
    <3>2. n \in Nat /\ n <= Len(backlog.bytes)
      BY <3>1, LeastType, SenderFields
    <3>3. SubSeq(backlog.bytes, 1, n) \in Seq(Nat)
      BY <3>2, PrefixType, SenderFields
    <3> HIDE DEF n
    <3>4. ack' \in AckRecord
      BY <1>3, <2>1, <3>3 DEF FlushBacklog, TypeOK, AckRecord, n
    <3> QED BY <1>3, <3>4 DEF FlushBacklog, TypeOK
  <2>2. CASE ~(backlog.bytes # <<>> /\ ~(win.used >= win.size))
    <3>1. ack' \in AckRecord
      BY <1>3, <2>2 DEF FlushBacklog, TypeOK, AckRecord
    <3> QED BY <1>3, <3>1 DEF FlushBacklog, TypeOK
  <2> QED BY <2>1, <2>2
<1>4. CASE FlushReserve
  <2>1. win.used + Len(ack.chunk) \in Nat
    BY SenderFields
  <2>2. win' \in WindowRecord
    BY <1>4, <2>1 DEF FlushReserve, TypeOK, WindowRecord
  <2>3. ack' \in AckRecord
    BY <1>4 DEF FlushReserve, TypeOK, AckRecord
  <2> QED BY <1>4, <2>2, <2>3 DEF FlushReserve, TypeOK
<1>5. CASE FlushAppend
  <2>1. win.sent + Len(ack.chunk) \in Nat /\ outb.fifo \o ack.chunk \in Seq(Nat)
    BY SenderFields, ConcatProperties
  <2>2. win' \in WindowRecord
    BY <1>5, <2>1 DEF FlushAppend, TypeOK, WindowRecord
  <2>3. outb' \in OutboundRecord
    BY <1>5, <2>1 DEF FlushAppend, TypeOK, OutboundRecord
  <2>4. ack' \in AckRecord
    BY <1>5 DEF FlushAppend, TypeOK, AckRecord
  <2> QED BY <1>5, <2>2, <2>3, <2>4 DEF FlushAppend, TypeOK
<1>6. CASE FlushConsume
  <2>1. Drop(backlog.bytes, Len(ack.chunk)) \in Seq(Nat)
    BY DropType, SenderFields
  <2>2. backlog' \in BacklogRecord
    BY <1>6, <2>1 DEF FlushConsume, TypeOK, BacklogRecord
  <2>3. ack' \in AckRecord
    BY <1>6 DEF FlushConsume, TypeOK, AckRecord
  <2> QED BY <1>6, <2>2, <2>3 DEF FlushConsume, TypeOK
<1>7. CASE ResumeRead
  <2>1. tcp.reposts + 1 \in Nat
    BY SenderFields
  <2>2. tcp' \in SourceRecord
    BY <1>7, <2>1 DEF ResumeRead, TypeOK, SourceRecord
  <2>3. ack' \in AckRecord
    BY <1>7 DEF ResumeRead, TypeOK, AckRecord
  <2> QED BY <1>7, <2>2, <2>3 DEF ResumeRead, TypeOK
<1>8. CASE FinishEof
  <2>1. backlog' \in BacklogRecord
    BY <1>8 DEF FinishEof, TypeOK, BacklogRecord
  <2>2. outb' \in OutboundRecord
    BY <1>8 DEF FinishEof, TypeOK, OutboundRecord
  <2>3. ack' \in AckRecord
    BY <1>8 DEF FinishEof, TypeOK, AckRecord
  <2> QED BY <1>8, <2>1, <2>2, <2>3 DEF FinishEof, TypeOK
<1> QED BY <1>1, <1>2, <1>3, <1>4, <1>5, <1>6, <1>7, <1>8 DEF AckStep

\* The receiver's connection, its threads and the credit they hold.
LEMMA ReceiverFields ==
  ASSUME TypeOK
  PROVE  /\ rx.bytes \in Seq(Nat) /\ since \in Nat
         /\ sock.bytes \in Int /\ sock.posted \in Seq(Frames) /\ sock.queue \in Seq(Seq(Nat))
         /\ sock.out \in Seq(Nat) /\ sock.hit \in BOOLEAN /\ sock.shut \in BOOLEAN
         /\ sock.fin \in BOOLEAN
         /\ \A c \in Creditors : credit[c] \in CreditRecord /\ credit[c].n \in Nat
<1>1. rx.bytes \in Seq(Nat) /\ since \in Nat
  <2>1. CASE rx \in Frames
    BY <2>1 DEF TypeOK, Frames
  <2>2. CASE rx = NoFrame
    BY <2>2, EmptySeq DEF TypeOK, NoFrame, Frame
  <2> QED BY <2>1, <2>2 DEF TypeOK
<1>2. /\ sock.bytes \in Int /\ sock.posted \in Seq(Frames) /\ sock.queue \in Seq(Seq(Nat))
      /\ sock.out \in Seq(Nat) /\ sock.hit \in BOOLEAN /\ sock.shut \in BOOLEAN
      /\ sock.fin \in BOOLEAN
  BY DEF TypeOK, ConnectionRecord
<1>3. \A c \in Creditors : credit[c] \in CreditRecord /\ credit[c].n \in Nat
  BY DEF TypeOK, CreditRecord
<1> QED BY <1>1, <1>2, <1>3

\* maybe_shutdown_send_locked() and the writable verdict keep the connection's record.
LEMMA ShutdownType == \A s \in ConnectionRecord : MaybeShutdown(s) \in ConnectionRecord
BY DEF MaybeShutdown, ConnectionRecord

LEMMA AfterCreditType ==
  ASSUME TypeOK, NEW c, NEW flushed \in BOOLEAN
  PROVE  AfterCredit(c, flushed) \in ConnectionRecord
<1>1. [sock EXCEPT !.hit = @ /\ ~flushed] \in ConnectionRecord
  BY DEF TypeOK, ConnectionRecord
<1> QED BY <1>1, ShutdownType DEF AfterCredit, TypeOK

\* Asking for an ACK changes one thread's place.
LEMMA AskType ==
  ASSUME TypeOK, NEW c \in Creditors
  PROVE  [credit EXCEPT ![c].pc = "take"] \in [Creditors -> CreditRecord]
BY DEF TypeOK, CreditRecord

\* The receiver's inbound thread keeps the types.
LEMMA ReceiverType == ASSUME TypeOK, ReceiverStep PROVE TypeOK'
<1>1. CASE RxData
  <2>1. net \in Seq(Frames) /\ net # <<>>
    BY <1>1 DEF RxData, TypeOK
  <2>2. Head(net) \in Frames /\ Tail(net) \in Seq(Frames)
    BY <2>1, HeadTailProperties
  <2>3. Len(Head(net).bytes) \in Nat
    BY <2>2, LenProperties DEF Frames
  <2>4. since' \in Nat
    BY <1>1, <2>3, ReceiverFields DEF RxData
  <2> QED BY <1>1, <2>2, <2>4 DEF RxData, TypeOK
<1>2. CASE WriteToTcp
  <2>1. rx \in Frames
    BY <1>2 DEF WriteToTcp, TypeOK
  <2>2. Append(sock.posted, rx) \in Seq(Frames)
    BY <2>1, AppendProperties, ReceiverFields
  <2>3. sock' \in ConnectionRecord
    BY <1>2, <2>2 DEF WriteToTcp, TypeOK, ConnectionRecord
  <2>4. credit' \in [Creditors -> CreditRecord]
    BY <1>2, AskType DEF WriteToTcp, TypeOK, Creditors
  <2> QED BY <1>2, <2>3, <2>4 DEF WriteToTcp, TypeOK
<1>3. CASE RxClose
  <2>1. net \in Seq(Frames) /\ net # <<>>
    BY <1>3 DEF RxClose, TypeOK
  <2>2. Head(net) \in Frames /\ Tail(net) \in Seq(Frames)
    BY <2>1, HeadTailProperties
  <2>3. Append(sock.posted, Head(net)) \in Seq(Frames)
    BY <2>2, AppendProperties, ReceiverFields
  <2>4. sock' \in ConnectionRecord
    BY <1>3, <2>3 DEF RxClose, TypeOK, ConnectionRecord
  <2> QED BY <1>3, <2>2, <2>4 DEF RxClose, TypeOK
<1> QED BY <1>1, <1>2, <1>3 DEF ReceiverStep

\* So does the strand of its connection ...
LEMMA StrandType == ASSUME TypeOK, StrandStep PROVE TypeOK'
<1>1. CASE RunPosted
  <2> DEFINE f == Head(sock.posted)
             total == sock.bytes + Len(f.bytes)
             rest == [sock EXCEPT !.posted = Tail(@)]
  <2>1. f \in Frames /\ Tail(sock.posted) \in Seq(Frames)
    BY <1>1, HeadTailProperties, ReceiverFields DEF RunPosted
  <2>2. f.bytes \in Seq(Nat)
    BY <2>1 DEF Frames
  <2>3. total \in Int /\ (total >= WriteLimit) \in BOOLEAN
    BY <2>2, LenProperties, ReceiverFields
  <2>4. Append(sock.queue, f.bytes) \in Seq(Seq(Nat))
    BY <2>2, AppendProperties, ReceiverFields
  <2>5. rest \in ConnectionRecord
    BY <2>1 DEF TypeOK, ConnectionRecord
  <2>6. rest.queue = sock.queue /\ rest.hit = sock.hit
    BY DEF TypeOK, ConnectionRecord
  <2>7. sock' = IF f.kind = "CLOSE" THEN MaybeShutdown([rest EXCEPT !.shut = TRUE])
                ELSE IF sock.shut THEN rest
                ELSE [rest EXCEPT !.bytes = total, !.hit = @ \/ total >= WriteLimit,
                                  !.queue = Append(@, f.bytes)]
    BY <1>1 DEF RunPosted
  <2> HIDE DEF rest, total, f
  <2>8. [rest EXCEPT !.shut = TRUE] \in ConnectionRecord
    BY <2>5 DEF ConnectionRecord
  <2>9. [rest EXCEPT !.bytes = total, !.hit = @ \/ total >= WriteLimit,
                     !.queue = Append(@, f.bytes)] \in ConnectionRecord
    BY <2>3, <2>4, <2>5, <2>6 DEF ConnectionRecord
  <2>10. sock' \in ConnectionRecord
    BY <2>5, <2>7, <2>8, <2>9, ShutdownType
  <2> QED BY <1>1, <2>10 DEF RunPosted, TypeOK
<1>2. CASE WriteCompletes
  <2> DEFINE left == sock.bytes - Len(Head(sock.queue))
             done == [sock EXCEPT !.bytes = left, !.queue = Tail(@), !.out = @ \o Head(sock.queue)]
             writable == sock.hit /\ left <= WriteLimit \div 2
  <2>1. Head(sock.queue) \in Seq(Nat) /\ Tail(sock.queue) \in Seq(Seq(Nat))
    BY <1>2, HeadTailProperties, ReceiverFields DEF WriteCompletes
  <2>2. left \in Int /\ sock.out \o Head(sock.queue) \in Seq(Nat)
    BY <2>1, LenProperties, ConcatProperties, ReceiverFields
  <2>3. /\ sock' = IF writable THEN done ELSE MaybeShutdown(done)
        /\ credit' = IF writable THEN [credit EXCEPT !["strand"].pc = "take"] ELSE credit
    BY <1>2 DEF WriteCompletes
  <2> HIDE DEF left, writable
  <2>4. done \in ConnectionRecord
    BY <2>1, <2>2 DEF TypeOK, ConnectionRecord
  <2> HIDE DEF done
  <2>5. sock' \in ConnectionRecord
    BY <2>3, <2>4, ShutdownType
  <2>6. credit' \in [Creditors -> CreditRecord]
    BY <2>3, AskType DEF TypeOK, Creditors
  <2> QED BY <1>2, <2>5, <2>6 DEF WriteCompletes, TypeOK
<1> QED BY <1>1, <1>2 DEF StrandStep

\* ... and every entry of send_ack().
LEMMA CreditType == ASSUME TypeOK, NEW c \in Creditors, CreditStep(c) PROVE TypeOK'
<1>1. [credit EXCEPT ![c] = [pc |-> "idle", n |-> 0]] \in [Creditors -> CreditRecord]
  BY DEF TypeOK, CreditRecord
<1>2. credit[c].n \in Nat /\ since + credit[c].n \in Nat
  BY ReceiverFields
<1>3. CASE TakeCredit(c)
  <2>1. [credit EXCEPT ![c] = [pc |-> "send", n |-> since]] \in [Creditors -> CreditRecord]
    BY ReceiverFields DEF TypeOK, CreditRecord
  <2>2. credit' \in [Creditors -> CreditRecord]
    BY <1>1, <1>3, <2>1 DEF TakeCredit
  <2>3. sock' \in ConnectionRecord
    BY <1>3, AfterCreditType DEF TakeCredit, TypeOK
  <2> QED BY <1>3, <2>2, <2>3 DEF TakeCredit, TypeOK
<1>4. CASE CreditSent(c)
  <2>1. acks' \in Seq(Nat)
    BY <1>2, <1>4, AppendProperties DEF CreditSent, TypeOK
  <2>2. sock' \in ConnectionRecord
    BY <1>4, AfterCreditType DEF CreditSent
  <2> QED BY <1>1, <1>4, <2>1, <2>2 DEF CreditSent, CreditDone, TypeOK
<1>5. CASE CreditFull(c)
  <2>1. faults.full - 1 \in Nat
    BY <1>5 DEF CreditFull, TypeOK
  <2>2. faults' \in [full : Nat, fail : Nat, dropped : Nat]
    BY <1>5, <2>1 DEF CreditFull, TypeOK
  <2>3. sock' \in ConnectionRecord
    BY <1>5, AfterCreditType DEF CreditFull
  <2>4. since' \in Nat /\ armed' \in BOOLEAN
    BY <1>2, <1>5 DEF CreditFull
  <2> QED BY <1>1, <1>5, <2>2, <2>3, <2>4 DEF CreditFull, CreditDone, TypeOK
<1>6. CASE CreditFailed(c)
  <2>1. faults.fail - 1 \in Nat /\ faults.dropped + credit[c].n \in Nat
    BY <1>2, <1>6 DEF CreditFailed, TypeOK
  <2>2. faults' \in [full : Nat, fail : Nat, dropped : Nat]
    BY <1>6, <2>1 DEF CreditFailed, TypeOK
  <2>3. sock' \in ConnectionRecord
    BY <1>6, AfterCreditType DEF CreditFailed
  <2> QED BY <1>1, <1>6, <2>2, <2>3 DEF CreditFailed, CreditDone, TypeOK
<1> QED BY <1>3, <1>4, <1>5, <1>6 DEF CreditStep

\* Every step keeps the types.
LEMMA NextType == ASSUME TypeOK, WindowInv, [Next]_vars PROVE TypeOK'
<1>1. CASE FireAckRetry
  <2>1. credit' \in [Creditors -> CreditRecord]
    BY <1>1, AskType DEF FireAckRetry, Creditors
  <2> QED BY <1>1, <2>1 DEF FireAckRetry, TypeOK
<1>2. CASE Rest \/ UNCHANGED vars
  BY <1>2 DEF Rest, vars, TypeOK
<1> QED BY <1>1, <1>2, SourceType, DriverType, AckType, ReceiverType, StrandType, CreditType
        DEF Next

----------------------------------------------------------------------------
(* The window. *)

\* A step that leaves the counters, the FIFO, the reservations and the release
\* alone keeps the invariant.
LEMMA WindowUntouched ==
  ASSUME WindowInv, win' = win, outb'.fifo = outb.fifo,
         Reserved' = Reserved, Releasing' = Releasing
  PROVE  WindowInv'
BY DEF WindowInv, WindowAccount, UsedBound

\* An acknowledged amount is still in the window until it is released.
LEMMA ReleaseCovered ==
  ASSUME TypeOK, WindowInv
  PROVE  /\ Reserved \in Nat /\ Releasing \in Nat /\ Reserved + Releasing <= win.used
         /\ win.sent - win.acked <= win.used
<1> DEFINE source == IF tcp.pc = "append" THEN Len(tcp.chunk) ELSE 0
           flush == IF ack.pc = "append" THEN Len(ack.chunk) ELSE 0
<1>1. source \in Nat /\ flush \in Nat /\ Releasing \in Nat
  BY SenderFields DEF Releasing
<1>2. Reserved = source + flush
  BY DEF Reserved
<1> HIDE DEF source, flush
<1>3. Reserved \in Nat
  BY <1>1, <1>2
<1> DEFINE u == win.used
           a == win.acked
           s == win.sent
           e == win.emitted
           f == Len(outb.fifo)
<1>4. u \in Nat /\ a \in Nat /\ s \in Nat /\ e \in Nat /\ f \in Nat
  BY SenderFields
<1>5. u + a = s + Reserved + Releasing /\ a <= e /\ e + f = s
  BY DEF WindowInv, WindowAccount
<1> HIDE DEF u, a, s, e, f
<1>6. Reserved + Releasing <= u /\ s - a <= u
  BY <1>1, <1>3, <1>4, <1>5
<1> QED BY <1>1, <1>3, <1>6 DEF u, a, s

\* The source reserves under the window it tests, and its append turns the
\* reservation into admitted bytes.
LEMMA SourceWindow == ASSUME TypeOK, WindowInv, SourceStep PROVE WindowInv'
<1> DEFINE u == win.used
           a == win.acked
           s == win.sent
           e == win.emitted
           f == Len(outb.fifo)
           l == Len(tcp.chunk)
           mine == IF ack.pc = "append" THEN Len(ack.chunk) ELSE 0
<1>1. /\ u \in Nat /\ a \in Nat /\ s \in Nat /\ e \in Nat /\ f \in Nat
      /\ l \in Nat /\ mine \in Nat /\ Releasing \in Nat
  BY SenderFields DEF Releasing
<1>2. u + a = s + Reserved + Releasing /\ a <= e /\ e + f = s
  BY DEF WindowInv, WindowAccount
<1> HIDE DEF u, a, s, e, f, l, mine
<1>3. CASE ReadCompletes \/ ReadEof \/ CheckBacklog \/ TcpInsert \/ TcpPause \/ NextRead
             \/ PostedRead \/ SourceEof
  <2>1. tcp \in SourceRecord
    BY DEF TypeOK
  <2>2. tcp.pc # "append" /\ tcp'.pc # "append"
    <3>1. CASE PostedRead
      BY <2>1, <3>1 DEF PostedRead, SourceRecord
    <3>2. CASE ~PostedRead
      BY <1>3, <2>1, <3>2 DEF ReadCompletes, ReadEof, CheckBacklog, TcpInsert, TcpPause, NextRead,
                         SourceEof, SourceRecord
    <3> QED BY <3>1, <3>2
  <2>3. win' = win /\ ack' = ack
    BY <1>3 DEF ReadCompletes, ReadEof, CheckBacklog, TcpInsert, TcpPause, NextRead,
                PostedRead, SourceEof
  <2>4. outb'.fifo = outb.fifo
    BY <1>3 DEF ReadCompletes, ReadEof, CheckBacklog, TcpInsert, TcpPause, NextRead,
                PostedRead, SourceEof, TypeOK, OutboundRecord
  <2>5. Reserved' = Reserved /\ Releasing' = Releasing
    BY <2>2, <2>3 DEF Reserved, Releasing
  <2> QED BY <2>3, <2>4, <2>5, WindowUntouched
<1>4. CASE TcpReserve
  <2>1. tcp.pc = "reserve" /\ ack' = ack /\ outb' = outb
    BY <1>4 DEF TcpReserve
  <2>2. CASE Fits(Len(tcp.chunk))
    <3>1. tcp'.pc = "append" /\ tcp'.chunk = tcp.chunk
      BY <1>4, <2>2 DEF TcpReserve, TypeOK, SourceRecord
    <3>2. win'.used = u + l /\ win'.sent = s /\ win'.acked = a /\ win'.emitted = e
      BY <1>4, <2>2 DEF TcpReserve, TypeOK, WindowRecord, u, a, s, e, l
    <3>3. Reserved = 0 + mine /\ Reserved' = l + mine /\ Releasing' = Releasing
      BY <2>1, <3>1 DEF Reserved, Releasing, l, mine
    <3>4. (u + l) + a = s + (l + mine) + Releasing
      BY <1>1, <1>2, <3>3
    <3>5. WindowAccount'
      BY <1>2, <2>1, <3>2, <3>3, <3>4 DEF WindowAccount, f
    <3>6. win'.used <= win.size /\ win.size \in Windows
      BY <2>2, <3>2, SenderFields DEF Fits, u, l
    <3> QED BY <3>5, <3>6 DEF WindowInv, UsedBound
  <2>3. CASE ~Fits(Len(tcp.chunk))
    <3>1. tcp'.pc = "insert" /\ win' = win
      BY <1>4, <2>3 DEF TcpReserve, TypeOK, SourceRecord
    <3>2. Reserved' = Reserved /\ Releasing' = Releasing
      BY <2>1, <3>1 DEF Reserved, Releasing
    <3> QED BY <2>1, <3>1, <3>2, WindowUntouched
  <2> QED BY <2>2, <2>3
<1>5. CASE TcpAppend
  <2>1. tcp.pc = "append" /\ tcp'.pc = "loop" /\ ack' = ack
    BY <1>5 DEF TcpAppend, TypeOK, SourceRecord
  <2>2. win'.used = u /\ win'.acked = a /\ win'.emitted = e /\ win'.sent = s + l
    BY <1>5 DEF TcpAppend, TypeOK, WindowRecord, u, a, s, e, l
  <2>3. outb'.fifo = outb.fifo \o tcp.chunk
    BY <1>5 DEF TcpAppend, TypeOK, OutboundRecord
  <2>4. Len(outb'.fifo) = f + l
    BY <2>3, SenderFields, ConcatProperties DEF f, l
  <2>5. Reserved = l + mine /\ Reserved' = 0 + mine /\ Releasing' = Releasing
    BY <2>1 DEF Reserved, Releasing, l, mine
  <2>6. u + a = (s + l) + (0 + mine) + Releasing /\ e + (f + l) = s + l
    BY <1>1, <1>2, <2>5
  <2>7. WindowAccount'
    BY <1>2, <2>2, <2>4, <2>5, <2>6 DEF WindowAccount
  <2> QED BY <2>2, <2>7 DEF WindowInv, UsedBound, u
<1> QED BY <1>3, <1>4, <1>5 DEF SourceStep

\* An emitted frame moves its bytes from the FIFO to the emitted count.
LEMMA DriverWindow == ASSUME TypeOK, WindowInv, DriverStep PROVE WindowInv'
<1>1. CASE EmitData
  <2> DEFINE n == Least(FrameCap, Len(outb.fifo))
  <2>1. n \in Nat /\ n <= Len(outb.fifo)
    BY LeastType, LimitAssumption, SenderFields
  <2>2. Len(Drop(outb.fifo, n)) = Len(outb.fifo) - n
    BY <2>1, DropType, SenderFields
  <2> HIDE DEF n
  <2>3. outb'.fifo = Drop(outb.fifo, n)
    BY <1>1 DEF EmitData, TypeOK, OutboundRecord, n
  <2>4. /\ win'.used = win.used /\ win'.acked = win.acked /\ win'.sent = win.sent
        /\ win'.emitted = win.emitted + n
    BY <1>1 DEF EmitData, TypeOK, WindowRecord, n
  <2>5. Reserved' = Reserved /\ Releasing' = Releasing
    BY <1>1 DEF EmitData, Reserved, Releasing
  <2>6. WindowAccount'
    BY <2>1, <2>2, <2>3, <2>4, <2>5, SenderFields DEF WindowInv, WindowAccount
  <2> QED BY <2>4, <2>6 DEF WindowInv, UsedBound
<1>2. CASE EmitClose
  <2>1. outb'.fifo = outb.fifo
    BY <1>2 DEF EmitClose, TypeOK, OutboundRecord
  <2>2. win' = win /\ Reserved' = Reserved /\ Releasing' = Releasing
    BY <1>2 DEF EmitClose, Reserved, Releasing
  <2> QED BY <2>1, <2>2, WindowUntouched
<1> QED BY <1>1, <1>2 DEF DriverStep

\* The ACK handler moves the clamped amount from the window to the acknowledged
\* count in two steps, and its flush reserves and appends as the source does.
LEMMA AckWindow == ASSUME TypeOK, WindowInv, AckStep PROVE WindowInv'
<1> DEFINE u == win.used
           a == win.acked
           s == win.sent
           e == win.emitted
           f == Len(outb.fifo)
           l == Len(ack.chunk)
           mine == IF tcp.pc = "append" THEN Len(tcp.chunk) ELSE 0
<1>1. /\ u \in Nat /\ a \in Nat /\ s \in Nat /\ e \in Nat /\ f \in Nat
      /\ l \in Nat /\ mine \in Nat /\ Reserved \in Nat /\ ack.n \in Nat
  BY SenderFields, ReleaseCovered
<1>2. u + a = s + Reserved + Releasing /\ a <= e /\ e + f = s
  BY DEF WindowInv, WindowAccount
<1> HIDE DEF u, a, s, e, f, l, mine
<1>3. CASE RxAck
  <2> DEFINE n == Least(Head(acks), e - a)
  <2>1. Head(acks) \in Nat
    BY <1>3, HeadTailProperties DEF RxAck, TypeOK
  <2>2. e - a \in Nat
    BY <1>1, <1>2
  <2>3. n \in Nat /\ n <= e - a
    BY <2>1, <2>2, LeastType
  <2> HIDE DEF n
  <2>4. win'.used = u /\ win'.sent = s /\ win'.emitted = e /\ win'.acked = a + n
    BY <1>3 DEF RxAck, TypeOK, WindowRecord, n, u, a, s, e
  <2>5. ack.pc = "idle" /\ ack'.pc = "release" /\ ack'.n = n /\ tcp' = tcp /\ outb' = outb
    BY <1>3 DEF RxAck, TypeOK, AckRecord, n, a, e
  <2>6. Reserved' = Reserved /\ Releasing = 0 /\ Releasing' = n
    BY <2>5 DEF Reserved, Releasing
  <2>7. u + (a + n) = s + Reserved + n /\ a + n <= e
    BY <1>1, <1>2, <2>3, <2>6
  <2>8. WindowAccount'
    BY <1>2, <2>4, <2>5, <2>6, <2>7 DEF WindowAccount, f
  <2> QED BY <2>4, <2>8 DEF WindowInv, UsedBound, u
<1>4. CASE ReleaseWindow
  <2>1. ack.pc = "release" /\ ack'.pc = "flush" /\ tcp' = tcp /\ outb' = outb
    BY <1>4 DEF ReleaseWindow, TypeOK, AckRecord
  <2>2. Reserved' = Reserved /\ Releasing = ack.n /\ Releasing' = 0
    BY <2>1 DEF Reserved, Releasing
  <2>3. ack.n <= u
    BY <1>1, <2>2, ReleaseCovered DEF u
  <2>4. PICK w \in Windows :
          win' = [win EXCEPT !.used = IF @ > ack.n THEN @ - ack.n ELSE 0, !.size = w]
    BY <1>4, SenderFields DEF ReleaseWindow
  <2>5. (IF u > ack.n THEN u - ack.n ELSE 0) = u - ack.n
    BY <1>1, <2>3
  <2>6. win'.used = u - ack.n /\ win'.sent = s /\ win'.emitted = e /\ win'.acked = a
    BY <2>4, <2>5 DEF TypeOK, WindowRecord, u, a, s, e
  <2>7. (u - ack.n) + a = s + Reserved + 0
    BY <1>1, <1>2, <2>2, <2>3
  <2>8. WindowAccount'
    BY <1>2, <2>1, <2>2, <2>6, <2>7 DEF WindowAccount, f
  <2>9. UsedBound'
    <3>1. PICK v \in Windows : u <= v
      BY DEF WindowInv, UsedBound, u
    <3>2. v \in Nat
      BY WindowAssumption
    <3>3. u - ack.n <= v
      BY <1>1, <3>1, <3>2
    <3> QED BY <2>6, <3>3 DEF UsedBound
  <2> QED BY <2>8, <2>9 DEF WindowInv
<1>5. CASE FlushReserve
  <2>1. ack.pc = "reserve" /\ tcp' = tcp /\ outb' = outb
    BY <1>5 DEF FlushReserve
  <2>2. CASE Fits(Len(ack.chunk))
    <3>1. ack'.pc = "append" /\ ack'.chunk = ack.chunk
      BY <1>5, <2>2 DEF FlushReserve, TypeOK, AckRecord
    <3>2. win'.used = u + l /\ win'.sent = s /\ win'.acked = a /\ win'.emitted = e
      BY <1>5, <2>2 DEF FlushReserve, TypeOK, WindowRecord, u, a, s, e, l
    <3>3. Reserved = mine + 0 /\ Reserved' = mine + l /\ Releasing = 0 /\ Releasing' = 0
      BY <2>1, <3>1 DEF Reserved, Releasing, l, mine
    <3>4. (u + l) + a = s + (mine + l) + 0
      BY <1>1, <1>2, <3>3
    <3>5. WindowAccount'
      BY <1>2, <2>1, <3>2, <3>3, <3>4 DEF WindowAccount, f
    <3>6. win'.used <= win.size /\ win.size \in Windows
      BY <2>2, <3>2, SenderFields DEF Fits, u, l
    <3> QED BY <3>5, <3>6 DEF WindowInv, UsedBound
  <2>3. CASE ~Fits(Len(ack.chunk))
    <3>1. ack'.pc = "eof" /\ win' = win
      BY <1>5, <2>3 DEF FlushReserve, TypeOK, AckRecord
    <3>2. Reserved' = Reserved /\ Releasing' = Releasing
      BY <2>1, <3>1 DEF Reserved, Releasing
    <3> QED BY <2>1, <3>1, <3>2, WindowUntouched
  <2> QED BY <2>2, <2>3
<1>6. CASE FlushAppend
  <2>1. ack.pc = "append" /\ ack'.pc = "consume" /\ tcp' = tcp
    BY <1>6 DEF FlushAppend, TypeOK, AckRecord
  <2>2. win'.used = u /\ win'.acked = a /\ win'.emitted = e /\ win'.sent = s + l
    BY <1>6 DEF FlushAppend, TypeOK, WindowRecord, u, a, s, e, l
  <2>3. outb'.fifo = outb.fifo \o ack.chunk
    BY <1>6 DEF FlushAppend, TypeOK, OutboundRecord
  <2>4. Len(outb'.fifo) = f + l
    BY <2>3, SenderFields, ConcatProperties DEF f, l
  <2>5. Reserved = mine + l /\ Reserved' = mine + 0 /\ Releasing = 0 /\ Releasing' = 0
    BY <2>1 DEF Reserved, Releasing, l, mine
  <2>6. u + a = (s + l) + (mine + 0) + 0 /\ e + (f + l) = s + l
    BY <1>1, <1>2, <2>5
  <2>7. WindowAccount'
    BY <1>2, <2>2, <2>4, <2>5, <2>6 DEF WindowAccount
  <2> QED BY <2>2, <2>7 DEF WindowInv, UsedBound, u
<1>7. CASE FlushBacklog \/ FlushConsume \/ ResumeRead \/ FinishEof
  <2>1. ack.pc \notin {"append", "release"} /\ ack'.pc \notin {"append", "release"}
    BY <1>7 DEF FlushBacklog, FlushConsume, ResumeRead, FinishEof, TypeOK, AckRecord
  <2>2. tcp'.pc = tcp.pc /\ tcp'.chunk = tcp.chunk
    BY <1>7 DEF FlushBacklog, FlushConsume, ResumeRead, FinishEof, TypeOK, SourceRecord
  <2>3. win' = win
    BY <1>7 DEF FlushBacklog, FlushConsume, ResumeRead, FinishEof
  <2>4. outb'.fifo = outb.fifo
    BY <1>7 DEF FlushBacklog, FlushConsume, ResumeRead, FinishEof, TypeOK, OutboundRecord
  <2>5. Reserved' = Reserved /\ Releasing' = Releasing
    BY <2>1, <2>2 DEF Reserved, Releasing
  <2> QED BY <2>3, <2>4, <2>5, WindowUntouched
<1> QED BY <1>3, <1>4, <1>5, <1>6, <1>7 DEF AckStep

\* The receiver knows the window only through its ACKs.
LEMMA ReceiverWindow ==
  ASSUME WindowInv,
         \/ ReceiverStep \/ StrandStep \/ FireAckRetry
         \/ (\E c \in Creditors : CreditStep(c)) \/ Rest \/ UNCHANGED vars
  PROVE  WindowInv'
<1>1. win' = win /\ outb' = outb /\ tcp' = tcp /\ ack' = ack
  BY DEF ReceiverStep, RxData, WriteToTcp, RxClose, StrandStep, RunPosted, WriteCompletes,
         FireAckRetry, CreditStep, TakeCredit, CreditSent, CreditFull, CreditFailed, Rest, vars
<1>2. Reserved' = Reserved /\ Releasing' = Releasing
  BY <1>1 DEF Reserved, Releasing
<1> QED BY <1>1, <1>2, WindowUntouched

----------------------------------------------------------------------------
(* Types and the window together. *)

\* Types and the window together are inductive.
LEMMA FlowInductive == ASSUME TypeOK /\ WindowInv, [Next]_vars PROVE TypeOK' /\ WindowInv'
<1>1. TypeOK'
  BY NextType
<1>2. WindowInv'
  BY SourceWindow, DriverWindow, AckWindow, ReceiverWindow DEF Next
<1> QED BY <1>1, <1>2

\* Before the first read nothing is reserved, whatever the holdback has in hand.
LEMMA FlowInit == ASSUME Init PROVE TypeOK /\ WindowInv
<1>1. Numbers(1, Holdback) \in Seq(Nat) /\ Holdback \in Nat
  BY NumbersType, SourceAssumption
<1>2. tcp \in SourceRecord
  BY <1>1 DEF Init, SourceRecord
<1>3. ack \in AckRecord /\ backlog \in BacklogRecord /\ outb \in OutboundRecord
  BY EmptySeq DEF Init, AckRecord, BacklogRecord, OutboundRecord
<1>4. win \in WindowRecord
  BY DEF Init, WindowRecord
<1>5. sock \in ConnectionRecord
  BY EmptySeq DEF Init, ConnectionRecord
<1>6. credit \in [Creditors -> CreditRecord]
  BY DEF Init, CreditRecord
<1>7. net \in Seq(Frames) /\ acks \in Seq(Nat) /\ rx = NoFrame /\ since \in Nat /\ armed \in BOOLEAN
  BY EmptySeq DEF Init
<1>8. faults \in [full : Nat, fail : Nat, dropped : Nat]
  BY LimitAssumption DEF Init
<1>9. TypeOK
  BY <1>2, <1>3, <1>4, <1>5, <1>6, <1>7, <1>8 DEF TypeOK
<1>10. tcp.pc # "append" /\ ack.pc = "idle" /\ outb.fifo = <<>>
  BY DEF Init
<1>11. Reserved = 0 /\ Releasing = 0
  BY <1>10 DEF Reserved, Releasing
<1>12. win.used = 0 /\ win.sent = 0 /\ win.emitted = 0 /\ win.acked = 0
  BY DEF Init
<1>13. WindowAccount
  BY <1>10, <1>11, <1>12 DEF WindowAccount
<1>14. UsedBound
  <2>1. PICK w \in Windows : w \in Nat
    BY WindowAssumption
  <2>2. 0 <= w
    BY <2>1
  <2> QED BY <1>12, <2>2 DEF UsedBound
<1> QED BY <1>9, <1>13, <1>14 DEF WindowInv

----------------------------------------------------------------------------
(* Runs of numbered bytes. *)

\* A run from a to b has b - a bytes, a + 1 first.
LEMMA NumbersShape ==
  ASSUME NEW a \in Nat, NEW b \in Nat, a <= b
  PROVE  /\ Numbers(a + 1, b) \in Seq(Nat) /\ Len(Numbers(a + 1, b)) = b - a
         /\ \A k \in 1 .. (b - a) : Numbers(a + 1, b)[k] = a + k
<1>1. b - (a + 1) + 1 = b - a /\ b - a \in Nat
  OBVIOUS
<1>2. Numbers(a + 1, b) = [k \in 1 .. (b - a) |-> a + 1 + k - 1]
  BY <1>1 DEF Numbers
<1>3. \A k \in 1 .. (b - a) : a + 1 + k - 1 \in Nat /\ a + 1 + k - 1 = a + k
  OBVIOUS
<1> QED BY <1>1, <1>2, <1>3

LEMMA NumbersEmpty == \A a \in Nat : Numbers(a + 1, a) = <<>>
<1>1. TAKE a \in Nat
<1>2. Numbers(a + 1, a) \in Seq(Nat) /\ Len(Numbers(a + 1, a)) = 0
  BY NumbersShape
<1> QED BY <1>2, EmptySeq

\* Only an empty run is empty.
LEMMA NumbersNone ==
  ASSUME NEW a \in Nat, NEW b \in Nat, a <= b, Numbers(a + 1, b) = <<>>
  PROVE  a = b
<1>1. Len(Numbers(a + 1, b)) = b - a
  BY NumbersShape
<1> QED BY <1>1

\* A run goes on where the one before it ends.
LEMMA NumbersJoin ==
  ASSUME NEW a \in Nat, NEW b \in Nat, NEW c \in Nat, a <= b, b <= c
  PROVE  Numbers(a + 1, b) \o Numbers(b + 1, c) = Numbers(a + 1, c)
<1> DEFINE s == Numbers(a + 1, b)
           t == Numbers(b + 1, c)
           u == Numbers(a + 1, c)
<1>1. /\ s \in Seq(Nat) /\ Len(s) = b - a /\ \A k \in 1 .. (b - a) : s[k] = a + k
  BY NumbersShape
<1>2. /\ t \in Seq(Nat) /\ Len(t) = c - b /\ \A k \in 1 .. (c - b) : t[k] = b + k
  BY NumbersShape
<1>3. /\ u \in Seq(Nat) /\ Len(u) = c - a /\ \A k \in 1 .. (c - a) : u[k] = a + k
  BY NumbersShape
<1> HIDE DEF s, t, u
<1>4. /\ s \o t \in Seq(Nat) /\ Len(s \o t) = Len(u)
      /\ \A k \in 1 .. (c - a) : (s \o t)[k] = IF k <= b - a THEN s[k] ELSE t[k - (b - a)]
  <2>1. /\ s \o t \in Seq(Nat) /\ Len(s \o t) = Len(s) + Len(t)
        /\ \A k \in 1 .. (Len(s) + Len(t)) :
             (s \o t)[k] = IF k <= Len(s) THEN s[k] ELSE t[k - Len(s)]
    BY <1>1, <1>2, ConcatProperties
  <2>2. Len(s) + Len(t) = c - a
    BY <1>1, <1>2
  <2> QED BY <1>1, <1>3, <2>1, <2>2
<1>5. ASSUME NEW k \in 1 .. (c - a) PROVE (s \o t)[k] = u[k]
  <2>1. CASE k <= b - a
    <3>1. k \in 1 .. (b - a)
      BY <2>1
    <3> QED BY <2>1, <3>1, <1>1, <1>3, <1>4
  <2>2. CASE ~(k <= b - a)
    <3>1. k - (b - a) \in 1 .. (c - b) /\ b + (k - (b - a)) = a + k
      BY <2>2
    <3>2. (s \o t)[k] = t[k - (b - a)]
      BY <2>2, <1>4
    <3>3. t[k - (b - a)] = b + (k - (b - a))
      BY <3>1, <1>2
    <3> QED BY <3>1, <3>2, <3>3, <1>3
  <2> QED BY <2>1, <2>2
<1> QED BY <1>3, <1>4, <1>5, SeqEqual DEF s, t, u

\* A prefix of a run and what is left behind it are runs.
LEMMA NumbersSplit ==
  ASSUME NEW a \in Nat, NEW b \in Nat, a <= b, NEW n \in 0 .. (b - a)
  PROVE  /\ SubSeq(Numbers(a + 1, b), 1, n) = Numbers(a + 1, a + n)
         /\ Drop(Numbers(a + 1, b), n) = Numbers(a + n + 1, b)
<1> DEFINE s == Numbers(a + 1, b)
           m == a + n
<1>1. m \in Nat /\ m - a = n /\ a <= m /\ m <= b
  OBVIOUS
<1>2. /\ s \in Seq(Nat) /\ Len(s) = b - a /\ \A k \in 1 .. (b - a) : s[k] = a + k
  BY NumbersShape
<1>3. /\ Numbers(a + 1, m) \in Seq(Nat) /\ Len(Numbers(a + 1, m)) = n
      /\ \A k \in 1 .. n : Numbers(a + 1, m)[k] = a + k
  BY <1>1, NumbersShape
<1>4. /\ Numbers(m + 1, b) \in Seq(Nat) /\ Len(Numbers(m + 1, b)) = b - m
      /\ \A k \in 1 .. (b - m) : Numbers(m + 1, b)[k] = m + k
  BY <1>1, NumbersShape
<1> HIDE DEF s
<1>5. SubSeq(s, 1, n) = Numbers(a + 1, m)
  <2>1. /\ SubSeq(s, 1, n) \in Seq(Nat) /\ Len(SubSeq(s, 1, n)) = n
        /\ \A k \in 1 .. n : SubSeq(s, 1, n)[k] = s[k]
    BY <1>2
  <2>2. \A k \in 1 .. n : s[k] = a + k
    BY <1>2
  <2> QED BY <2>1, <2>2, <1>3, SeqEqual
<1>6. SubSeq(s, n + 1, Len(s)) = Numbers(m + 1, b)
  <2>0. b - m \in Nat
    BY <1>1
  <2>1. /\ SubSeq(s, n + 1, Len(s)) \in Seq(Nat) /\ Len(SubSeq(s, n + 1, Len(s))) = b - m
        /\ \A k \in 1 .. (b - m) : SubSeq(s, n + 1, Len(s))[k] = s[n + 1 + k - 1]
    BY <1>1, <1>2
  <2>2. \A k \in 1 .. (b - m) : s[n + 1 + k - 1] = m + k
    <3>1. TAKE k \in 1 .. (b - m)
    <3>2. n + 1 + k - 1 \in 1 .. (b - a)
      OBVIOUS
    <3>3. s[n + 1 + k - 1] = a + (n + 1 + k - 1)
      BY <3>2, <1>2
    <3> QED BY <3>3
  <2> DEFINE u == SubSeq(s, n + 1, Len(s))
             v == Numbers(m + 1, b)
  <2>3. u \in Seq(Nat) /\ v \in Seq(Nat) /\ Len(u) = Len(v)
    BY <2>1, <1>4
  <2>4. \A k \in 1 .. Len(u) : u[k] = v[k]
    BY <2>1, <2>2, <1>4
  <2> HIDE DEF u, v
  <2>5. u = v
    BY <2>3, <2>4, SeqEqual
  <2> QED BY <2>5 DEF u, v
<1> QED BY <1>5, <1>6 DEF s, Drop

----------------------------------------------------------------------------
(* Chunks that hold consecutive runs. *)

\* The chunks ss hold the bytes behind lo, up to hi; b[i] is where the i-th ends.
Cuts(b, ss, lo, hi) ==
  /\ b \in [0 .. Len(ss) -> lo .. hi] /\ b[0] = lo /\ b[Len(ss)] = hi
  /\ \A i, k \in 0 .. Len(ss) : i <= k => b[i] <= b[k]
  /\ \A i \in 1 .. Len(ss) : ss[i] = Numbers(b[i - 1] + 1, b[i])
Chain(ss, lo, hi) == \E b \in [0 .. Len(ss) -> lo .. hi] : Cuts(b, ss, lo, hi)

LEMMA ChainEmpty == \A n \in Nat : Chain(<<>>, n, n)
<1>1. TAKE n \in Nat
<1> DEFINE b == [i \in 0 .. 0 |-> n]
<1>2. b \in [0 .. 0 -> n .. n] /\ b[0] = n
  OBVIOUS
<1>3. Len(<<>>) = 0
  OBVIOUS
<1> HIDE DEF b
<1>4. \A i, k \in 0 .. 0 : b[i] <= b[k]
  <2>1. \A i \in 0 .. 0 : i = 0
    OBVIOUS
  <2> QED BY <1>2, <2>1
<1>5. Cuts(b, <<>>, n, n)
  BY <1>2, <1>3, <1>4 DEF Cuts
<1> QED BY <1>2, <1>3, <1>5 DEF Chain

LEMMA ChainBounds ==
  ASSUME NEW lo \in Nat, NEW hi \in Nat, NEW ss \in Seq(Seq(Nat)), Chain(ss, lo, hi)
  PROVE  lo <= hi /\ (ss = <<>> => lo = hi)
<1>1. PICK b \in [0 .. Len(ss) -> lo .. hi] : Cuts(b, ss, lo, hi)
  BY DEF Chain
<1>2. Len(ss) \in Nat /\ 0 \in 0 .. Len(ss) /\ b[0] \in lo .. hi /\ b[0] = lo /\ b[Len(ss)] = hi
  BY <1>1, LenProperties DEF Cuts
<1> QED BY <1>2

\* One run behind a chain goes on with it.
LEMMA ChainAppend ==
  ASSUME NEW lo \in Nat, NEW m \in Nat, NEW hi \in Nat, NEW ss \in Seq(Seq(Nat)),
         Chain(ss, lo, m), m <= hi
  PROVE  Chain(Append(ss, Numbers(m + 1, hi)), lo, hi)
<1>1. PICK b \in [0 .. Len(ss) -> lo .. m] : Cuts(b, ss, lo, m)
  BY DEF Chain
<1> DEFINE n == Len(ss)
           x == Numbers(m + 1, hi)
           tt == Append(ss, x)
           c == [i \in 0 .. (n + 1) |-> IF i <= n THEN b[i] ELSE hi]
<1>2. n \in Nat
  BY LenProperties
<1>3. x \in Seq(Nat)
  BY NumbersShape
<1>4. Len(tt) = n + 1 /\ (\A i \in 1 .. n : tt[i] = ss[i]) /\ tt[n + 1] = x
  BY <1>2, <1>3
<1>5. lo <= m
  BY <1>1, ChainBounds
<1>6. \A i \in 0 .. n : b[i] \in lo .. m
  BY <1>1
<1>7. c \in [0 .. (n + 1) -> lo .. hi]
  BY <1>2, <1>5, <1>6
<1>8. (\A i \in 0 .. n : c[i] = b[i]) /\ c[n + 1] = hi
  BY <1>2
<1>9. /\ b[0] = lo /\ b[n] = m /\ \A i, k \in 0 .. n : i <= k => b[i] <= b[k]
      /\ \A i \in 1 .. n : ss[i] = Numbers(b[i - 1] + 1, b[i])
  BY <1>1 DEF Cuts
<1> HIDE DEF n, x, tt, c
<1>10. c[0] = lo
  BY <1>2, <1>8, <1>9
<1>11. \A i, k \in 0 .. (n + 1) : i <= k => c[i] <= c[k]
  <2>1. TAKE i, k \in 0 .. (n + 1)
  <2>2. HAVE i <= k
  <2>3. CASE k <= n
    <3>1. i \in 0 .. n /\ k \in 0 .. n
      BY <2>2, <2>3, <1>2
    <3> QED BY <3>1, <2>2, <1>8, <1>9
  <2>4. CASE k = n + 1
    <3>1. c[i] \in lo .. hi /\ c[k] = hi
      BY <1>7, <1>8, <2>4
    <3> QED BY <3>1
  <2> QED BY <2>3, <2>4, <1>2
<1>12. \A i \in 1 .. (n + 1) : tt[i] = Numbers(c[i - 1] + 1, c[i])
  <2>1. TAKE i \in 1 .. (n + 1)
  <2>2. CASE i <= n
    <3>1. i \in 1 .. n /\ i - 1 \in 0 .. n /\ i \in 0 .. n
      BY <2>2, <1>2
    <3> QED BY <3>1, <1>4, <1>8, <1>9
  <2>3. CASE i = n + 1
    <3>1. i - 1 = n /\ n \in 0 .. n
      BY <2>3, <1>2
    <3> QED BY <3>1, <2>3, <1>4, <1>8, <1>9 DEF x
  <2> QED BY <2>2, <2>3, <1>2
<1>13. Cuts(c, tt, lo, hi)
  BY <1>4, <1>7, <1>8, <1>10, <1>11, <1>12 DEF Cuts
<1>14. c \in [0 .. Len(tt) -> lo .. hi]
  BY <1>4, <1>7
<1>15. Chain(tt, lo, hi)
  BY <1>13, <1>14 DEF Chain
<1> QED BY <1>15 DEF tt, x

\* The first chunk of a chain is a run, and the others go on behind it.
LEMMA ChainTail ==
  ASSUME NEW lo \in Nat, NEW hi \in Nat, NEW ss \in Seq(Seq(Nat)), ss # <<>>, Chain(ss, lo, hi)
  PROVE  \E m \in lo .. hi : Head(ss) = Numbers(lo + 1, m) /\ Chain(Tail(ss), m, hi)
<1>1. PICK b \in [0 .. Len(ss) -> lo .. hi] : Cuts(b, ss, lo, hi)
  BY DEF Chain
<1> DEFINE n == Len(ss) - 1
           tt == Tail(ss)
           c == [i \in 0 .. n |-> b[i + 1]]
<1>2. n \in Nat /\ Len(ss) = n + 1
  BY EmptySeq, LenProperties
<1>3. Len(tt) = n /\ (\A i \in 1 .. n : tt[i] = ss[i + 1]) /\ Head(ss) = ss[1]
  BY <1>2, HeadTailProperties
<1>4. /\ b \in [0 .. (n + 1) -> lo .. hi]
      /\ b[0] = lo /\ b[n + 1] = hi /\ \A i, k \in 0 .. (n + 1) : i <= k => b[i] <= b[k]
      /\ \A i \in 1 .. (n + 1) : ss[i] = Numbers(b[i - 1] + 1, b[i])
  BY <1>1, <1>2 DEF Cuts
<1>5. \A i \in 0 .. n : c[i] = b[i + 1] /\ i + 1 \in 0 .. (n + 1)
  BY <1>2
<1>6. DOMAIN c = 0 .. n /\ c = [i \in 0 .. n |-> c[i]]
  OBVIOUS
<1> HIDE DEF n, tt, c
<1>7. b[1] \in lo .. hi /\ c[0] = b[1] /\ c[n] = hi
  <2>1. 1 \in 0 .. (n + 1) /\ 0 \in 0 .. n /\ n \in 0 .. n /\ 0 + 1 = 1
    BY <1>2
  <2>2. c[0] = b[0 + 1] /\ c[n] = b[n + 1]
    BY <2>1, <1>5
  <2> QED BY <2>1, <2>2, <1>4
<1>8. Head(ss) = Numbers(lo + 1, b[1])
  <2>1. 1 \in 1 .. (n + 1) /\ 1 - 1 = 0
    BY <1>2
  <2> QED BY <2>1, <1>3, <1>4
<1>9. \A i \in 0 .. n : c[i] \in b[1] .. hi
  <2>1. TAKE i \in 0 .. n
  <2>2. 1 \in 0 .. (n + 1) /\ i + 1 \in 0 .. (n + 1) /\ 1 <= i + 1
    BY <1>2
  <2>3. b[1] <= b[i + 1] /\ b[i + 1] \in lo .. hi
    BY <2>2, <1>4
  <2> QED BY <2>3, <1>5, <1>7
<1>10. c \in [0 .. n -> b[1] .. hi]
  BY <1>6, <1>9
<1>11. \A i, k \in 0 .. n : i <= k => c[i] <= c[k]
  <2>1. TAKE i, k \in 0 .. n
  <2>2. HAVE i <= k
  <2>3. i + 1 \in 0 .. (n + 1) /\ k + 1 \in 0 .. (n + 1) /\ i + 1 <= k + 1
    BY <1>2, <2>2
  <2>4. b[i + 1] <= b[k + 1]
    BY <2>3, <1>4
  <2> QED BY <2>4, <1>5
<1>12. \A i \in 1 .. n : tt[i] = Numbers(c[i - 1] + 1, c[i])
  <2>1. TAKE i \in 1 .. n
  <2>2. i + 1 \in 1 .. (n + 1) /\ (i + 1) - 1 = i /\ i - 1 \in 0 .. n /\ i \in 0 .. n /\ (i - 1) + 1 = i
    BY <1>2
  <2>3. c[i - 1] = b[i] /\ c[i] = b[i + 1]
    <3>1. c[i - 1] = b[(i - 1) + 1]
      BY <2>2, <1>5
    <3> QED BY <3>1, <2>2, <1>5
  <2>4. ss[i + 1] = Numbers(b[(i + 1) - 1] + 1, b[i + 1])
    BY <2>2, <1>4
  <2> QED BY <2>2, <2>3, <2>4, <1>3
<1>13. Cuts(c, tt, b[1], hi)
  BY <1>3, <1>7, <1>10, <1>11, <1>12 DEF Cuts
<1>14. Chain(tt, b[1], hi)
  BY <1>3, <1>10, <1>13 DEF Chain
<1> QED BY <1>7, <1>8, <1>14 DEF tt

\* A chain goes on with the chain that starts where it ends.
LEMMA ChainConcat ==
  ASSUME NEW lo \in Nat, NEW m \in Nat, NEW hi \in Nat,
         NEW ss \in Seq(Seq(Nat)), NEW tt \in Seq(Seq(Nat)), Chain(ss, lo, m), Chain(tt, m, hi)
  PROVE  ss \o tt \in Seq(Seq(Nat)) /\ Chain(ss \o tt, lo, hi)
<1>1. PICK b \in [0 .. Len(ss) -> lo .. m] : Cuts(b, ss, lo, m)
  BY DEF Chain
<1>2. PICK d \in [0 .. Len(tt) -> m .. hi] : Cuts(d, tt, m, hi)
  BY DEF Chain
<1> DEFINE n == Len(ss)
           l == Len(tt)
           uu == ss \o tt
           c == [i \in 0 .. (n + l) |-> IF i <= n THEN b[i] ELSE d[i - n]]
<1>3. n \in Nat /\ l \in Nat /\ lo <= m /\ m <= hi
  BY LenProperties, ChainBounds
<1>4. /\ b \in [0 .. n -> lo .. m]
      /\ b[0] = lo /\ b[n] = m /\ \A i, k \in 0 .. n : i <= k => b[i] <= b[k]
      /\ \A i \in 1 .. n : ss[i] = Numbers(b[i - 1] + 1, b[i])
  BY <1>1 DEF Cuts
<1>5. /\ d \in [0 .. l -> m .. hi]
      /\ d[0] = m /\ d[l] = hi /\ \A i, k \in 0 .. l : i <= k => d[i] <= d[k]
      /\ \A i \in 1 .. l : tt[i] = Numbers(d[i - 1] + 1, d[i])
  BY <1>2 DEF Cuts
<1>6. uu \in Seq(Seq(Nat)) /\ Len(uu) = n + l
  BY ConcatProperties
<1>7. (\A i \in 1 .. n : uu[i] = ss[i]) /\ (\A i \in 1 .. l : uu[n + i] = tt[i])
  <2>1. \A i \in 1 .. (n + l) : uu[i] = IF i <= n THEN ss[i] ELSE tt[i - n]
    BY ConcatProperties
  <2> HIDE DEF uu, n, l
  <2>2. \A i \in 1 .. n : uu[i] = ss[i]
    BY <2>1, <1>3
  <2>3. ASSUME NEW i \in 1 .. l PROVE uu[n + i] = tt[i]
    <3>1. n + i \in 1 .. (n + l) /\ ~(n + i <= n) /\ (n + i) - n = i
      BY <1>3
    <3> QED BY <3>1, <2>1
  <2> QED BY <2>2, <2>3
<1>8. /\ DOMAIN c = 0 .. (n + l) /\ c = [i \in 0 .. (n + l) |-> c[i]]
      /\ \A i \in 0 .. n : c[i] = b[i]
  BY <1>3
<1>9. \A i \in 0 .. l : c[n + i] = d[i]
  <2>1. TAKE i \in 0 .. l
  <2>2. n + i \in 0 .. (n + l) /\ (n + i) - n = i /\ n \in 0 .. n
    BY <1>3
  <2>3. c[n + i] = IF n + i <= n THEN b[n + i] ELSE d[(n + i) - n]
    BY <2>2
  <2> HIDE DEF c, n, l
  <2>4. CASE i = 0
    <3>1. n + i = n
      BY <2>4, <1>3
    <3> QED BY <3>1, <2>2, <2>4, <1>4, <1>5, <1>8
  <2>5. CASE i # 0
    <3>1. ~(n + i <= n)
      BY <2>5, <1>3
    <3> QED BY <3>1, <2>2, <2>3
  <2> QED BY <2>4, <2>5
<1> HIDE DEF n, l, uu, c
<1>10. \A i \in 0 .. n : c[i] \in lo .. m
  BY <1>4, <1>8
<1>11. \A i \in 0 .. l : c[n + i] \in m .. hi
  BY <1>5, <1>9
<1>12. \A i \in 0 .. (n + l) : i <= n \/ (i > n /\ i - n \in 1 .. l /\ n + (i - n) = i)
  BY <1>3
<1>13. \A i \in 0 .. (n + l) : i > n => i - n \in 0 .. l /\ c[i] = d[i - n] /\ c[i] \in m .. hi
  <2>1. TAKE i \in 0 .. (n + l)
  <2>2. HAVE i > n
  <2>3. i - n \in 0 .. l /\ n + (i - n) = i
    BY <2>2, <1>3
  <2>4. c[n + (i - n)] = d[i - n] /\ c[n + (i - n)] \in m .. hi
    BY <2>3, <1>9, <1>11
  <2> QED BY <2>3, <2>4
<1>14. \A i \in 0 .. (n + l) : c[i] \in lo .. hi
  <2>1. TAKE i \in 0 .. (n + l)
  <2>2. CASE i <= n
    <3>1. i \in 0 .. n
      BY <2>2, <1>3
    <3>2. c[i] \in lo .. m
      BY <3>1, <1>10
    <3> QED BY <3>2, <1>3
  <2>3. CASE i > n
    <3>1. c[i] \in m .. hi
      BY <2>3, <1>13
    <3> QED BY <3>1, <1>3
  <2> QED BY <2>2, <2>3, <1>3
<1>15. c \in [0 .. (n + l) -> lo .. hi]
  BY <1>8, <1>14
<1>16. c[0] = lo /\ c[n + l] = hi
  <2>1. 0 \in 0 .. n /\ l \in 0 .. l
    BY <1>3
  <2> QED BY <2>1, <1>4, <1>5, <1>8, <1>9
<1>17. \A i, k \in 0 .. (n + l) : i <= k => c[i] <= c[k]
  <2>1. TAKE i, k \in 0 .. (n + l)
  <2>2. HAVE i <= k
  <2>3. CASE k <= n
    <3>1. i \in 0 .. n /\ k \in 0 .. n
      BY <2>2, <2>3, <1>3
    <3>2. b[i] <= b[k]
      BY <3>1, <2>2, <1>4
    <3> QED BY <3>1, <3>2, <1>8
  <2>4. CASE i <= n /\ k > n
    <3>1. i \in 0 .. n
      BY <2>4, <1>3
    <3>2. c[i] \in lo .. m /\ c[k] \in m .. hi
      BY <2>4, <3>1, <1>10, <1>13
    <3> QED BY <3>2, <1>3
  <2>5. CASE i > n
    <3>1. k > n /\ i - n <= k - n
      BY <2>2, <2>5, <1>3
    <3>2. i - n \in 0 .. l /\ k - n \in 0 .. l /\ c[i] = d[i - n] /\ c[k] = d[k - n]
      BY <2>5, <3>1, <1>13
    <3>3. d[i - n] <= d[k - n]
      BY <3>1, <3>2, <1>5
    <3> QED BY <3>2, <3>3
  <2> QED BY <2>3, <2>4, <2>5, <1>3
<1>18. \A i \in 1 .. (n + l) : uu[i] = Numbers(c[i - 1] + 1, c[i])
  <2>1. TAKE i \in 1 .. (n + l)
  <2>2. CASE i <= n
    <3>1. i \in 1 .. n /\ i \in 0 .. n /\ i - 1 \in 0 .. n
      BY <2>2, <1>3
    <3> QED BY <3>1, <1>4, <1>7, <1>8
  <2>3. CASE i > n
    <3> DEFINE j == i - n
    <3>1. j \in 1 .. l /\ j \in 0 .. l /\ j - 1 \in 0 .. l /\ n + j = i /\ n + (j - 1) = i - 1
      BY <2>3, <1>3
    <3> HIDE DEF j
    <3>2. uu[n + j] = tt[j] /\ c[n + j] = d[j] /\ c[n + (j - 1)] = d[j - 1]
      BY <3>1, <1>7, <1>9
    <3>3. tt[j] = Numbers(d[j - 1] + 1, d[j])
      BY <3>1, <1>5
    <3> QED BY <3>1, <3>2, <3>3
  <2> QED BY <2>2, <2>3, <1>3
<1>19. Cuts(c, uu, lo, hi)
  BY <1>6, <1>15, <1>16, <1>17, <1>18 DEF Cuts
<1>20. Chain(uu, lo, hi)
  BY <1>6, <1>15, <1>19 DEF Chain
<1> QED BY <1>6, <1>20 DEF uu

\* A single run is a chain.
LEMMA ChainOne ==
  ASSUME NEW lo \in Nat, NEW hi \in Nat, lo <= hi
  PROVE  /\ <<Numbers(lo + 1, hi)>> \in Seq(Seq(Nat))
         /\ Chain(<<Numbers(lo + 1, hi)>>, lo, hi)
<1>1. Numbers(lo + 1, hi) \in Seq(Nat)
  BY NumbersShape
<1>2. <<>> \in Seq(Seq(Nat)) /\ Chain(<<>>, lo, lo)
  BY ChainEmpty
<1>3. Chain(Append(<<>>, Numbers(lo + 1, hi)), lo, hi)
  BY <1>2, ChainAppend
<1>4. Append(<<>>, Numbers(lo + 1, hi)) = <<Numbers(lo + 1, hi)>>
  BY <1>1
<1> QED BY <1>1, <1>3, <1>4

\* The least number of a set.
LEMMA LeastOf == ASSUME NEW T \in SUBSET Nat, T # {} PROVE \E x \in T : \A y \in T : x <= y
<1>1. PICK x \in T : \A y \in T : ~ (<<y, x>> \in OpToRel(<, Nat))
  BY NatLessThanWellFounded, WFMin
<1>2. \A y \in T : ~ (y < x)
  BY <1>1 DEF OpToRel
<1> QED BY <1>2

\* A chain from 0 holds every byte once, and in order.
LEMMA ChainInOrder ==
  ASSUME NEW n \in Nat, NEW ss \in Seq(Seq(Nat)), Chain(ss, 0, n)
  PROVE  InOrder(ss, n)
<1>1. PICK b \in [0 .. Len(ss) -> 0 .. n] : Cuts(b, ss, 0, n)
  BY DEF Chain
<1> DEFINE l == Len(ss)
<1>2. l \in Nat
  BY LenProperties
<1>3. /\ b \in [0 .. l -> 0 .. n] /\ b[0] = 0 /\ b[l] = n
      /\ \A i, k \in 0 .. l : i <= k => b[i] <= b[k]
      /\ \A i \in 1 .. l : ss[i] = Numbers(b[i - 1] + 1, b[i])
  BY <1>1 DEF Cuts
<1> HIDE DEF l
<1>4. ASSUME NEW i \in 1 .. l
      PROVE  /\ b[i - 1] \in 0 .. n /\ b[i] \in 0 .. n /\ b[i - 1] <= b[i]
             /\ Len(ss[i]) = b[i] - b[i - 1]
             /\ \A j \in 1 .. Len(ss[i]) : ss[i][j] = b[i - 1] + j
  <2>1. i \in 0 .. l /\ i - 1 \in 0 .. l /\ i - 1 <= i
    BY <1>2
  <2>2. b[i - 1] \in 0 .. n /\ b[i] \in 0 .. n /\ b[i - 1] <= b[i]
    BY <2>1, <1>3
  <2> DEFINE lo == b[i - 1]
             hi == b[i]
  <2>3. lo \in Nat /\ hi \in Nat /\ lo <= hi /\ ss[i] = Numbers(lo + 1, hi)
    BY <2>2, <1>3
  <2> HIDE DEF lo, hi
  <2>4. Len(ss[i]) = hi - lo /\ \A j \in 1 .. (hi - lo) : ss[i][j] = lo + j
    BY <2>3, NumbersShape
  <2> QED BY <2>2, <2>4 DEF lo, hi
<1>5. ASSUME NEW x \in 1 .. n
      PROVE  \E i \in 1 .. l : \E j \in 1 .. Len(ss[i]) : ss[i][j] = x
  <2> DEFINE T == {i \in 0 .. l : x <= b[i]}
  <2>1. T \in SUBSET Nat /\ l \in T
    BY <1>2, <1>3
  <2>2. PICK i \in T : \A y \in T : i <= y
    BY <2>1, LeastOf
  <2>3. i \in 0 .. l /\ x <= b[i] /\ i # 0
    BY <2>2, <1>3
  <2>4. i \in 1 .. l /\ i - 1 \in 0 .. l /\ ~(i <= i - 1)
    BY <2>3, <1>2
  <2>5. ~(x <= b[i - 1])
    BY <2>2, <2>4
  <2> HIDE DEF T
  <2>6. /\ b[i - 1] \in 0 .. n /\ b[i] \in 0 .. n /\ Len(ss[i]) = b[i] - b[i - 1]
        /\ \A j \in 1 .. Len(ss[i]) : ss[i][j] = b[i - 1] + j
    BY <1>4, <2>4
  <2> DEFINE lo == b[i - 1]
             hi == b[i]
  <2>7. lo \in 0 .. n /\ hi \in 0 .. n /\ ~(x <= lo) /\ x <= hi
    BY <2>3, <2>5, <2>6
  <2> HIDE DEF lo, hi
  <2>8. x - lo \in 1 .. (hi - lo) /\ lo + (x - lo) = x
    BY <2>7
  <2>9. x - lo \in 1 .. Len(ss[i]) /\ ss[i][x - lo] = x
    BY <2>6, <2>8 DEF lo, hi
  <2> QED BY <2>4, <2>9
<1>6. ASSUME NEW i \in 1 .. l, NEW k \in 1 .. l,
             NEW j \in 1 .. Len(ss[i]), NEW m \in 1 .. Len(ss[k])
      PROVE  /\ ss[i][j] \in 1 .. n
             /\ i < k \/ (i = k /\ j < m) => ss[i][j] < ss[k][m]
  <2> DEFINE a == b[i - 1]
             c == b[i]
             d == b[k - 1]
             e == b[k]
  <2>1. /\ a \in 0 .. n /\ c \in 0 .. n /\ a <= c /\ Len(ss[i]) = c - a
        /\ ss[i][j] = a + j
    BY <1>4
  <2>2. /\ d \in 0 .. n /\ e \in 0 .. n /\ d <= e /\ Len(ss[k]) = e - d
        /\ ss[k][m] = d + m
    BY <1>4
  <2>3. i < k => c <= d
    <3>1. HAVE i < k
    <3>2. i \in 0 .. l /\ k - 1 \in 0 .. l /\ i <= k - 1
      BY <3>1, <1>2
    <3> QED BY <3>2, <1>3
  <2>4. i = k => a = d
    OBVIOUS
  <2> HIDE DEF a, c, d, e
  <2>5. j \in 1 .. (c - a) /\ m \in 1 .. (e - d)
    BY <2>1, <2>2
  <2>6. a + j \in 1 .. n
    BY <2>1, <2>5
  <2>7. i < k => a + j < d + m
    BY <2>1, <2>2, <2>3, <2>5
  <2>8. i = k /\ j < m => a + j < d + m
    BY <2>1, <2>2, <2>4, <2>5
  <2> QED BY <2>1, <2>2, <2>6, <2>7, <2>8
<1> QED BY <1>5, <1>6 DEF InOrder, l

----------------------------------------------------------------------------
(* Payloads and sizes of the frames of a queue. *)

LEMMA FramesType ==
  ASSUME NEW fs \in Seq(Frames)
  PROVE  /\ Payloads(fs) \in Seq(Seq(Nat)) /\ Len(Payloads(fs)) = Len(fs)
         /\ Sizes(fs) \in Seq(Nat) /\ Len(Sizes(fs)) = Len(fs)
         /\ \A i \in 1 .. Len(fs) : Payloads(fs)[i] = fs[i].bytes /\ Sizes(fs)[i] = Len(fs[i].bytes)
<1>1. Len(fs) \in Nat /\ \A i \in 1 .. Len(fs) : fs[i] \in Frames
  BY LenProperties, ElementOfSeq
<1>2. \A i \in 1 .. Len(fs) : fs[i].bytes \in Seq(Nat) /\ Len(fs[i].bytes) \in Nat
  BY <1>1 DEF Frames
<1> QED BY <1>1, <1>2 DEF Payloads, Sizes

LEMMA FramesAppend ==
  ASSUME NEW fs \in Seq(Frames), NEW f \in Frames
  PROVE  /\ Payloads(Append(fs, f)) = Append(Payloads(fs), f.bytes)
         /\ Sizes(Append(fs, f)) = Append(Sizes(fs), Len(f.bytes))
<1> DEFINE gs == Append(fs, f)
           n == Len(fs)
<1>1. f.bytes \in Seq(Nat) /\ Len(f.bytes) \in Nat /\ n \in Nat
  BY LenProperties DEF Frames
<1>2. /\ gs \in Seq(Frames) /\ Len(gs) = n + 1 /\ (\A i \in 1 .. n : gs[i] = fs[i])
      /\ gs[n + 1] = f
  BY AppendProperties
<1> HIDE DEF gs
<1>3. /\ Payloads(fs) \in Seq(Seq(Nat)) /\ Len(Payloads(fs)) = n
      /\ Sizes(fs) \in Seq(Nat) /\ Len(Sizes(fs)) = n
      /\ \A i \in 1 .. n : Payloads(fs)[i] = fs[i].bytes /\ Sizes(fs)[i] = Len(fs[i].bytes)
  BY FramesType
<1>4. /\ Payloads(gs) \in Seq(Seq(Nat)) /\ Len(Payloads(gs)) = n + 1
      /\ Sizes(gs) \in Seq(Nat) /\ Len(Sizes(gs)) = n + 1
      /\ \A i \in 1 .. (n + 1) : Payloads(gs)[i] = gs[i].bytes /\ Sizes(gs)[i] = Len(gs[i].bytes)
  BY <1>2, FramesType
<1> HIDE DEF n
<1>5. \A i \in 1 .. (n + 1) : i \in 1 .. n \/ i = n + 1
  BY <1>1
<1>6. Payloads(gs) = Append(Payloads(fs), f.bytes)
  <2> DEFINE u == Append(Payloads(fs), f.bytes)
             v == Payloads(gs)
  <2>1. /\ u \in Seq(Seq(Nat)) /\ Len(u) = n + 1 /\ u[n + 1] = f.bytes
        /\ \A i \in 1 .. n : u[i] = Payloads(fs)[i]
    BY <1>1, <1>3, AppendProperties
  <2>2. v \in Seq(Seq(Nat)) /\ Len(v) = n + 1 /\ \A i \in 1 .. (n + 1) : v[i] = gs[i].bytes
    BY <1>4
  <2> HIDE DEF u, v
  <2>3. ASSUME NEW i \in 1 .. (n + 1) PROVE v[i] = u[i]
    <3>1. CASE i \in 1 .. n
      BY <3>1, <1>2, <1>3, <2>1, <2>2
    <3>2. CASE i = n + 1
      BY <3>2, <1>2, <2>1, <2>2
    <3> QED BY <3>1, <3>2, <1>5
  <2>4. v = u
    BY <2>1, <2>2, <2>3, SeqEqual
  <2> QED BY <2>4 DEF u, v
<1>7. Sizes(gs) = Append(Sizes(fs), Len(f.bytes))
  <2> DEFINE u == Append(Sizes(fs), Len(f.bytes))
             v == Sizes(gs)
  <2>1. /\ u \in Seq(Nat) /\ Len(u) = n + 1 /\ u[n + 1] = Len(f.bytes)
        /\ \A i \in 1 .. n : u[i] = Sizes(fs)[i]
    BY <1>1, <1>3, AppendProperties
  <2>2. v \in Seq(Nat) /\ Len(v) = n + 1 /\ \A i \in 1 .. (n + 1) : v[i] = Len(gs[i].bytes)
    BY <1>4
  <2> HIDE DEF u, v
  <2>3. ASSUME NEW i \in 1 .. (n + 1) PROVE v[i] = u[i]
    <3>1. CASE i \in 1 .. n
      BY <3>1, <1>2, <1>3, <2>1, <2>2
    <3>2. CASE i = n + 1
      BY <3>2, <1>2, <2>1, <2>2
    <3> QED BY <3>1, <3>2, <1>5
  <2>4. v = u
    BY <2>1, <2>2, <2>3, SeqEqual
  <2> QED BY <2>4 DEF u, v
<1> QED BY <1>6, <1>7 DEF gs

LEMMA FramesTail ==
  ASSUME NEW fs \in Seq(Frames), fs # <<>>
  PROVE  /\ Head(fs) \in Frames /\ Tail(fs) \in Seq(Frames)
         /\ Payloads(Tail(fs)) = Tail(Payloads(fs)) /\ Head(Payloads(fs)) = Head(fs).bytes
         /\ Sizes(Tail(fs)) = Tail(Sizes(fs)) /\ Head(Sizes(fs)) = Len(Head(fs).bytes)
         /\ Payloads(fs) # <<>> /\ Sizes(fs) # <<>>
<1> DEFINE gs == Tail(fs)
           n == Len(fs) - 1
<1>1. n \in Nat /\ Len(fs) = n + 1
  BY LenProperties, EmptySeq
<1>2. /\ Head(fs) \in Frames /\ Head(fs) = fs[1] /\ gs \in Seq(Frames) /\ Len(gs) = n
      /\ \A i \in 1 .. n : gs[i] = fs[i + 1]
  BY HeadTailProperties
<1> HIDE DEF gs, n
<1>3. /\ Payloads(fs) \in Seq(Seq(Nat)) /\ Len(Payloads(fs)) = n + 1
      /\ Sizes(fs) \in Seq(Nat) /\ Len(Sizes(fs)) = n + 1
      /\ \A i \in 1 .. (n + 1) : Payloads(fs)[i] = fs[i].bytes /\ Sizes(fs)[i] = Len(fs[i].bytes)
  BY <1>1, FramesType
<1>4. /\ Payloads(gs) \in Seq(Seq(Nat)) /\ Len(Payloads(gs)) = n
      /\ Sizes(gs) \in Seq(Nat) /\ Len(Sizes(gs)) = n
      /\ \A i \in 1 .. n : Payloads(gs)[i] = gs[i].bytes /\ Sizes(gs)[i] = Len(gs[i].bytes)
  BY <1>2, FramesType
<1>5. Payloads(fs) # <<>> /\ Sizes(fs) # <<>>
  BY <1>1, <1>3
<1>6. \A i \in 1 .. n : i + 1 \in 1 .. (n + 1)
  BY <1>1
<1>7. 1 \in 1 .. (n + 1)
  BY <1>1
<1>8. Head(Payloads(fs)) = Head(fs).bytes /\ Head(Sizes(fs)) = Len(Head(fs).bytes)
  BY <1>2, <1>3, <1>5, <1>7, HeadTailProperties
<1>9. gs \in Seq(Frames) /\ Payloads(gs) = Tail(Payloads(fs))
  <2> DEFINE p == Payloads(fs)
             u == Tail(p)
             v == Payloads(gs)
  <2>1. p \in Seq(Seq(Nat)) /\ Len(p) = n + 1 /\ p # <<>>
    BY <1>3, <1>5
  <2> HIDE DEF p
  <2>2. u \in Seq(Seq(Nat)) /\ Len(u) = n /\ \A i \in 1 .. n : u[i] = p[i + 1]
    BY <2>1, <1>1, HeadTailProperties
  <2>3. v \in Seq(Seq(Nat)) /\ Len(v) = n /\ \A i \in 1 .. n : v[i] = gs[i].bytes
    BY <1>4
  <2>4. \A i \in 1 .. n : p[i + 1] = fs[i + 1].bytes
    BY <1>3, <1>6 DEF p
  <2> HIDE DEF u, v
  <2>5. \A i \in 1 .. n : v[i] = u[i]
    BY <1>2, <2>2, <2>3, <2>4
  <2>6. v = u
    BY <2>2, <2>3, <2>5, SeqEqual
  <2> QED BY <1>2, <2>6 DEF u, v, p
<1>10. Sizes(gs) = Tail(Sizes(fs))
  <2> DEFINE p == Sizes(fs)
             u == Tail(p)
             v == Sizes(gs)
  <2>1. p \in Seq(Nat) /\ Len(p) = n + 1 /\ p # <<>>
    BY <1>3, <1>5
  <2> HIDE DEF p
  <2>2. u \in Seq(Nat) /\ Len(u) = n /\ \A i \in 1 .. n : u[i] = p[i + 1]
    BY <2>1, <1>1, HeadTailProperties
  <2>3. v \in Seq(Nat) /\ Len(v) = n /\ \A i \in 1 .. n : v[i] = Len(gs[i].bytes)
    BY <1>4
  <2>4. \A i \in 1 .. n : p[i + 1] = Len(fs[i + 1].bytes)
    BY <1>3, <1>6 DEF p
  <2> HIDE DEF u, v
  <2>5. \A i \in 1 .. n : v[i] = u[i]
    BY <1>2, <2>2, <2>3, <2>4
  <2>6. v = u
    BY <2>2, <2>3, <2>5, SeqEqual
  <2> QED BY <2>6 DEF u, v, p
<1> QED BY <1>2, <1>5, <1>8, <1>9, <1>10 DEF gs

----------------------------------------------------------------------------
(* The amount of a sequence of numbers. *)

Units(s) == UNION {{i} \X (1 .. s[i]) : i \in 1 .. Len(s)}

LEMMA UnitIn ==
  ASSUME NEW s \in Seq(Nat)
  PROVE  \A u : u \in Units(s) <=> \E i \in 1 .. Len(s) : \E j \in 1 .. s[i] : u = <<i, j>>
<1>1. TAKE u
<1>2. ASSUME u \in Units(s) PROVE \E i \in 1 .. Len(s) : \E j \in 1 .. s[i] : u = <<i, j>>
  <2>1. PICK i \in 1 .. Len(s) : u \in {i} \X (1 .. s[i])
    BY <1>2 DEF Units
  <2> QED BY <2>1
<1>3. ASSUME NEW i \in 1 .. Len(s), NEW j \in 1 .. s[i], u = <<i, j>> PROVE u \in Units(s)
  <2>1. u \in {i} \X (1 .. s[i])
    BY <1>3
  <2> QED BY <2>1 DEF Units
<1> QED BY <1>2, <1>3

LEMMA AmountType ==
  ASSUME NEW s \in Seq(Nat)
  PROVE  IsFiniteSet(Units(s)) /\ Amount(s) \in Nat /\ Amount(s) = Cardinality(Units(s))
<1> DEFINE I == 1 .. Len(s)
           R == {{i} \X (1 .. s[i]) : i \in I}
           f == [i \in I |-> {i} \X (1 .. s[i])]
<1>1. IsFiniteSet(I)
  BY LenProperties, FS_Interval
<1>2. f \in Surjection(I, R)
  BY DEF Surjection
<1>3. IsFiniteSet(R)
  BY <1>1, <1>2, FS_Surjection
<1>4. ASSUME NEW i \in I PROVE IsFiniteSet({i} \X (1 .. s[i]))
  <2>1. s[i] \in Nat
    BY ElementOfSeq
  <2>2. IsFiniteSet({i})
    BY FS_Singleton, Zenon
  <2>3. IsFiniteSet(1 .. s[i])
    <3> DEFINE k == s[i]
    <3>1. 1 \in Int /\ k \in Int
      BY <2>1
    <3> HIDE DEF k
    <3>2. IsFiniteSet(1 .. k)
      BY <3>1, FS_Interval, Zenon
    <3> QED BY <3>2 DEF k
  <2> QED BY <2>2, <2>3, FS_Product, Zenon
<1>5. \A T \in R : IsFiniteSet(T)
  BY <1>4
<1> HIDE DEF R
<1>6. IsFiniteSet(UNION R)
  BY <1>3, <1>5, FS_UNION
<1>7. IsFiniteSet(Units(s)) /\ Amount(s) = Cardinality(Units(s))
  BY <1>6 DEF R, Units, Amount
<1> QED BY <1>7, FS_CardinalityType

\* The units of one number.
LEMMA UnitsOfOne ==
  ASSUME NEW i \in Nat, NEW x \in Nat
  PROVE  IsFiniteSet({i} \X (1 .. x)) /\ Cardinality({i} \X (1 .. x)) = x
<1>1. IsFiniteSet({i}) /\ Cardinality({i}) = 1
  BY FS_Singleton
<1>2. IsFiniteSet(1 .. x) /\ Cardinality(1 .. x) = x
  BY FS_Interval
<1>3. /\ Cardinality({i} \X (1 .. x)) = Cardinality({i}) * Cardinality(1 .. x)
      /\ IsFiniteSet({i} \X (1 .. x))
  BY <1>1, <1>2, FS_Product, Zenon
<1>4. 1 * x = x
  OBVIOUS
<1> QED BY <1>1, <1>2, <1>3, <1>4

LEMMA AmountAppend ==
  ASSUME NEW s \in Seq(Nat), NEW x \in Nat
  PROVE  Amount(Append(s, x)) = Amount(s) + x
<1> DEFINE n == Len(s)
           t == Append(s, x)
           N == {n + 1} \X (1 .. x)
<1>1. /\ n \in Nat /\ t \in Seq(Nat) /\ Len(t) = n + 1 /\ (\A i \in 1 .. n : t[i] = s[i])
      /\ t[n + 1] = x
  BY LenProperties, AppendProperties
<1> HIDE DEF n, t
<1>2. \A u : u \in Units(s) <=> \E i \in 1 .. n : \E j \in 1 .. s[i] : u = <<i, j>>
  BY UnitIn DEF n
<1>3. \A u : u \in Units(t) <=> \E i \in 1 .. (n + 1) : \E j \in 1 .. t[i] : u = <<i, j>>
  <2>1. t \in Seq(Nat)
    BY <1>1
  <2>2. \A u : u \in Units(t) <=> \E i \in 1 .. Len(t) : \E j \in 1 .. t[i] : u = <<i, j>>
    BY <2>1, UnitIn, Zenon
  <2> QED BY <2>2, <1>1
<1>4. \A i \in 1 .. (n + 1) : i \in 1 .. n \/ i = n + 1
  BY <1>1
<1>5. n + 1 \in 1 .. (n + 1) /\ n + 1 \notin 1 .. n /\ \A i \in 1 .. n : i \in 1 .. (n + 1)
  BY <1>1
<1>6. Units(t) = Units(s) \cup N
  <2>1. ASSUME NEW u \in Units(t) PROVE u \in Units(s) \cup N
    <3>1a. PICK i \in 1 .. (n + 1) : \E j \in 1 .. t[i] : u = <<i, j>>
      BY <1>3
    <3>1. PICK j \in 1 .. t[i] : u = <<i, j>>
      BY <3>1a
    <3>2. CASE i \in 1 .. n
      BY <3>1, <3>2, <1>1, <1>2
    <3>3. CASE i = n + 1
      BY <3>1, <3>3, <1>1
    <3> QED BY <3>2, <3>3, <1>4
  <2>2. ASSUME NEW u \in Units(s) PROVE u \in Units(t)
    <3>1a. PICK i \in 1 .. n : \E j \in 1 .. s[i] : u = <<i, j>>
      BY <1>2
    <3>1. PICK j \in 1 .. s[i] : u = <<i, j>>
      BY <3>1a
    <3> QED BY <3>1, <1>1, <1>3, <1>5
  <2>3. ASSUME NEW u \in N PROVE u \in Units(t)
    <3>1. PICK j \in 1 .. x : u = <<n + 1, j>>
      OBVIOUS
    <3> QED BY <3>1, <1>1, <1>3, <1>5
  <2> QED BY <2>1, <2>2, <2>3
<1>7. Units(s) \cap N = {}
  <2>1. SUFFICES ASSUME NEW u \in Units(s), u \in N PROVE FALSE
    OBVIOUS
  <2>2a. PICK i \in 1 .. n : \E j \in 1 .. s[i] : u = <<i, j>>
    BY <1>2
  <2>2. PICK j \in 1 .. s[i] : u = <<i, j>>
    BY <2>2a
  <2>3. i = n + 1
    BY <2>1, <2>2
  <2> QED BY <2>3, <1>5
<1>8. IsFiniteSet(N) /\ Cardinality(N) = x
  <2>1. n + 1 \in Nat
    BY <1>1
  <2> QED BY <2>1, UnitsOfOne, Zenon
<1>9. IsFiniteSet(Units(s)) /\ Amount(s) \in Nat /\ Amount(s) = Cardinality(Units(s))
  BY AmountType
<1> HIDE DEF N
<1>10. Cardinality(Units(s) \cup N) = Cardinality(Units(s)) + Cardinality(N) - Cardinality({})
  BY <1>7, <1>8, <1>9, FS_Union
<1>11. Cardinality({}) = 0
  BY FS_EmptySet
<1>12. Amount(t) = Cardinality(Units(t))
  BY <1>1, AmountType
<1>13. Amount(t) = Amount(s) + x
  BY <1>6, <1>8, <1>9, <1>10, <1>11, <1>12
<1> QED BY <1>13 DEF t

LEMMA AmountEmpty == Amount(<<>>) = 0
<1>1. Units(<<>>) = {}
  BY DEF Units
<1>2. <<>> \in Seq(Nat)
  OBVIOUS
<1>3. Amount(<<>>) = Cardinality(Units(<<>>))
  BY <1>2, AmountType, Zenon
<1> QED BY <1>1, <1>3, FS_EmptySet, Zenon

LEMMA AmountTail ==
  ASSUME NEW s \in Seq(Nat), s # <<>>
  PROVE  Amount(s) = Head(s) + Amount(Tail(s)) /\ Head(s) \in Nat /\ Amount(Tail(s)) \in Nat
<1> DEFINE n == Len(s) - 1
           t == Tail(s)
           h == Head(s)
           F == {1} \X (1 .. h)
           S == Units(s)
           T == Units(t)
           f == [u \in T |-> <<u[1] + 1, u[2]>>]
<1>1. /\ n \in Nat /\ Len(s) = n + 1 /\ t \in Seq(Nat) /\ Len(t) = n
      /\ (\A i \in 1 .. n : t[i] = s[i + 1]) /\ h \in Nat /\ h = s[1]
  BY LenProperties, EmptySeq, HeadTailProperties
<1> HIDE DEF n, t, h
<1>2. \A u : u \in S <=> \E i \in 1 .. (n + 1) : \E j \in 1 .. s[i] : u = <<i, j>>
  BY <1>1, UnitIn
<1>3. \A u : u \in T <=> \E i \in 1 .. n : \E j \in 1 .. t[i] : u = <<i, j>>
  <2>1. t \in Seq(Nat)
    BY <1>1
  <2>2. \A u : u \in T <=> \E i \in 1 .. Len(t) : \E j \in 1 .. t[i] : u = <<i, j>>
    BY <2>1, UnitIn, Zenon
  <2> QED BY <2>2, <1>1
<1>4. IsFiniteSet(S) /\ Amount(s) \in Nat /\ Amount(s) = Cardinality(S)
  BY AmountType
<1>5. IsFiniteSet(T) /\ Amount(t) \in Nat /\ Amount(t) = Cardinality(T)
  BY <1>1, AmountType
<1>6. IsFiniteSet(F) /\ Cardinality(F) = h
  BY <1>1, UnitsOfOne
<1> HIDE DEF S, T
<1>7. F \subseteq S
  <2>1. SUFFICES ASSUME NEW u \in F PROVE u \in S
    OBVIOUS
  <2>2. PICK j \in 1 .. h : u = <<1, j>>
    OBVIOUS
  <2>3. 1 \in 1 .. (n + 1)
    BY <1>1
  <2> QED BY <2>2, <2>3, <1>1, <1>2
<1>8. \A i \in 1 .. n : i + 1 \in 1 .. (n + 1) /\ i + 1 # 1
  BY <1>1
<1>9. ASSUME NEW u \in T PROVE f[u] \in S \ F
  <2>1a. PICK i \in 1 .. n : \E j \in 1 .. t[i] : u = <<i, j>>
    BY <1>3
  <2>1. PICK j \in 1 .. t[i] : u = <<i, j>>
    BY <2>1a
  <2>2. f[u] = <<i + 1, j>>
    BY <2>1
  <2>3. f[u] \in S
    BY <2>1, <2>2, <1>1, <1>2, <1>8
  <2>4. f[u] \notin F
    BY <2>1, <2>2, <1>8
  <2> QED BY <2>3, <2>4
<1>10. ASSUME NEW u \in T, NEW v \in T, f[u] = f[v] PROVE u = v
  <2>1a. PICK i \in 1 .. n : \E j \in 1 .. t[i] : u = <<i, j>>
    BY <1>3
  <2>1. PICK j \in 1 .. t[i] : u = <<i, j>>
    BY <2>1a
  <2>2a. PICK k \in 1 .. n : \E m \in 1 .. t[k] : v = <<k, m>>
    BY <1>3
  <2>2. PICK m \in 1 .. t[k] : v = <<k, m>>
    BY <2>2a
  <2>3. f[u] = <<i + 1, j>> /\ f[v] = <<k + 1, m>>
    BY <2>1, <2>2
  <2>4. i + 1 = k + 1 /\ j = m
    BY <2>3, <1>10
  <2>5. i = k
    BY <2>4
  <2> QED BY <2>1, <2>2, <2>4, <2>5
<1>11. ASSUME NEW u \in S \ F PROVE \E v \in T : f[v] = u
  <2>1a. PICK i \in 1 .. (n + 1) : \E j \in 1 .. s[i] : u = <<i, j>>
    BY <1>2
  <2>1. PICK j \in 1 .. s[i] : u = <<i, j>>
    BY <2>1a
  <2>2. i # 1
    BY <2>1, <1>1
  <2>3. i - 1 \in 1 .. n /\ (i - 1) + 1 = i
    BY <2>2, <1>1
  <2>4. t[i - 1] = s[i]
    <3>1. t[i - 1] = s[(i - 1) + 1]
      BY <2>3, <1>1
    <3> QED BY <3>1, <2>3
  <2>5. <<i - 1, j>> \in T
    BY <2>1, <2>3, <2>4, <1>3
  <2>6. f[<<i - 1, j>>] = <<(i - 1) + 1, j>>
    BY <2>5
  <2> QED BY <2>1, <2>3, <2>5, <2>6
<1>12. f \in [T -> S \ F]
  BY <1>9
<1> HIDE DEF f, F
<1>13. f \in Bijection(T, S \ F)
  BY <1>10, <1>11, <1>12 DEF Bijection, Injection, Surjection, IsInjective
<1>14. Cardinality(S \ F) = Cardinality(T)
  BY <1>5, <1>13, FS_Bijection DEF ExistsBijection
<1>15. Cardinality(S \ F) = Cardinality(S) - Cardinality(S \cap F)
  BY <1>4, FS_Difference
<1>16. S \cap F = F
  BY <1>7
<1>17. Amount(s) = h + Amount(t)
  <2>1. Cardinality(T) = Cardinality(S) - h
    BY <1>6, <1>14, <1>15, <1>16
  <2> QED BY <2>1, <1>1, <1>4, <1>5
<1> QED BY <1>1, <1>5, <1>17 DEF h, t

----------------------------------------------------------------------------
(* Credit. *)

\* A CLOSE carries nothing; a thread holds credit only while it sends, and the
\* inbound thread is not inside send_ack() while it handles a frame.
CreditInv ==
  /\ CreditConserved
  /\ \A c \in Creditors : credit[c].pc # "send" => credit[c].n = 0
  /\ rx # NoFrame => credit["rx"].pc = "idle"
  /\ \A i \in 1 .. Len(net) : net[i].kind = "CLOSE" => net[i].bytes = <<>>

\* The counters the credit is made of are natural numbers.
LEMMA CreditTypes ==
  ASSUME TypeOK
  PROVE  /\ win.emitted \in Nat /\ win.acked \in Nat /\ since \in Nat /\ faults.dropped \in Nat
         /\ credit["rx"].n \in Nat /\ credit["strand"].n \in Nat /\ credit["timer"].n \in Nat
         /\ Held \in Nat /\ Amount(Sizes(net)) \in Nat /\ Amount(acks) \in Nat
         /\ net \in Seq(Frames) /\ Sizes(net) \in Seq(Nat) /\ acks \in Seq(Nat)
<1>1. win.emitted \in Nat /\ win.acked \in Nat /\ since \in Nat
  BY SenderFields, ReceiverFields
<1>2. faults.dropped \in Nat
  BY DEF TypeOK
<1>3. credit["rx"].n \in Nat /\ credit["strand"].n \in Nat /\ credit["timer"].n \in Nat
  BY ReceiverFields DEF Creditors
<1>4. Held \in Nat
  BY <1>3 DEF Held
<1>5. net \in Seq(Frames) /\ acks \in Seq(Nat)
  BY DEF TypeOK
<1>6. Sizes(net) \in Seq(Nat)
  BY <1>5, FramesType
<1>7. Amount(Sizes(net)) \in Nat /\ Amount(acks) \in Nat
  BY <1>5, <1>6, AmountType
<1> QED BY <1>1, <1>2, <1>3, <1>4, <1>5, <1>6, <1>7

\* One thread's place changes.
LEMMA HeldChange ==
  ASSUME TypeOK, NEW c \in Creditors, NEW r \in CreditRecord, credit' = [credit EXCEPT ![c] = r]
  PROVE  /\ Held' = Held - credit[c].n + r.n /\ credit[c].n <= Held
         /\ credit'[c] = r /\ \A d \in Creditors \ {c} : credit'[d] = credit[d]
<1>1. credit \in [Creditors -> CreditRecord]
  BY DEF TypeOK
<1>2. credit'[c] = r /\ \A d \in Creditors \ {c} : credit'[d] = credit[d]
  BY <1>1
<1>3. r.n \in Nat
  BY DEF CreditRecord
<1>4. Held' = credit'["rx"].n + credit'["strand"].n + credit'["timer"].n
  BY DEF Held
<1>5. Held = credit["rx"].n + credit["strand"].n + credit["timer"].n
  BY DEF Held
<1>6. credit["rx"].n \in Nat /\ credit["strand"].n \in Nat /\ credit["timer"].n \in Nat
  BY CreditTypes
<1>7. "rx" \in Creditors /\ "strand" \in Creditors /\ "timer" \in Creditors
  BY DEF Creditors
<1>8. CASE c = "rx"
  <2>1. credit'["rx"] = r /\ credit'["strand"] = credit["strand"] /\ credit'["timer"] = credit["timer"]
    BY <1>2, <1>7, <1>8
  <2>2. Held' = Held - credit["rx"].n + r.n /\ credit["rx"].n <= Held
    BY <2>1, <1>3, <1>4, <1>5, <1>6
  <2> QED BY <2>2, <1>2, <1>8
<1>9. CASE c = "strand"
  <2>1. credit'["strand"] = r /\ credit'["rx"] = credit["rx"] /\ credit'["timer"] = credit["timer"]
    BY <1>2, <1>7, <1>9
  <2>2. Held' = Held - credit["strand"].n + r.n /\ credit["strand"].n <= Held
    BY <2>1, <1>3, <1>4, <1>5, <1>6
  <2> QED BY <2>2, <1>2, <1>9
<1>10. CASE c = "timer"
  <2>1. credit'["timer"] = r /\ credit'["rx"] = credit["rx"] /\ credit'["strand"] = credit["strand"]
    BY <1>2, <1>7, <1>10
  <2>2. Held' = Held - credit["timer"].n + r.n /\ credit["timer"].n <= Held
    BY <2>1, <1>3, <1>4, <1>5, <1>6
  <2> QED BY <2>2, <1>2, <1>10
<1> QED BY <1>8, <1>9, <1>10 DEF Creditors

\* Asking for an ACK moves no credit.
LEMMA AskCredit ==
  ASSUME TypeOK, NEW c \in Creditors, credit[c].pc = "idle",
         credit' = [credit EXCEPT ![c].pc = "take"] \/ credit' = credit
  PROVE  /\ Held' = Held
         /\ (\A d \in Creditors : credit[d].pc # "send" => credit[d].n = 0) =>
              \A d \in Creditors : credit'[d].pc # "send" => credit'[d].n = 0
<1>1. CASE credit' = credit
  BY <1>1 DEF Held
<1>2. CASE credit' = [credit EXCEPT ![c].pc = "take"]
  <2> DEFINE r == [credit[c] EXCEPT !.pc = "take"]
  <2>1. credit[c] \in CreditRecord /\ credit[c].n \in Nat
    BY ReceiverFields
  <2>2. r \in CreditRecord /\ r.n = credit[c].n /\ r.pc = "take"
    BY <2>1 DEF CreditRecord
  <2>3. credit' = [credit EXCEPT ![c] = r]
    BY <1>2
  <2> HIDE DEF r
  <2>4. /\ Held' = Held - credit[c].n + r.n
        /\ credit'[c] = r /\ \A d \in Creditors \ {c} : credit'[d] = credit[d]
    BY <2>2, <2>3, HeldChange
  <2>5. Held \in Nat
    BY CreditTypes
  <2>6. Held' = Held
    BY <2>1, <2>2, <2>4, <2>5
  <2>7. ASSUME \A d \in Creditors : credit[d].pc # "send" => credit[d].n = 0, NEW d \in Creditors
        PROVE  credit'[d].pc # "send" => credit'[d].n = 0
    <3>1. CASE d = c
      BY <3>1, <2>2, <2>4, <2>7
    <3>2. CASE d # c
      BY <3>2, <2>4, <2>7
    <3> QED BY <3>1, <3>2
  <2> QED BY <2>6, <2>7
<1> QED BY <1>1, <1>2

\* A step that leaves the counters, the frames and the threads alone.
LEMMA CreditUntouched ==
  ASSUME CreditInv, win'.emitted = win.emitted, win'.acked = win.acked,
         UNCHANGED <<net, acks, rx, since, credit>>, faults'.dropped = faults.dropped
  PROVE  CreditInv'
BY DEF CreditInv, CreditConserved, Held

LEMMA SourceCredit == ASSUME TypeOK, CreditInv, SourceStep PROVE CreditInv'
<1>1. /\ win'.emitted = win.emitted /\ win'.acked = win.acked
      /\ UNCHANGED <<net, acks, rx, since, credit, faults>>
  <2>1. CASE TcpReserve
    BY <2>1 DEF TcpReserve, TypeOK, WindowRecord
  <2>2. CASE TcpAppend
    BY <2>2 DEF TcpAppend, TypeOK, WindowRecord
  <2>3. CASE ~TcpReserve /\ ~TcpAppend
    BY <2>3 DEF SourceStep, ReadCompletes, ReadEof, CheckBacklog, TcpInsert, TcpPause, NextRead,
                PostedRead, SourceEof
  <2> QED BY <2>1, <2>2, <2>3
<1> QED BY <1>1, CreditUntouched

\* A frame joins the stream: its bytes are counted with it.
LEMMA EmitCredit ==
  ASSUME TypeOK, TypeOK', CreditInv, NEW f \in Frames, net' = Append(net, f),
         f.kind = "CLOSE" => f.bytes = <<>>,
         win'.emitted = win.emitted + Len(f.bytes), win'.acked = win.acked,
         UNCHANGED <<acks, rx, since, credit, faults>>
  PROVE  CreditInv'
<1>1. Len(f.bytes) \in Nat
  BY LenProperties DEF Frames
<1>2. Amount(Sizes(net))' = Amount(Sizes(net)) + Len(f.bytes)
  <2>1. Sizes(Append(net, f)) = Append(Sizes(net), Len(f.bytes))
    BY CreditTypes, FramesAppend
  <2>2. Amount(Append(Sizes(net), Len(f.bytes))) = Amount(Sizes(net)) + Len(f.bytes)
    BY <1>1, CreditTypes, AmountAppend
  <2> QED BY <2>1, <2>2
<1>3. win.emitted - win.acked = Amount(Sizes(net)) + since + Held + Amount(acks) + faults.dropped
  BY DEF CreditConserved, CreditInv
<1>4. Held' = Held /\ Amount(acks)' = Amount(acks)
  BY DEF Held
<1>5. (win.emitted - win.acked = Amount(Sizes(net)) + since + Held + Amount(acks) + faults.dropped)'
  <2> DEFINE a == Amount(Sizes(net))
             h == Held
             e == Amount(acks)
             d == faults.dropped
             n == Len(f.bytes)
  <2>1. a \in Nat /\ h \in Nat /\ e \in Nat /\ d \in Nat /\ since \in Nat /\ n \in Nat
    BY <1>1, CreditTypes
  <2>2. win.emitted \in Nat /\ win.acked \in Nat
    BY CreditTypes
  <2>3. win.emitted - win.acked = a + since + h + e + d
    BY <1>3
  <2>4. a' = a + n /\ h' = h /\ e' = e /\ d' = d
    BY <1>2, <1>4
  <2> HIDE DEF a, h, e, d, n
  <2>5. (win.emitted + n) - win.acked = (a + n) + since + h + e + d
    <3> DEFINE m == win.emitted
               k == win.acked
    <3>1. m \in Nat /\ k \in Nat /\ m - k = a + since + h + e + d
      BY <2>2, <2>3
    <3> HIDE DEF m, k
    <3>2. (m + n) - k = (a + n) + since + h + e + d
      BY <2>1, <3>1
    <3> QED BY <3>2 DEF m, k
  <2>6. win'.emitted - win'.acked = a' + since' + h' + e' + d'
    <3>1. win'.emitted = win.emitted + n /\ win'.acked = win.acked /\ since' = since
      BY DEF n
    <3>2. win'.emitted - win'.acked = (win.emitted + n) - win.acked
      BY <3>1
    <3>3. a' + since' + h' + e' + d' = (a + n) + since + h + e + d
      BY <2>4, <3>1
    <3> QED BY <2>5, <3>2, <3>3
  <2> QED BY <2>6 DEF a, h, e, d
<1>6. CreditConserved'
  BY <1>5 DEF CreditConserved
<1>7. ASSUME NEW i \in 1 .. Len(net'), net'[i].kind = "CLOSE" PROVE net'[i].bytes = <<>>
  <2>1. Len(net') = Len(net) + 1 /\ (\A j \in 1 .. Len(net) : net'[j] = net[j]) /\ net'[Len(net) + 1] = f
    BY CreditTypes, AppendProperties
  <2>2. i \in 1 .. Len(net) \/ i = Len(net) + 1
    <3>1. Len(net) \in Nat
      BY CreditTypes, LenProperties
    <3>2. i \in 1 .. (Len(net) + 1)
      BY <2>1
    <3> QED BY <3>1, <3>2
  <2> QED BY <2>1, <2>2, <1>7 DEF CreditInv
<1> QED BY <1>6, <1>7 DEF CreditInv

LEMMA DriverCredit == ASSUME TypeOK, TypeOK', CreditInv, DriverStep PROVE CreditInv'
<1>1. CASE EmitData
  <2> DEFINE n == Least(FrameCap, Len(outb.fifo))
             f == Frame("DATA", SubSeq(outb.fifo, 1, n))
  <2>1. n \in Nat /\ n <= Len(outb.fifo)
    BY LeastType, LimitAssumption, SenderFields
  <2>2. SubSeq(outb.fifo, 1, n) \in Seq(Nat) /\ Len(SubSeq(outb.fifo, 1, n)) = n
    BY <2>1, PrefixType, SenderFields
  <2>3. f \in Frames /\ f.kind = "DATA" /\ f.bytes = SubSeq(outb.fifo, 1, n)
    BY <2>2 DEF Frame, Frames
  <2>4. win'.emitted = win.emitted + n /\ win'.acked = win.acked
    BY <1>1 DEF EmitData, TypeOK, WindowRecord
  <2>5. net' = Append(net, f) /\ UNCHANGED <<acks, rx, since, credit, faults>>
    BY <1>1 DEF EmitData
  <2> HIDE DEF n, f
  <2> QED BY <2>2, <2>3, <2>4, <2>5, EmitCredit
<1>2. CASE EmitClose
  <2> DEFINE f == Frame("CLOSE", <<>>)
  <2>1. f \in Frames /\ f.bytes = <<>>
    BY DEF Frame, Frames
  <2>2. Len(f.bytes) = 0
    BY <2>1
  <2>3. win' = win /\ net' = Append(net, f) /\ UNCHANGED <<acks, rx, since, credit, faults>>
    BY <1>2 DEF EmitClose
  <2>4. win.emitted + 0 = win.emitted
    BY CreditTypes
  <2> HIDE DEF f
  <2> QED BY <2>1, <2>2, <2>3, <2>4, EmitCredit
<1> QED BY <1>1, <1>2 DEF DriverStep

\* The clamp takes nothing away: what an ACK carries was emitted and is not yet
\* acknowledged.
LEMMA AckCredit == ASSUME TypeOK, TypeOK', CreditInv, AckStep PROVE CreditInv'
<1>1. CASE RxAck
  <2> DEFINE h == Head(acks)
             a == Amount(Sizes(net))
             g == Held
             t == Amount(Tail(acks))
             d == faults.dropped
             m == win.emitted
             k == win.acked
             n == Least(h, m - k)
  <2>1. acks # <<>> /\ acks' = Tail(acks) /\ UNCHANGED <<net, rx, since, credit, faults>>
    BY <1>1 DEF RxAck
  <2>2. win'.emitted = m /\ win'.acked = k + n
    BY <1>1 DEF RxAck, TypeOK, WindowRecord
  <2>3. Amount(acks) = h + t /\ h \in Nat /\ t \in Nat
    BY <2>1, CreditTypes, AmountTail
  <2>4. a \in Nat /\ g \in Nat /\ d \in Nat /\ since \in Nat /\ m \in Nat /\ k \in Nat
    BY CreditTypes
  <2>5. m - k = a + since + g + Amount(acks) + d
    BY DEF CreditConserved, CreditInv
  <2>6. a' = a /\ g' = g /\ d' = d /\ Amount(acks)' = t
    BY <2>1 DEF Held
  <2> HIDE DEF h, a, g, t, d, m, k
  <2>7. h <= m - k
    BY <2>3, <2>4, <2>5
  <2>8. n = h
    BY <2>7 DEF Least
  <2> HIDE DEF n
  <2>9. m - (k + n) = a + since + g + t + d
    BY <2>3, <2>4, <2>5, <2>8
  <2>10. win'.emitted - win'.acked = a' + since' + g' + Amount(acks)' + d'
    BY <2>1, <2>2, <2>6, <2>9
  <2>11. CreditConserved'
    BY <2>10 DEF CreditConserved, a, g, d
  <2> QED BY <2>1, <2>11 DEF CreditInv
<1>2. CASE ~RxAck
  <2>1. /\ win'.emitted = win.emitted /\ win'.acked = win.acked
        /\ UNCHANGED <<net, acks, rx, since, credit, faults>>
    <3>1. CASE ReleaseWindow
      BY <3>1 DEF ReleaseWindow, TypeOK, WindowRecord
    <3>2. CASE FlushReserve
      BY <3>2 DEF FlushReserve, TypeOK, WindowRecord
    <3>3. CASE FlushAppend
      BY <3>3 DEF FlushAppend, TypeOK, WindowRecord
    <3>4. CASE ~ReleaseWindow /\ ~FlushReserve /\ ~FlushAppend
      BY <1>2, <3>4 DEF AckStep, FlushBacklog, FlushConsume, ResumeRead, FinishEof
    <3> QED BY <3>1, <3>2, <3>3, <3>4
  <2> QED BY <2>1, CreditUntouched
<1> QED BY <1>1, <1>2

\* A frame leaves the stream: its bytes are credit from now on.
LEMMA TakeFrame ==
  ASSUME TypeOK, TypeOK', CreditInv, net # <<>>, net' = Tail(net),
         since' = since + Len(Head(net).bytes), UNCHANGED <<win, acks, credit, faults>>
  PROVE  /\ CreditConserved'
         /\ \A i \in 1 .. Len(net') : net'[i].kind = "CLOSE" => net'[i].bytes = <<>>
<1> DEFINE h == Len(Head(net).bytes)
           a == Amount(Sizes(net))
           t == Amount(Sizes(Tail(net)))
           g == Held
           e == Amount(acks)
           d == faults.dropped
           m == win.emitted
           k == win.acked
<1>1. /\ Sizes(Tail(net)) = Tail(Sizes(net)) /\ Head(Sizes(net)) = h /\ Sizes(net) # <<>>
  BY CreditTypes, FramesTail
<1>2. Sizes(net) \in Seq(Nat)
  BY CreditTypes
<1>3. a = h + t /\ h \in Nat /\ t \in Nat
  BY <1>1, <1>2, AmountTail
<1>4. g \in Nat /\ d \in Nat /\ e \in Nat /\ since \in Nat /\ m \in Nat /\ k \in Nat
  BY CreditTypes
<1>5. m - k = a + since + g + e + d
  BY DEF CreditConserved, CreditInv
<1>6. a' = t /\ g' = g /\ e' = e /\ d' = d /\ m' = m /\ k' = k /\ since' = since + h
  BY DEF Held
<1> HIDE DEF h, a, t, g, e, d, m, k
<1>7. m - k = t + (since + h) + g + e + d
  BY <1>3, <1>4, <1>5
<1>8. (m - k = a + since + g + e + d)'
  BY <1>6, <1>7
<1>9. CreditConserved'
  BY <1>8 DEF CreditConserved, a, g, e, d, m, k
<1>10. ASSUME NEW i \in 1 .. Len(net'), net'[i].kind = "CLOSE" PROVE net'[i].bytes = <<>>
  <2>1. Len(net) \in Nat /\ Len(net') = Len(net) - 1 /\ (\A j \in 1 .. (Len(net) - 1) : net'[j] = net[j + 1])
    BY CreditTypes, HeadTailProperties, LenProperties
  <2>2. i + 1 \in 1 .. Len(net) /\ net'[i] = net[i + 1]
    BY <2>1
  <2> QED BY <2>2, <1>10 DEF CreditInv
<1> QED BY <1>9, <1>10

LEMMA ReceiverCredit == ASSUME TypeOK, TypeOK', CreditInv, ReceiverStep PROVE CreditInv'
<1>1. CASE RxData
  <2>1. /\ credit["rx"].pc = "idle" /\ net # <<>> /\ net' = Tail(net)
        /\ since' = since + Len(Head(net).bytes) /\ UNCHANGED <<win, acks, credit, faults>>
    BY <1>1 DEF RxData, RxFree
  <2>2. /\ CreditConserved'
        /\ \A i \in 1 .. Len(net') : net'[i].kind = "CLOSE" => net'[i].bytes = <<>>
    BY <2>1, TakeFrame
  <2> QED BY <2>1, <2>2 DEF CreditInv
<1>2. CASE WriteToTcp
  <2>1. /\ credit["rx"].pc = "idle" /\ rx' = NoFrame /\ UNCHANGED <<win, net, acks, since, faults>>
        /\ credit' = [credit EXCEPT !["rx"].pc = "take"] \/ credit' = credit
    BY <1>2 DEF WriteToTcp, CreditInv
  <2>2. "rx" \in Creditors
    BY DEF Creditors
  <2>3. /\ Held' = Held
        /\ \A d \in Creditors : credit'[d].pc # "send" => credit'[d].n = 0
    BY <2>1, <2>2, AskCredit DEF CreditInv
  <2>4. CreditConserved'
    BY <2>1, <2>3 DEF CreditConserved, CreditInv
  <2> QED BY <2>1, <2>3, <2>4 DEF CreditInv
<1>3. CASE RxClose
  <2>1. /\ net # <<>> /\ net' = Tail(net) /\ Head(net).kind = "CLOSE"
        /\ UNCHANGED <<win, acks, rx, since, credit, faults>>
    BY <1>3 DEF RxClose, RxFree
  <2>2. Head(net) = net[1] /\ 1 \in 1 .. Len(net)
    BY <2>1, CreditTypes, EmptySeq, LenProperties
  <2>3. Head(net).bytes = <<>>
    BY <2>1, <2>2 DEF CreditInv
  <2>4. since' = since + Len(Head(net).bytes)
    BY <2>1, <2>3, CreditTypes
  <2>5. /\ CreditConserved'
        /\ \A i \in 1 .. Len(net') : net'[i].kind = "CLOSE" => net'[i].bytes = <<>>
    BY <2>1, <2>4, TakeFrame
  <2> QED BY <2>1, <2>5 DEF CreditInv
<1> QED BY <1>1, <1>2, <1>3 DEF ReceiverStep

LEMMA StrandCredit == ASSUME TypeOK, TypeOK', CreditInv, StrandStep PROVE CreditInv'
<1>1. CASE RunPosted
  BY <1>1, CreditUntouched DEF RunPosted
<1>2. CASE WriteCompletes
  <2>1. /\ credit["strand"].pc = "idle" /\ UNCHANGED <<win, net, acks, rx, since, faults>>
        /\ credit' = [credit EXCEPT !["strand"].pc = "take"] \/ credit' = credit
    BY <1>2 DEF WriteCompletes, StrandFree
  <2>2. "strand" \in Creditors /\ "rx" \in Creditors /\ "rx" # "strand"
    BY DEF Creditors
  <2>3. /\ Held' = Held
        /\ \A d \in Creditors : credit'[d].pc # "send" => credit'[d].n = 0
    BY <2>1, <2>2, AskCredit DEF CreditInv
  <2>4. CreditConserved'
    BY <2>1, <2>3 DEF CreditConserved, CreditInv
  <2>5. credit'["rx"] = credit["rx"]
    BY <2>1, <2>2 DEF TypeOK
  <2> QED BY <2>1, <2>3, <2>4, <2>5 DEF CreditInv
<1> QED BY <1>1, <1>2 DEF StrandStep

LEMMA TimerCredit == ASSUME TypeOK, TypeOK', CreditInv, FireAckRetry PROVE CreditInv'
<1>1. /\ credit["timer"].pc = "idle" /\ UNCHANGED <<win, net, acks, rx, since, faults>>
      /\ credit' = [credit EXCEPT !["timer"].pc = "take"]
  BY DEF FireAckRetry
<1>2. "timer" \in Creditors /\ "rx" \in Creditors /\ "rx" # "timer"
  BY DEF Creditors
<1>3. /\ Held' = Held
      /\ \A d \in Creditors : credit'[d].pc # "send" => credit'[d].n = 0
  BY <1>1, <1>2, AskCredit DEF CreditInv
<1>4. CreditConserved'
  BY <1>1, <1>3 DEF CreditConserved, CreditInv
<1>5. credit'["rx"] = credit["rx"]
  BY <1>1, <1>2 DEF TypeOK
<1> QED BY <1>1, <1>3, <1>4, <1>5 DEF CreditInv

\* send_ack() moves credit from the counter to its thread and on to the wire,
\* back to the counter, or away: each amount in one place.
LEMMA SendCredit ==
  ASSUME TypeOK, TypeOK', CreditInv, NEW c \in Creditors, CreditStep(c)
  PROVE  CreditInv'
<1> DEFINE idle == [pc |-> "idle", n |-> 0]
           a == Amount(Sizes(net))
           g == Held
           e == Amount(acks)
           d == faults.dropped
           m == win.emitted
           k == win.acked
           x == credit[c].n
<1>1. idle \in CreditRecord /\ idle.n = 0 /\ idle.pc = "idle"
  BY DEF CreditRecord
<1>2. /\ a \in Nat /\ g \in Nat /\ e \in Nat /\ d \in Nat /\ since \in Nat /\ m \in Nat /\ k \in Nat
      /\ x \in Nat
  BY CreditTypes, ReceiverFields
<1>3. m - k = a + since + g + e + d
  BY DEF CreditConserved, CreditInv
<1>4. UNCHANGED <<win, net, rx>>
  BY DEF CreditStep, TakeCredit, CreditSent, CreditFull, CreditFailed
<1>5. \A r \in CreditRecord : credit' = [credit EXCEPT ![c] = r] =>
        g' = g - x + r.n /\ x <= g /\ credit'[c] = r /\ \A b \in Creditors \ {c} : credit'[b] = credit[b]
  BY HeldChange
<1>6. ASSUME NEW r \in CreditRecord, credit' = [credit EXCEPT ![c] = r], r.pc # "send" => r.n = 0,
             credit[c].pc # "idle", a' + since' + g' + e' + d' = a + since + g + e + d
      PROVE  CreditInv'
  <2>1. credit'[c] = r /\ \A b \in Creditors \ {c} : credit'[b] = credit[b]
    BY <1>5, <1>6
  <2>2. \A b \in Creditors : credit'[b].pc # "send" => credit'[b].n = 0
    <3>1. TAKE b \in Creditors
    <3>2. CASE b = c
      BY <3>2, <2>1, <1>6
    <3>3. CASE b # c
      BY <3>3, <2>1 DEF CreditInv
    <3> QED BY <3>2, <3>3
  <2>3. rx' # NoFrame => credit'["rx"].pc = "idle"
    <3>1. "rx" \in Creditors
      BY DEF Creditors
    <3> QED BY <1>4, <1>6, <2>1, <3>1 DEF CreditInv
  <2>4. m' - k' = a' + since' + g' + e' + d'
    BY <1>3, <1>4, <1>6
  <2>5. CreditConserved'
    BY <2>4 DEF CreditConserved
  <2> QED BY <1>4, <2>2, <2>3, <2>5 DEF CreditInv
<1>7. a' = a
  BY <1>4
<1>8. CASE TakeCredit(c)
  <2> DEFINE r == IF since = 0 THEN idle ELSE [pc |-> "send", n |-> since]
  <2>1. /\ credit[c].pc = "take" /\ since' = 0 /\ acks' = acks /\ faults' = faults
        /\ credit' = [credit EXCEPT ![c] = r]
    BY <1>8 DEF TakeCredit
  <2>2. r \in CreditRecord /\ r.n = since /\ (r.pc # "send" => r.n = 0)
    BY <1>2 DEF CreditRecord
  <2> HIDE DEF r, idle
  <2>3. x = 0
    BY <2>1 DEF CreditInv
  <2>4. g' = g - x + r.n /\ e' = e /\ d' = d
    BY <1>5, <2>1, <2>2
  <2> HIDE DEF a, g, e, d, m, k, x
  <2>5. a + 0 + (g - x + since) + e + d = a + since + g + e + d
    BY <1>2, <2>3
  <2>6. a' + since' + g' + e' + d' = a + since + g + e + d
    BY <1>7, <2>1, <2>2, <2>4, <2>5
  <2> QED BY <1>6, <2>1, <2>2, <2>6
<1>9. CASE CreditSent(c)
  <2>1. /\ credit[c].pc = "send" /\ since' = since /\ acks' = Append(acks, x) /\ faults' = faults
        /\ credit' = [credit EXCEPT ![c] = idle]
    BY <1>9 DEF CreditSent, CreditDone
  <2>2. e' = e + x
    BY <1>2, <2>1, CreditTypes, AmountAppend
  <2>3. g' = g - x + idle.n /\ d' = d
    BY <1>1, <1>5, <2>1
  <2> HIDE DEF idle, a, g, e, d, m, k, x
  <2>4. a + since + (g - x + 0) + (e + x) + d = a + since + g + e + d
    BY <1>2
  <2>5. a' + since' + g' + e' + d' = a + since + g + e + d
    BY <1>1, <1>7, <2>1, <2>2, <2>3, <2>4
  <2> QED BY <1>1, <1>6, <2>1, <2>5
<1>10. CASE CreditFull(c)
  <2>1. /\ credit[c].pc = "send" /\ since' = since + x /\ acks' = acks
        /\ credit' = [credit EXCEPT ![c] = idle]
    BY <1>10 DEF CreditFull, CreditDone
  <2>2. d' = d
    BY <1>10 DEF CreditFull, TypeOK
  <2>3. g' = g - x + idle.n /\ e' = e
    BY <1>1, <1>5, <2>1
  <2> HIDE DEF idle, a, g, e, d, m, k, x
  <2>4. a + (since + x) + (g - x + 0) + e + d = a + since + g + e + d
    BY <1>2
  <2>5. a' + since' + g' + e' + d' = a + since + g + e + d
    BY <1>1, <1>7, <2>1, <2>2, <2>3, <2>4
  <2> QED BY <1>1, <1>6, <2>1, <2>5
<1>11. CASE CreditFailed(c)
  <2>1. /\ credit[c].pc = "send" /\ since' = since /\ acks' = acks
        /\ credit' = [credit EXCEPT ![c] = idle]
    BY <1>11 DEF CreditFailed, CreditDone
  <2>2. d' = d + x
    BY <1>11 DEF CreditFailed, TypeOK
  <2>3. g' = g - x + idle.n /\ e' = e
    BY <1>1, <1>5, <2>1
  <2> HIDE DEF idle, a, g, e, d, m, k, x
  <2>4. a + since + (g - x + 0) + e + (d + x) = a + since + g + e + d
    BY <1>2
  <2>5. a' + since' + g' + e' + d' = a + since + g + e + d
    BY <1>1, <1>7, <2>1, <2>2, <2>3, <2>4
  <2> QED BY <1>1, <1>6, <2>1, <2>5
<1> QED BY <1>8, <1>9, <1>10, <1>11 DEF CreditStep

\* No step loses or doubles credit.
LEMMA CreditInductive == ASSUME TypeOK, WindowInv, CreditInv, [Next]_vars PROVE CreditInv'
<1>1. TypeOK'
  BY NextType
<1>2. CASE Rest \/ UNCHANGED vars
  BY <1>2, CreditUntouched DEF Rest, vars
<1> QED BY <1>1, <1>2, SourceCredit, DriverCredit, AckCredit, ReceiverCredit, StrandCredit,
           TimerCredit, SendCredit DEF Next

LEMMA CreditInit == ASSUME Init PROVE CreditInv
<1>1. net = <<>> /\ acks = <<>> /\ rx = NoFrame /\ since = 0
  BY DEF Init
<1>2. win.emitted = 0 /\ win.acked = 0 /\ faults.dropped = 0
  BY DEF Init
<1>3. \A c \in Creditors : credit[c].n = 0
  BY DEF Init
<1>4. credit["rx"].n = 0 /\ credit["strand"].n = 0 /\ credit["timer"].n = 0
  BY <1>3 DEF Creditors
<1>5. Sizes(net) = <<>>
  BY <1>1 DEF Sizes
<1>6. Amount(Sizes(net)) = 0 /\ Amount(acks) = 0
  BY <1>1, <1>5, AmountEmpty
<1>7. CreditConserved
  BY <1>1, <1>2, <1>4, <1>6 DEF CreditConserved, Held
<1>8. \A i \in 1 .. Len(net) : net[i].kind = "CLOSE" => net[i].bytes = <<>>
  BY <1>1
<1> QED BY <1>1, <1>3, <1>7, <1>8 DEF CreditInv

----------------------------------------------------------------------------
(* The stream. *)

\* What the receiver has: written out, queued, posted, in hand and under way, one
\* behind the other.
TakenInv ==
  \E p, q, r, s \in 0 .. win.emitted :
    /\ sock.out = Numbers(1, p) /\ Chain(sock.queue, p, q) /\ Chain(Payloads(sock.posted), q, r)
    /\ r <= s /\ rx.bytes = Numbers(r + 1, s) /\ Chain(Payloads(net), s, win.emitted)

\* What the sender has: the FIFO, what is left of the backlog and the bytes in hand.
\* A read that found the backlog empty keeps it empty, and a flush holds a prefix.
SentInv ==
  /\ outb.fifo = Numbers(win.emitted + 1, win.sent)
  /\ \E t \in win.sent .. tcp.read :
       BacklogLeft = Numbers(win.sent + 1, t) /\ InHand = Numbers(t + 1, tcp.read)
  /\ tcp.pc \in {"reserve", "append", "insert"} => backlog.bytes = <<>>
  /\ ack.pc \in {"reserve", "append", "consume"} =>
       \E n \in 1 .. Len(backlog.bytes) : ack.chunk = SubSeq(backlog.bytes, 1, n)

\* The end of a socket's stream waits for its bytes.
EofInv ==
  /\ tcp.read <= Total
  /\ tcp.pc \in {"eof", "done"} => tcp.read = Total
  /\ backlog.eof => tcp.pc = "done"
  /\ outb.closing => tcp.pc = "done" /\ backlog.bytes = <<>>
  /\ ~outb.connected => outb.closing /\ outb.fifo = <<>>

\* The CLOSE is the last frame, and once it was taken nothing is under way.
CloseInv ==
  /\ rx # NoFrame => rx.kind = "DATA"
  /\ \A i \in 1 .. Len(net) : net[i].kind = "CLOSE" => i = Len(net) /\ ~outb.connected
  /\ \A i \in 1 .. Len(sock.posted) : sock.posted[i].kind = "CLOSE" =>
       /\ i = Len(sock.posted) /\ sock.posted[i].bytes = <<>>
       /\ net = <<>> /\ rx = NoFrame /\ ~outb.connected
  /\ sock.shut => sock.posted = <<>> /\ net = <<>> /\ rx = NoFrame /\ ~outb.connected
  /\ sock.fin => sock.shut /\ sock.queue = <<>>

\* The FIN is the only thing maybe_shutdown_send_locked() changes.
LEMMA ShutdownFields ==
  ASSUME NEW s \in ConnectionRecord
  PROVE  /\ MaybeShutdown(s).posted = s.posted /\ MaybeShutdown(s).queue = s.queue
         /\ MaybeShutdown(s).out = s.out /\ MaybeShutdown(s).shut = s.shut
         /\ MaybeShutdown(s).fin = (s.fin \/ (s.shut /\ s.queue = <<>>))
BY DEF MaybeShutdown, ConnectionRecord

\* send_ack() leaves the connection's bytes alone.
LEMMA CreditSock ==
  ASSUME TypeOK, NEW c \in Creditors, CreditStep(c)
  PROVE  /\ sock'.posted = sock.posted /\ sock'.queue = sock.queue /\ sock'.out = sock.out
         /\ sock'.shut = sock.shut
         /\ sock'.fin => sock.fin \/ (sock.shut /\ sock.queue = <<>>)
         /\ UNCHANGED <<tcp, ack, win, backlog, outb, net, rx>>
<1>1. /\ sock' = sock \/ \E flushed \in BOOLEAN : sock' = AfterCredit(c, flushed)
      /\ UNCHANGED <<tcp, ack, win, backlog, outb, net, rx>>
  BY DEF CreditStep, TakeCredit, CreditSent, CreditFull, CreditFailed
<1>2. ASSUME NEW flushed \in BOOLEAN, sock' = AfterCredit(c, flushed), c = "strand"
      PROVE  /\ sock'.posted = sock.posted /\ sock'.queue = sock.queue /\ sock'.out = sock.out
             /\ sock'.shut = sock.shut
             /\ sock'.fin => sock.fin \/ (sock.shut /\ sock.queue = <<>>)
  <2> DEFINE t == [sock EXCEPT !.hit = @ /\ ~flushed]
  <2>1. /\ t \in ConnectionRecord /\ t.posted = sock.posted /\ t.queue = sock.queue
        /\ t.out = sock.out /\ t.shut = sock.shut /\ t.fin = sock.fin
    BY DEF TypeOK, ConnectionRecord
  <2>2. sock' = MaybeShutdown(t)
    BY <1>2 DEF AfterCredit
  <2> HIDE DEF t
  <2> QED BY <2>1, <2>2, ShutdownFields
<1>3. ASSUME NEW flushed \in BOOLEAN, sock' = AfterCredit(c, flushed), c # "strand"
      PROVE  sock' = sock
  BY <1>3 DEF AfterCredit
<1> QED BY <1>1, <1>2, <1>3

----------------------------------------------------------------------------
(* The receiver's part. *)

LEMMA TakenUntouched ==
  ASSUME TakenInv, sock'.out = sock.out, sock'.queue = sock.queue, sock'.posted = sock.posted,
         rx' = rx, net' = net, win'.emitted = win.emitted
  PROVE  TakenInv'
BY DEF TakenInv

\* The places between two of the parts, as numbers.
LEMMA TakenPick ==
  ASSUME TypeOK, TakenInv
  PROVE  \E p, q, r, s \in Nat :
           /\ sock.out = Numbers(0 + 1, p) /\ Chain(sock.queue, p, q)
           /\ Chain(Payloads(sock.posted), q, r)
           /\ p <= q /\ q <= r /\ r <= s /\ s <= win.emitted
           /\ rx.bytes = Numbers(r + 1, s) /\ Chain(Payloads(net), s, win.emitted)
           /\ (rx = NoFrame => r = s)
<1>1. PICK p, q, r, s \in 0 .. win.emitted :
        /\ sock.out = Numbers(1, p) /\ Chain(sock.queue, p, q) /\ Chain(Payloads(sock.posted), q, r)
        /\ r <= s /\ rx.bytes = Numbers(r + 1, s) /\ Chain(Payloads(net), s, win.emitted)
  BY DEF TakenInv
<1>2. p \in Nat /\ q \in Nat /\ r \in Nat /\ s \in Nat /\ win.emitted \in Nat /\ 0 + 1 = 1
  BY SenderFields
<1>3. /\ sock.queue \in Seq(Seq(Nat)) /\ Payloads(sock.posted) \in Seq(Seq(Nat))
      /\ Payloads(net) \in Seq(Seq(Nat))
  BY ReceiverFields, CreditTypes, FramesType
<1>4. p <= q /\ q <= r /\ s <= win.emitted
  BY <1>1, <1>2, <1>3, ChainBounds
<1>5. rx = NoFrame => r = s
  <2>1. HAVE rx = NoFrame
  <2>2. rx.bytes = <<>>
    BY <2>1 DEF NoFrame, Frame
  <2> QED BY <2>2, <1>1, <1>2, NumbersNone
<1> QED BY <1>1, <1>2, <1>4, <1>5

\* The other way round.
LEMMA TakenFrom ==
  ASSUME TypeOK', NEW p \in Nat, NEW q \in Nat, NEW r \in Nat, NEW s \in Nat,
         sock'.out = Numbers(0 + 1, p), Chain(sock'.queue, p, q), Chain(Payloads(sock'.posted), q, r),
         r <= s, rx'.bytes = Numbers(r + 1, s), Chain(Payloads(net'), s, win'.emitted)
  PROVE  TakenInv'
<1>1. /\ sock'.queue \in Seq(Seq(Nat)) /\ sock'.posted \in Seq(Frames) /\ net' \in Seq(Frames)
      /\ win'.emitted \in Nat
  BY DEF TypeOK, ConnectionRecord, WindowRecord
<1>2. Payloads(sock'.posted) \in Seq(Seq(Nat)) /\ Payloads(net') \in Seq(Seq(Nat))
  BY <1>1, FramesType
<1>3. p <= q
  BY <1>1, ChainBounds
<1>4. q <= r
  BY <1>2, ChainBounds
<1>5. s <= win'.emitted
  BY <1>1, <1>2, ChainBounds
<1> DEFINE m == win'.emitted
<1>6. m \in Nat /\ s <= m
  BY <1>1, <1>5
<1> HIDE DEF m
<1>7. p \in 0 .. m /\ q \in 0 .. m /\ r \in 0 .. m /\ s \in 0 .. m /\ 0 + 1 = 1
  BY <1>3, <1>4, <1>6
<1>8. \E pp, qq, rr, ss \in 0 .. m :
        /\ sock'.out = Numbers(1, pp) /\ Chain(sock'.queue, pp, qq)
        /\ Chain(Payloads(sock'.posted), qq, rr)
        /\ rr <= ss /\ rx'.bytes = Numbers(rr + 1, ss) /\ Chain(Payloads(net'), ss, m)
  <2> USE <1>7
  <2> WITNESS p \in 0 .. m, q \in 0 .. m, r \in 0 .. m, s \in 0 .. m
  <2> QED BY <1>7 DEF m
<1> QED BY <1>8 DEF TakenInv, m

LEMMA DriverTaken == ASSUME TypeOK, TypeOK', WindowInv, TakenInv, SentInv, DriverStep PROVE TakenInv'
<1>1. PICK p, q, r, s \in Nat :
           /\ sock.out = Numbers(0 + 1, p) /\ Chain(sock.queue, p, q)
           /\ Chain(Payloads(sock.posted), q, r)
           /\ p <= q /\ q <= r /\ r <= s /\ s <= win.emitted
           /\ rx.bytes = Numbers(r + 1, s) /\ Chain(Payloads(net), s, win.emitted)
  BY TakenPick
<1>2. net \in Seq(Frames) /\ Payloads(net) \in Seq(Seq(Nat)) /\ win.emitted \in Nat /\ win.sent \in Nat
  BY CreditTypes, FramesType, SenderFields
<1>3. CASE EmitData
  <2> DEFINE n == Least(FrameCap, Len(outb.fifo))
             b == SubSeq(outb.fifo, 1, n)
             f == Frame("DATA", b)
  <2>1. n \in Nat /\ n <= Len(outb.fifo)
    BY LeastType, LimitAssumption, SenderFields
  <2>2. b \in Seq(Nat)
    BY <2>1, PrefixType, SenderFields
  <2>3. f \in Frames /\ f.bytes = b
    BY <2>2 DEF Frame, Frames
  <2>4. win'.emitted = win.emitted + n
    BY <1>3 DEF EmitData, TypeOK, WindowRecord
  <2>5. net' = Append(net, f) /\ UNCHANGED <<rx, sock>>
    BY <1>3 DEF EmitData
  <2>6. win.emitted <= win.sent /\ n \in 0 .. (win.sent - win.emitted)
    BY <1>2, <2>1, SenderFields DEF WindowInv, WindowAccount
  <2>7. b = Numbers(win.emitted + 1, win.emitted + n)
    <3> DEFINE e == win.emitted
               l == win.sent
    <3>1. outb.fifo = Numbers(e + 1, l)
      BY DEF SentInv
    <3>2. e \in Nat /\ l \in Nat /\ e <= l /\ n \in 0 .. (l - e)
      BY <1>2, <2>6
    <3> HIDE DEF e, l, n
    <3>3. SubSeq(Numbers(e + 1, l), 1, n) = Numbers(e + 1, e + n)
      BY <3>2, NumbersSplit
    <3> QED BY <3>1, <3>3 DEF e, l
  <2> HIDE DEF n, b, f
  <2>8. Payloads(net') = Append(Payloads(net), b)
    BY <1>2, <2>3, <2>5, FramesAppend
  <2>9. win.emitted + n \in Nat /\ win.emitted <= win.emitted + n
    BY <1>2, <2>1
  <2>10. Chain(Append(Payloads(net), Numbers(win.emitted + 1, win.emitted + n)), s, win.emitted + n)
    BY <1>1, <1>2, <2>9, ChainAppend
  <2>11. Chain(Payloads(net'), s, win'.emitted)
    BY <2>4, <2>7, <2>8, <2>10
  <2> QED BY <1>1, <2>5, <2>11, TakenFrom
<1>4. CASE EmitClose
  <2> DEFINE f == Frame("CLOSE", <<>>)
  <2>1. f \in Frames /\ f.bytes = <<>>
    BY DEF Frame, Frames
  <2>2. net' = Append(net, f) /\ UNCHANGED <<rx, sock, win>>
    BY <1>4 DEF EmitClose
  <2> HIDE DEF f
  <2>3. Payloads(net') = Append(Payloads(net), <<>>)
    BY <1>2, <2>1, <2>2, FramesAppend
  <2>4. Numbers(win.emitted + 1, win.emitted) = <<>>
    BY <1>2, NumbersEmpty
  <2>5. Chain(Append(Payloads(net), Numbers(win.emitted + 1, win.emitted)), s, win.emitted)
    BY <1>1, <1>2, ChainAppend
  <2>6. Chain(Payloads(net'), s, win'.emitted)
    BY <2>2, <2>3, <2>4, <2>5
  <2> QED BY <1>1, <2>2, <2>6, TakenFrom
<1> QED BY <1>3, <1>4 DEF DriverStep

LEMMA ReceiverTaken == ASSUME TypeOK, TypeOK', TakenInv, ReceiverStep PROVE TakenInv'
<1>1. PICK p, q, r, s \in Nat :
           /\ sock.out = Numbers(0 + 1, p) /\ Chain(sock.queue, p, q)
           /\ Chain(Payloads(sock.posted), q, r)
           /\ p <= q /\ q <= r /\ r <= s /\ s <= win.emitted
           /\ rx.bytes = Numbers(r + 1, s) /\ Chain(Payloads(net), s, win.emitted)
           /\ (rx = NoFrame => r = s)
  BY TakenPick
<1>2. /\ net \in Seq(Frames) /\ Payloads(net) \in Seq(Seq(Nat)) /\ win.emitted \in Nat
      /\ sock.posted \in Seq(Frames) /\ Payloads(sock.posted) \in Seq(Seq(Nat))
  BY CreditTypes, FramesType, SenderFields, ReceiverFields
<1>3. ASSUME net # <<>>
      PROVE  \E m \in s .. win.emitted :
               Head(net).bytes = Numbers(s + 1, m) /\ Chain(Payloads(Tail(net)), m, win.emitted)
  <2>1. /\ Payloads(Tail(net)) = Tail(Payloads(net)) /\ Head(Payloads(net)) = Head(net).bytes
        /\ Payloads(net) # <<>>
    BY <1>2, <1>3, FramesTail
  <2>2. \E m \in s .. win.emitted :
          Head(Payloads(net)) = Numbers(s + 1, m) /\ Chain(Tail(Payloads(net)), m, win.emitted)
    BY <1>1, <1>2, <2>1, ChainTail
  <2> QED BY <2>1, <2>2
<1>4. NoFrame.bytes = <<>>
  BY DEF NoFrame, Frame
<1>5. CASE RxData
  <2>1. rx = NoFrame /\ net # <<>> /\ rx' = Head(net) /\ net' = Tail(net) /\ UNCHANGED <<sock, win>>
    BY <1>5 DEF RxData, RxFree
  <2>2. PICK m \in s .. win.emitted :
          Head(net).bytes = Numbers(s + 1, m) /\ Chain(Payloads(Tail(net)), m, win.emitted)
    BY <1>3, <2>1
  <2>3. m \in Nat /\ s <= m /\ r = s
    BY <1>1, <1>2, <2>1, <2>2
  <2> QED BY <1>1, <2>1, <2>2, <2>3, TakenFrom
<1>6. CASE WriteToTcp
  <2>1. /\ rx \in Frames /\ sock'.posted = Append(sock.posted, rx) /\ sock'.queue = sock.queue
        /\ sock'.out = sock.out /\ rx' = NoFrame /\ UNCHANGED <<net, win>>
    BY <1>6 DEF WriteToTcp, TypeOK, ConnectionRecord
  <2>2. Payloads(sock'.posted) = Append(Payloads(sock.posted), rx.bytes)
    BY <1>2, <2>1, FramesAppend
  <2>3. Chain(Append(Payloads(sock.posted), Numbers(r + 1, s)), q, s)
    BY <1>1, <1>2, ChainAppend
  <2>4. Chain(Payloads(sock'.posted), q, s)
    BY <1>1, <2>2, <2>3
  <2>5. rx'.bytes = Numbers(s + 1, s)
    BY <1>4, <2>1, NumbersEmpty
  <2>6. sock'.out = Numbers(0 + 1, p) /\ Chain(sock'.queue, p, q) /\ Chain(Payloads(net'), s, win'.emitted)
    BY <1>1, <2>1
  <2> QED BY <2>4, <2>5, <2>6, TakenFrom
<1>7. CASE RxClose
  <2>1. /\ rx = NoFrame /\ net # <<>> /\ net' = Tail(net) /\ UNCHANGED <<rx, win>>
        /\ sock'.posted = Append(sock.posted, Head(net)) /\ sock'.queue = sock.queue
        /\ sock'.out = sock.out
    BY <1>7 DEF RxClose, RxFree, TypeOK, ConnectionRecord
  <2>2. PICK m \in s .. win.emitted :
          Head(net).bytes = Numbers(s + 1, m) /\ Chain(Payloads(Tail(net)), m, win.emitted)
    BY <1>3, <2>1
  <2>3. m \in Nat /\ s <= m /\ r = s
    BY <1>1, <1>2, <2>1, <2>2
  <2>4. Head(net) \in Frames
    BY <1>2, <2>1, FramesTail
  <2>5. Payloads(sock'.posted) = Append(Payloads(sock.posted), Head(net).bytes)
    BY <1>2, <2>1, <2>4, FramesAppend
  <2>6. Chain(Append(Payloads(sock.posted), Numbers(s + 1, m)), q, m)
    BY <1>1, <1>2, <2>3, ChainAppend
  <2>7. Chain(Payloads(sock'.posted), q, m)
    BY <2>2, <2>5, <2>6
  <2>8. rx'.bytes = Numbers(m + 1, m)
    BY <1>4, <2>1, <2>3, NumbersEmpty
  <2>9. /\ sock'.out = Numbers(0 + 1, p) /\ Chain(sock'.queue, p, q)
        /\ Chain(Payloads(net'), m, win'.emitted)
    BY <1>1, <2>1, <2>2
  <2>10. m <= m
    BY <2>3
  <2> QED BY <2>3, <2>7, <2>8, <2>9, <2>10, TakenFrom
<1> QED BY <1>5, <1>6, <1>7 DEF ReceiverStep

LEMMA StrandTaken == ASSUME TypeOK, TypeOK', TakenInv, CloseInv, StrandStep PROVE TakenInv'
<1>1. PICK p, q, r, s \in Nat :
           /\ sock.out = Numbers(0 + 1, p) /\ Chain(sock.queue, p, q)
           /\ Chain(Payloads(sock.posted), q, r)
           /\ p <= q /\ q <= r /\ r <= s /\ s <= win.emitted
           /\ rx.bytes = Numbers(r + 1, s) /\ Chain(Payloads(net), s, win.emitted)
  BY TakenPick
<1>2. /\ sock.queue \in Seq(Seq(Nat)) /\ sock.posted \in Seq(Frames)
      /\ Payloads(sock.posted) \in Seq(Seq(Nat)) /\ sock \in ConnectionRecord
  BY FramesType, ReceiverFields DEF TypeOK
<1>3. CASE RunPosted
  <2> DEFINE f == Head(sock.posted)
             total == sock.bytes + Len(f.bytes)
             rest == [sock EXCEPT !.posted = Tail(@)]
  <2>1. sock.posted # <<>> /\ UNCHANGED <<rx, net, win>>
    BY <1>3 DEF RunPosted
  <2>2. sock' = IF f.kind = "CLOSE" THEN MaybeShutdown([rest EXCEPT !.shut = TRUE])
                ELSE IF sock.shut THEN rest
                ELSE [rest EXCEPT !.bytes = total, !.hit = @ \/ total >= WriteLimit,
                                  !.queue = Append(@, f.bytes)]
    BY <1>3 DEF RunPosted
  <2>3. /\ f \in Frames /\ Tail(sock.posted) \in Seq(Frames)
        /\ Payloads(Tail(sock.posted)) = Tail(Payloads(sock.posted))
        /\ Head(Payloads(sock.posted)) = f.bytes /\ Payloads(sock.posted) # <<>>
    BY <1>2, <2>1, FramesTail
  <2>4. PICK m \in q .. r : f.bytes = Numbers(q + 1, m) /\ Chain(Tail(Payloads(sock.posted)), m, r)
    BY <1>1, <1>2, <2>3, ChainTail
  <2>5. m \in Nat /\ q <= m
    BY <2>4
  <2>6. /\ rest \in ConnectionRecord /\ rest.posted = Tail(sock.posted) /\ rest.queue = sock.queue
        /\ rest.out = sock.out
    BY <1>2, <2>3 DEF ConnectionRecord
  <2>7. f = sock.posted[1] /\ 1 \in 1 .. Len(sock.posted)
    BY <1>2, <2>1, EmptySeq, LenProperties
  <2>8. ~sock.shut
    BY <2>1 DEF CloseInv
  <2> HIDE DEF f, total, rest
  <2>9. CASE f.kind = "CLOSE"
    <3> DEFINE shut == [rest EXCEPT !.shut = TRUE]
    <3>1. /\ shut \in ConnectionRecord /\ shut.posted = rest.posted /\ shut.queue = rest.queue
          /\ shut.out = rest.out
      BY <2>6 DEF ConnectionRecord
    <3>2. sock' = MaybeShutdown(shut)
      BY <2>2, <2>9
    <3> HIDE DEF shut
    <3>3. sock'.posted = Tail(sock.posted) /\ sock'.queue = sock.queue /\ sock'.out = sock.out
      BY <2>6, <3>1, <3>2, ShutdownFields
    <3>4. f.bytes = <<>>
      BY <2>7, <2>9 DEF CloseInv
    <3>5. q = m
      BY <2>4, <2>5, <3>4, NumbersNone
    <3>6. Chain(Payloads(sock'.posted), q, r)
      BY <2>3, <2>4, <3>3, <3>5
    <3> QED BY <1>1, <2>1, <3>3, <3>6, TakenFrom
  <2>10. CASE f.kind # "CLOSE"
    <3>1. sock' = [rest EXCEPT !.bytes = total, !.hit = @ \/ total >= WriteLimit,
                               !.queue = Append(@, f.bytes)]
      BY <2>2, <2>8, <2>10
    <3>2. sock'.posted = Tail(sock.posted) /\ sock'.queue = Append(sock.queue, f.bytes) /\ sock'.out = sock.out
      BY <2>6, <3>1 DEF ConnectionRecord
    <3>3. Chain(Append(sock.queue, Numbers(q + 1, m)), p, m)
      BY <1>1, <1>2, <2>5, ChainAppend
    <3>4. Chain(sock'.queue, p, m) /\ Chain(Payloads(sock'.posted), m, r)
      BY <2>3, <2>4, <3>2, <3>3
    <3> QED BY <1>1, <2>1, <2>5, <3>2, <3>4, TakenFrom
  <2> QED BY <2>9, <2>10
<1>4. CASE WriteCompletes
  <2> DEFINE left == sock.bytes - Len(Head(sock.queue))
             done == [sock EXCEPT !.bytes = left, !.queue = Tail(@), !.out = @ \o Head(sock.queue)]
  <2>1. sock.queue # <<>> /\ UNCHANGED <<rx, net, win>> /\ (sock' = done \/ sock' = MaybeShutdown(done))
    BY <1>4 DEF WriteCompletes
  <2>2. Head(sock.queue) \in Seq(Nat) /\ Tail(sock.queue) \in Seq(Seq(Nat))
    BY <1>2, <2>1, HeadTailProperties
  <2>3. left \in Int /\ sock.out \o Head(sock.queue) \in Seq(Nat)
    BY <2>2, LenProperties, ConcatProperties, ReceiverFields
  <2> HIDE DEF left
  <2>4. /\ done \in ConnectionRecord /\ done.posted = sock.posted /\ done.queue = Tail(sock.queue)
        /\ done.out = sock.out \o Head(sock.queue)
    BY <1>2, <2>2, <2>3 DEF ConnectionRecord
  <2> HIDE DEF done
  <2>5. /\ sock'.posted = sock.posted /\ sock'.queue = Tail(sock.queue)
        /\ sock'.out = sock.out \o Head(sock.queue)
    BY <2>1, <2>4, ShutdownFields
  <2>6. PICK m \in p .. q : Head(sock.queue) = Numbers(p + 1, m) /\ Chain(Tail(sock.queue), m, q)
    BY <1>1, <1>2, <2>1, ChainTail
  <2>7. m \in Nat /\ p <= m /\ 0 <= p
    BY <2>6
  <2>8. Numbers(0 + 1, p) \o Numbers(p + 1, m) = Numbers(0 + 1, m)
    BY <2>7, NumbersJoin
  <2>9. sock'.out = Numbers(0 + 1, m) /\ Chain(sock'.queue, m, q)
    BY <1>1, <2>5, <2>6, <2>8
  <2> QED BY <1>1, <2>1, <2>5, <2>7, <2>9, TakenFrom
<1> QED BY <1>3, <1>4 DEF StrandStep

LEMMA TakenInductive ==
  ASSUME TypeOK, TypeOK', WindowInv, TakenInv, SentInv, CloseInv, [Next]_vars
  PROVE  TakenInv'
<1>1. CASE SourceStep
  <2>1. UNCHANGED <<sock, rx, net>> /\ win'.emitted = win.emitted
    <3>1. CASE TcpReserve
      BY <3>1 DEF TcpReserve, TypeOK, WindowRecord
    <3>2. CASE TcpAppend
      BY <3>2 DEF TcpAppend, TypeOK, WindowRecord
    <3>3. CASE ~TcpReserve /\ ~TcpAppend
      BY <1>1, <3>3 DEF SourceStep, ReadCompletes, ReadEof, CheckBacklog, TcpInsert, TcpPause,
                        NextRead, PostedRead, SourceEof
    <3> QED BY <3>1, <3>2, <3>3
  <2> QED BY <2>1, TakenUntouched
<1>2. CASE AckStep
  <2>1. UNCHANGED <<sock, rx, net>> /\ win'.emitted = win.emitted
    <3>1. CASE ReleaseWindow
      BY <3>1 DEF ReleaseWindow, TypeOK, WindowRecord
    <3>2. CASE FlushReserve
      BY <3>2 DEF FlushReserve, TypeOK, WindowRecord
    <3>3. CASE FlushAppend
      BY <3>3 DEF FlushAppend, TypeOK, WindowRecord
    <3>4. CASE RxAck
      BY <3>4 DEF RxAck, TypeOK, WindowRecord
    <3>5. CASE ~ReleaseWindow /\ ~FlushReserve /\ ~FlushAppend /\ ~RxAck
      BY <1>2, <3>5 DEF AckStep, FlushBacklog, FlushConsume, ResumeRead, FinishEof
    <3> QED BY <3>1, <3>2, <3>3, <3>4, <3>5
  <2> QED BY <2>1, TakenUntouched
<1>3. CASE FireAckRetry \/ Rest \/ UNCHANGED vars
  <2>1. UNCHANGED <<sock, rx, net, win>>
    BY <1>3 DEF FireAckRetry, Rest, vars
  <2> QED BY <2>1, TakenUntouched
<1>4. CASE \E c \in Creditors : CreditStep(c)
  BY <1>4, CreditSock, TakenUntouched
<1> QED BY <1>1, <1>2, <1>3, <1>4, DriverTaken, ReceiverTaken, StrandTaken DEF Next

----------------------------------------------------------------------------
(* The sender's part. *)

LEMMA SentUntouched ==
  ASSUME SentInv, outb'.fifo = outb.fifo, win'.emitted = win.emitted, win'.sent = win.sent,
         tcp'.read = tcp.read, backlog'.bytes = backlog.bytes,
         InHand' = InHand, BacklogLeft' = BacklogLeft,
         tcp'.pc \in {"reserve", "append", "insert"} => tcp.pc \in {"reserve", "append", "insert"},
         ack'.pc \in {"reserve", "append", "consume"} =>
           ack.pc \in {"reserve", "append", "consume"} /\ ack'.chunk = ack.chunk
  PROVE  SentInv'
<1>1. /\ outb.fifo = Numbers(win.emitted + 1, win.sent)
      /\ \E t \in win.sent .. tcp.read :
           BacklogLeft = Numbers(win.sent + 1, t) /\ InHand = Numbers(t + 1, tcp.read)
      /\ tcp.pc \in {"reserve", "append", "insert"} => backlog.bytes = <<>>
      /\ ack.pc \in {"reserve", "append", "consume"} =>
           \E n \in 1 .. Len(backlog.bytes) : ack.chunk = SubSeq(backlog.bytes, 1, n)
  BY DEF SentInv
<1>2. (outb.fifo = Numbers(win.emitted + 1, win.sent))'
  BY <1>1
<1>3. (\E t \in win.sent .. tcp.read :
         BacklogLeft = Numbers(win.sent + 1, t) /\ InHand = Numbers(t + 1, tcp.read))'
  BY <1>1
<1>4. (tcp.pc \in {"reserve", "append", "insert"} => backlog.bytes = <<>>)'
  BY <1>1
<1>5. (ack.pc \in {"reserve", "append", "consume"} =>
         \E n \in 1 .. Len(backlog.bytes) : ack.chunk = SubSeq(backlog.bytes, 1, n))'
  BY <1>1
<1> QED BY <1>2, <1>3, <1>4, <1>5 DEF SentInv

\* What the sender has, in numbers: a flush holds a prefix, so an empty backlog
\* has no flush.
LEMMA SentPick ==
  ASSUME TypeOK, WindowInv, SentInv
  PROVE  /\ win.emitted \in Nat /\ win.sent \in Nat /\ tcp.read \in Nat /\ win.emitted <= win.sent
         /\ outb.fifo = Numbers(win.emitted + 1, win.sent)
         /\ \E t \in Nat : /\ win.sent <= t /\ t <= tcp.read
                           /\ BacklogLeft = Numbers(win.sent + 1, t) /\ InHand = Numbers(t + 1, tcp.read)
                           /\ InHand = <<>> => t = tcp.read
                           /\ BacklogLeft = <<>> => t = win.sent
         /\ backlog.bytes = <<>> =>
              ack.pc \notin {"reserve", "append", "consume"} /\ BacklogLeft = <<>>
<1>1. win.emitted \in Nat /\ win.sent \in Nat /\ tcp.read \in Nat /\ win.emitted <= win.sent
  BY SenderFields DEF WindowInv, WindowAccount
<1>2. PICK t \in win.sent .. tcp.read :
        BacklogLeft = Numbers(win.sent + 1, t) /\ InHand = Numbers(t + 1, tcp.read)
  BY DEF SentInv
<1>3. t \in Nat /\ win.sent <= t /\ t <= tcp.read
  BY <1>1, <1>2
<1>4. InHand = <<>> => t = tcp.read
  BY <1>1, <1>2, <1>3, NumbersNone
<1>5. BacklogLeft = <<>> => t = win.sent
  BY <1>1, <1>2, <1>3, NumbersNone
<1>6. ASSUME backlog.bytes = <<>>
      PROVE  ack.pc \notin {"reserve", "append", "consume"} /\ BacklogLeft = <<>>
  <2>1. Len(backlog.bytes) = 0
    BY <1>6
  <2>2. ack.pc \notin {"reserve", "append", "consume"}
    BY <2>1 DEF SentInv
  <2> QED BY <1>6, <2>2 DEF BacklogLeft
<1>7. outb.fifo = Numbers(win.emitted + 1, win.sent)
  BY DEF SentInv
<1> QED BY <1>1, <1>2, <1>3, <1>4, <1>5, <1>6, <1>7

\* Steps that move the source's place outside the stretch with bytes in hand.
LEMMA SourceIdle ==
  ASSUME TypeOK, SentInv, tcp.pc \notin {"check", "reserve", "append", "insert"},
         tcp'.pc \notin {"check", "reserve", "append", "insert"}, tcp'.read = tcp.read,
         backlog'.bytes = backlog.bytes, outb'.fifo = outb.fifo, ack' = ack, win' = win
  PROVE  SentInv'
<1>1. InHand' = InHand
  BY DEF InHand
<1>2. BacklogLeft' = BacklogLeft
  BY DEF BacklogLeft
<1> QED BY <1>1, <1>2, SentUntouched

\* Bytes behind a sequence leave a prefix of it and what is left behind that alone.
LEMMA BehindPrefix ==
  ASSUME NEW s \in Seq(Nat), NEW u \in Seq(Nat), NEW n \in 0 .. Len(s)
  PROVE  /\ SubSeq(s \o u, 1, n) = SubSeq(s, 1, n)
         /\ Drop(s \o u, n) = Drop(s, n) \o u
         /\ Len(s \o u) = Len(s) + Len(u)
<1> DEFINE k == Len(s)
           l == Len(u)
           v == s \o u
<1>1. /\ k \in Nat /\ l \in Nat /\ v \in Seq(Nat) /\ Len(v) = k + l
      /\ \A i \in 1 .. (k + l) : v[i] = IF i <= k THEN s[i] ELSE u[i - k]
  BY LenProperties, ConcatProperties
<1> HIDE DEF k, l, v
<1>2. n \in Nat /\ n <= k
  BY <1>1 DEF k
<1>3. SubSeq(v, 1, n) = SubSeq(s, 1, n)
  <2> DEFINE x == SubSeq(v, 1, n)
             y == SubSeq(s, 1, n)
  <2>1. x \in Seq(Nat) /\ Len(x) = n /\ \A i \in 1 .. n : x[i] = v[i]
    BY <1>1, <1>2
  <2>2. y \in Seq(Nat) /\ Len(y) = n /\ \A i \in 1 .. n : y[i] = s[i]
    BY <1>1, <1>2 DEF k
  <2>3. \A i \in 1 .. n : v[i] = s[i]
    BY <1>1, <1>2
  <2> HIDE DEF x, y
  <2>4. x = y
    BY <2>1, <2>2, <2>3, SeqEqual
  <2> QED BY <2>4 DEF x, y
<1>4. SubSeq(v, n + 1, k + l) = SubSeq(s, n + 1, k) \o u
  <2> DEFINE x == SubSeq(v, n + 1, k + l)
             y == SubSeq(s, n + 1, k)
             z == y \o u
  <2>1. x \in Seq(Nat) /\ Len(x) = (k - n) + l /\ \A i \in 1 .. ((k - n) + l) : x[i] = v[n + i]
    <3>1. \A i \in (n + 1) .. (k + l) : v[i] \in Nat
      BY <1>1, <1>2
    <3>2. /\ x \in Seq(Nat) /\ Len(x) = IF n + 1 <= k + l THEN (k + l) - (n + 1) + 1 ELSE 0
          /\ \A i \in 1 .. ((k + l) - (n + 1) + 1) : x[i] = v[n + 1 + i - 1]
      BY <1>1, <1>2, <3>1, SubSeqProperties
    <3> HIDE DEF x
    <3>3. (k + l) - (n + 1) + 1 = (k - n) + l /\ \A i \in 1 .. ((k - n) + l) : n + 1 + i - 1 = n + i
      BY <1>1, <1>2
    <3> QED BY <1>1, <1>2, <3>2, <3>3
  <2>2. y \in Seq(Nat) /\ Len(y) = k - n /\ \A i \in 1 .. (k - n) : y[i] = s[n + i]
    <3>1. \A i \in (n + 1) .. k : s[i] \in Nat
      BY <1>1, <1>2 DEF k
    <3>2. /\ y \in Seq(Nat) /\ Len(y) = IF n + 1 <= k THEN k - (n + 1) + 1 ELSE 0
          /\ \A i \in 1 .. (k - (n + 1) + 1) : y[i] = s[n + 1 + i - 1]
      BY <1>1, <1>2, <3>1, SubSeqProperties
    <3> HIDE DEF y
    <3>3. k - (n + 1) + 1 = k - n /\ \A i \in 1 .. (k - n) : n + 1 + i - 1 = n + i
      BY <1>1, <1>2
    <3> QED BY <1>1, <1>2, <3>2, <3>3
  <2> HIDE DEF x, y
  <2>3. /\ z \in Seq(Nat) /\ Len(z) = (k - n) + l
        /\ \A i \in 1 .. ((k - n) + l) : z[i] = IF i <= k - n THEN y[i] ELSE u[i - (k - n)]
    <3>1. /\ z \in Seq(Nat) /\ Len(z) = Len(y) + Len(u)
          /\ \A i \in 1 .. (Len(y) + Len(u)) : z[i] = IF i <= Len(y) THEN y[i] ELSE u[i - Len(y)]
      BY <2>2, ConcatProperties
    <3> HIDE DEF z
    <3> QED BY <3>1, <2>2 DEF l
  <2> HIDE DEF z
  <2>4. (k - n) + l = (k - n) + l
    BY <1>1, <1>2
  <2>5. ASSUME NEW i \in 1 .. ((k - n) + l) PROVE x[i] = z[i]
    <3>0. n + i \in 1 .. (k + l)
      BY <1>1, <1>2
    <3>1. n + i \in 1 .. (k + l) /\ x[i] = v[n + i]
      BY <2>1, <3>0
    <3>2. CASE i <= k - n
      <4>1. n + i <= k /\ i \in 1 .. (k - n)
        BY <3>2, <1>1, <1>2
      <4> QED BY <3>1, <3>2, <4>1, <1>1, <2>2, <2>3, <2>4
    <3>3. CASE ~(i <= k - n)
      <4>1. ~(n + i <= k) /\ (n + i) - k = i - (k - n)
        BY <3>3, <1>1, <1>2
      <4> QED BY <3>1, <3>3, <4>1, <1>1, <2>3, <2>4
    <3> QED BY <3>2, <3>3
  <2>6. x = z
    BY <2>1, <2>3, <2>4, <2>5, SeqEqual
  <2> QED BY <2>6 DEF x, y, z
<1>5. Drop(v, n) = Drop(s, n) \o u
  BY <1>1, <1>4 DEF Drop, k
<1> QED BY <1>1, <1>3, <1>5 DEF v, k, l

\* The new places of the sender's parts.
LEMMA SentFrom ==
  ASSUME TypeOK', NEW t \in Nat, win'.sent <= t, t <= tcp'.read,
         outb'.fifo = Numbers(win'.emitted + 1, win'.sent),
         BacklogLeft' = Numbers(win'.sent + 1, t), InHand' = Numbers(t + 1, tcp'.read),
         tcp'.pc \in {"reserve", "append", "insert"} => backlog'.bytes = <<>>,
         ack'.pc \in {"reserve", "append", "consume"} =>
           \E n \in 1 .. Len(backlog'.bytes) : ack'.chunk = SubSeq(backlog'.bytes, 1, n)
  PROVE  SentInv'
<1>1. win'.sent \in Nat /\ tcp'.read \in Nat
  BY DEF TypeOK, WindowRecord, SourceRecord
<1>2. t \in win'.sent .. tcp'.read
  BY <1>1
<1> QED BY <1>2 DEF SentInv

\* A read numbers the next bytes.
LEMMA ReadSent ==
  ASSUME TypeOK, TypeOK', WindowInv, SentInv, ReadCompletes
  PROVE  SentInv'
<1>1. PICK n \in ReadSizes :
        /\ tcp.read + n <= Total
        /\ tcp' = [tcp EXCEPT !.pc = "check", !.chunk = Numbers(tcp.read + 1, tcp.read + n),
                              !.read = @ + n]
  BY DEF ReadCompletes
<1>2. /\ tcp.pc = "reading" /\ tcp'.pc = "check" /\ tcp'.chunk = Numbers(tcp.read + 1, tcp.read + n)
      /\ tcp'.read = tcp.read + n /\ UNCHANGED <<ack, win, backlog, outb>>
  BY <1>1 DEF ReadCompletes, TypeOK, SourceRecord
<1>3. InHand = <<>> /\ InHand' = Numbers(tcp.read + 1, tcp'.read) /\ BacklogLeft' = BacklogLeft
  BY <1>2 DEF InHand, BacklogLeft
<1>4. PICK t \in Nat : /\ win.sent <= t /\ t <= tcp.read
                       /\ BacklogLeft = Numbers(win.sent + 1, t) /\ InHand = Numbers(t + 1, tcp.read)
                       /\ InHand = <<>> => t = tcp.read
  BY SentPick
<1>5. t = tcp.read
  BY <1>3, <1>4
<1>6. t <= tcp'.read
  <2>1. n \in Nat /\ tcp.read \in Nat
    BY ReadAssumption, SenderFields
  <2> QED BY <1>2, <1>5, <2>1
<1> QED BY <1>2, <1>3, <1>4, <1>5, <1>6, SentFrom DEF SentInv

\* Behind a backlog the bytes join it; a flush's prefix stays one.
LEMMA CheckSent ==
  ASSUME TypeOK, TypeOK', WindowInv, SentInv, EofInv, CheckBacklog
  PROVE  SentInv'
<1>1. tcp.pc = "check" /\ UNCHANGED <<ack, win, outb>>
  BY DEF CheckBacklog
<1>2. outb.connected
  BY <1>1 DEF EofInv
<1>3. CASE backlog.bytes = <<>>
  <2>1. backlog' = backlog /\ tcp' = [tcp EXCEPT !.pc = "reserve"]
    BY <1>2, <1>3 DEF CheckBacklog
  <2>2. tcp'.pc = "reserve" /\ tcp'.read = tcp.read /\ tcp'.chunk = tcp.chunk
    BY <2>1 DEF TypeOK, SourceRecord
  <2>3. InHand' = InHand /\ BacklogLeft' = BacklogLeft
    BY <1>1, <2>1, <2>2 DEF InHand, BacklogLeft
  <2>4. PICK t \in Nat : /\ win.sent <= t /\ t <= tcp.read
                         /\ BacklogLeft = Numbers(win.sent + 1, t) /\ InHand = Numbers(t + 1, tcp.read)
    BY SentPick
  <2> QED BY <1>1, <1>3, <2>1, <2>2, <2>3, <2>4, SentFrom DEF SentInv
<1>4. CASE backlog.bytes # <<>>
  <2> DEFINE s == backlog.bytes
             u == tcp.chunk
  <2>1. /\ backlog' = [backlog EXCEPT !.bytes = @ \o tcp.chunk]
        /\ tcp' = [tcp EXCEPT !.pc = "loop", !.paused = @ \/ Socket]
    BY <1>2, <1>4 DEF CheckBacklog
  <2>2. tcp'.pc = "loop" /\ tcp'.read = tcp.read /\ backlog'.bytes = s \o u
    BY <2>1 DEF TypeOK, SourceRecord, BacklogRecord
  <2>3. InHand = u /\ InHand' = <<>>
    BY <1>1, <2>2 DEF InHand
  <2>4. s \in Seq(Nat) /\ u \in Seq(Nat) /\ Len(s) \in Nat /\ Len(u) \in Nat
    BY SenderFields
  <2> HIDE DEF s, u
  <2>5. ack.pc \in {"reserve", "append", "consume"} =>
          \E n \in 1 .. Len(s) : ack.chunk = SubSeq(s, 1, n)
    BY DEF SentInv, s
  <2>6. BacklogLeft' = BacklogLeft \o u
    <3>1. CASE ack.pc = "consume"
      <4>1. PICK n \in 1 .. Len(s) : ack.chunk = SubSeq(s, 1, n)
        BY <3>1, <2>5
      <4>2. n \in 0 .. Len(s) /\ Len(ack.chunk) = n
        BY <2>4, <4>1
      <4>3. Drop(s \o u, n) = Drop(s, n) \o u
        BY <2>4, <4>2, BehindPrefix
      <4>4. BacklogLeft' = Drop(s \o u, n) /\ BacklogLeft = Drop(s, n)
        BY <1>1, <2>2, <3>1, <4>2 DEF BacklogLeft, s
      <4> QED BY <4>3, <4>4
    <3>2. CASE ack.pc # "consume"
      BY <1>1, <2>2, <3>2 DEF BacklogLeft, s
    <3> QED BY <3>1, <3>2
  <2>7. PICK t \in Nat : /\ win.sent <= t /\ t <= tcp.read
                         /\ BacklogLeft = Numbers(win.sent + 1, t) /\ InHand = Numbers(t + 1, tcp.read)
    BY SentPick
  <2>8. win.sent \in Nat /\ tcp.read \in Nat /\ win.sent <= tcp.read /\ tcp.read <= tcp.read
    BY <2>7, SenderFields
  <2>9. BacklogLeft' = Numbers(win.sent + 1, tcp.read)
    <3>1. Numbers(win.sent + 1, t) \o Numbers(t + 1, tcp.read) = Numbers(win.sent + 1, tcp.read)
      BY <2>7, <2>8, NumbersJoin
    <3> QED BY <2>3, <2>6, <2>7, <3>1
  <2>10. InHand' = Numbers(tcp.read + 1, tcp.read)
    BY <2>3, <2>8, NumbersEmpty
  <2>11. ASSUME ack'.pc \in {"reserve", "append", "consume"}
         PROVE  \E n \in 1 .. Len(backlog'.bytes) : ack'.chunk = SubSeq(backlog'.bytes, 1, n)
    <3>1. PICK n \in 1 .. Len(s) : ack.chunk = SubSeq(s, 1, n)
      BY <1>1, <2>5, <2>11
    <3>2. n \in 0 .. Len(s)
      BY <3>1, <2>4
    <3>3. SubSeq(s \o u, 1, n) = SubSeq(s, 1, n) /\ Len(s \o u) = Len(s) + Len(u)
      BY <2>4, <3>2, BehindPrefix
    <3>4. n \in 1 .. Len(s \o u)
      BY <2>4, <3>3
    <3> QED BY <1>1, <2>2, <3>1, <3>3, <3>4
  <2>12. tcp'.pc \notin {"reserve", "append", "insert"}
    BY <2>2
  <2>13. outb'.fifo = Numbers(win'.emitted + 1, win'.sent)
    BY <1>1 DEF SentInv
  <2>14. win'.sent = win.sent /\ tcp'.read = tcp.read
    BY <1>1, <2>2
  <2> QED BY <2>8, <2>9, <2>10, <2>11, <2>12, <2>13, <2>14, SentFrom
<1> QED BY <1>3, <1>4

\* Admitted bytes go to the end of the FIFO: nothing is in front of them.
LEMMA AppendSent ==
  ASSUME TypeOK, TypeOK', WindowInv, SentInv, TcpAppend
  PROVE  SentInv'
<1>1. tcp.pc = "append" /\ UNCHANGED <<ack, backlog>>
  BY DEF TcpAppend
<1>2. tcp'.pc = "loop" /\ tcp'.read = tcp.read
  BY DEF TcpAppend, TypeOK, SourceRecord
<1>3. win'.sent = win.sent + Len(tcp.chunk) /\ win'.emitted = win.emitted
  BY DEF TcpAppend, TypeOK, WindowRecord
<1>4. outb'.fifo = outb.fifo \o tcp.chunk
  BY DEF TcpAppend, TypeOK, OutboundRecord
<1>5. backlog.bytes = <<>>
  BY <1>1 DEF SentInv
<1>6. InHand = tcp.chunk /\ InHand' = <<>>
  BY <1>1, <1>2 DEF InHand
<1>7. /\ win.emitted \in Nat /\ win.sent \in Nat /\ tcp.read \in Nat /\ win.emitted <= win.sent
      /\ outb.fifo = Numbers(win.emitted + 1, win.sent)
      /\ ack.pc \notin {"reserve", "append", "consume"} /\ BacklogLeft = <<>>
  BY <1>5, SentPick
<1>8. PICK t \in Nat : /\ win.sent <= t /\ t <= tcp.read
                       /\ BacklogLeft = Numbers(win.sent + 1, t) /\ InHand = Numbers(t + 1, tcp.read)
                       /\ BacklogLeft = <<>> => t = win.sent
  BY SentPick
<1>9. t = win.sent
  BY <1>7, <1>8
<1>10. Numbers(win.emitted + 1, win.sent) \o Numbers(win.sent + 1, tcp.read)
         = Numbers(win.emitted + 1, tcp.read)
  BY <1>7, <1>8, <1>9, NumbersJoin
<1>11. Len(tcp.chunk) = tcp.read - win.sent
  <2> DEFINE a == win.sent
             b == tcp.read
  <2>1. a \in Nat /\ b \in Nat /\ a <= b /\ tcp.chunk = Numbers(a + 1, b)
    BY <1>6, <1>7, <1>8, <1>9
  <2> HIDE DEF a, b
  <2>2. Len(Numbers(a + 1, b)) = b - a
    BY <2>1, NumbersShape
  <2>3. Len(tcp.chunk) = b - a
    BY <2>1, <2>2
  <2> QED BY <2>3 DEF a, b
<1>12. win'.sent = tcp.read
  BY <1>3, <1>7, <1>11
<1>13. outb'.fifo = Numbers(win'.emitted + 1, win'.sent)
  BY <1>3, <1>4, <1>6, <1>7, <1>8, <1>9, <1>10, <1>12
<1>14. BacklogLeft' = <<>>
  BY <1>1, <1>7 DEF BacklogLeft
<1>15. Numbers(tcp.read + 1, tcp.read) = <<>> /\ tcp.read <= tcp.read
  <2> DEFINE b == tcp.read
  <2>1. b \in Nat
    BY <1>7
  <2> HIDE DEF b
  <2>2. Numbers(b + 1, b) = <<>>
    BY <2>1, NumbersEmpty
  <2>3. b <= b
    BY <2>1
  <2> QED BY <2>2, <2>3 DEF b
<1>16. tcp'.pc \notin {"reserve", "append", "insert"} /\ ack'.pc \notin {"reserve", "append", "consume"}
  BY <1>1, <1>2, <1>7
<1> QED BY <1>2, <1>6, <1>7, <1>12, <1>13, <1>14, <1>15, <1>16, SentFrom

\* Refused bytes become the backlog, which was empty.
LEMMA InsertSent ==
  ASSUME TypeOK, TypeOK', WindowInv, SentInv, TcpInsert
  PROVE  SentInv'
<1>1. tcp.pc = "insert" /\ UNCHANGED <<ack, win, outb>>
  BY DEF TcpInsert
<1>2. tcp'.pc \notin {"check", "reserve", "append", "insert"} /\ tcp'.read = tcp.read
  BY DEF TcpInsert, TypeOK, SourceRecord
<1>3. backlog'.bytes = backlog.bytes \o tcp.chunk
  BY DEF TcpInsert, TypeOK, BacklogRecord
<1>4. backlog.bytes = <<>>
  BY <1>1 DEF SentInv
<1>5. backlog'.bytes = tcp.chunk
  BY <1>3, <1>4, SenderFields, ConcatEmptySeq
<1>6. InHand = tcp.chunk /\ InHand' = <<>>
  BY <1>1, <1>2 DEF InHand
<1>7. /\ win.sent \in Nat /\ tcp.read \in Nat
      /\ outb.fifo = Numbers(win.emitted + 1, win.sent)
      /\ ack.pc \notin {"reserve", "append", "consume"} /\ BacklogLeft = <<>>
  BY <1>4, SentPick
<1>8. PICK t \in Nat : /\ win.sent <= t /\ t <= tcp.read
                       /\ BacklogLeft = Numbers(win.sent + 1, t) /\ InHand = Numbers(t + 1, tcp.read)
                       /\ BacklogLeft = <<>> => t = win.sent
  BY SentPick
<1>9. t = win.sent
  BY <1>7, <1>8
<1>10. BacklogLeft' = Numbers(win.sent + 1, tcp.read)
  <2>1. BacklogLeft' = backlog'.bytes
    BY <1>1, <1>7 DEF BacklogLeft
  <2> QED BY <1>5, <1>6, <1>8, <1>9, <2>1
<1>11. Numbers(tcp.read + 1, tcp.read) = <<>> /\ tcp.read <= tcp.read /\ win.sent <= tcp.read
  <2> DEFINE b == tcp.read
  <2>1. b \in Nat /\ win.sent <= b
    BY <1>7, <1>8, <1>9
  <2> HIDE DEF b
  <2>2. Numbers(b + 1, b) = <<>>
    BY <2>1, NumbersEmpty
  <2>3. b <= b
    BY <2>1
  <2> QED BY <2>1, <2>2, <2>3 DEF b
<1>12. outb'.fifo = Numbers(win'.emitted + 1, win'.sent) /\ win'.sent = win.sent
  BY <1>1, <1>7
<1>13. tcp'.pc \notin {"reserve", "append", "insert"} /\ ack'.pc \notin {"reserve", "append", "consume"}
  BY <1>1, <1>2, <1>7
<1> QED BY <1>2, <1>6, <1>7, <1>10, <1>11, <1>12, <1>13, SentFrom

LEMMA SourceSent ==
  ASSUME TypeOK, TypeOK', WindowInv, SentInv, EofInv, SourceStep
  PROVE  SentInv'
<1>1. CASE ReadEof
  <2>1. /\ tcp.pc = "reading" /\ tcp'.pc = "eof" /\ tcp'.read = tcp.read
        /\ UNCHANGED <<ack, win, backlog, outb>>
    BY <1>1 DEF ReadEof, TypeOK, SourceRecord
  <2> QED BY <2>1, SourceIdle
<1>2. CASE TcpReserve
  <2>1. /\ tcp.pc = "reserve" /\ tcp'.pc \in {"append", "insert"} /\ tcp'.read = tcp.read
        /\ tcp'.chunk = tcp.chunk /\ UNCHANGED <<ack, backlog, outb>>
    BY <1>2 DEF TcpReserve, TypeOK, SourceRecord
  <2>2. win'.emitted = win.emitted /\ win'.sent = win.sent
    BY <1>2 DEF TcpReserve, TypeOK, WindowRecord
  <2>3. InHand' = InHand /\ BacklogLeft' = BacklogLeft
    BY <2>1 DEF InHand, BacklogLeft
  <2> QED BY <2>1, <2>2, <2>3, SentUntouched
<1>3. CASE TcpPause
  <2>1. /\ tcp.pc = "pause" /\ tcp'.pc = "loop" /\ tcp'.read = tcp.read
        /\ UNCHANGED <<ack, win, backlog, outb>>
    BY <1>3 DEF TcpPause, TypeOK, SourceRecord
  <2> QED BY <2>1, SourceIdle
<1>4. CASE NextRead
  <2>1. /\ tcp.pc = "loop" /\ tcp'.pc \in {"idle", "reading"} /\ tcp'.read = tcp.read
        /\ UNCHANGED <<ack, win, backlog, outb>>
    BY <1>4 DEF NextRead, TypeOK, SourceRecord
  <2> QED BY <2>1, SourceIdle
<1>5. CASE PostedRead
  <2>1. /\ tcp.pc \in {"idle", "reading", "done"} /\ tcp'.pc \in {"idle", "reading", "done"}
        /\ tcp'.read = tcp.read /\ UNCHANGED <<ack, win, backlog, outb>>
    BY <1>5 DEF PostedRead, TypeOK, SourceRecord
  <2> QED BY <2>1, SourceIdle
<1>6. CASE SourceEof
  <2>1. tcp.pc = "eof" /\ tcp'.pc = "done" /\ tcp'.read = tcp.read /\ UNCHANGED <<ack, win>>
    BY <1>6 DEF SourceEof, TypeOK, SourceRecord
  <2>2. backlog'.bytes = backlog.bytes
    BY <1>6 DEF SourceEof, TypeOK, BacklogRecord
  <2>3. outb'.fifo = outb.fifo
    BY <1>6 DEF SourceEof, TypeOK, OutboundRecord
  <2> QED BY <2>1, <2>2, <2>3, SourceIdle
<1> QED BY <1>1, <1>2, <1>3, <1>4, <1>5, <1>6, ReadSent, CheckSent, AppendSent, InsertSent
        DEF SourceStep

LEMMA DriverSent == ASSUME TypeOK, TypeOK', WindowInv, SentInv, DriverStep PROVE SentInv'
<1>1. CASE EmitData
  <2> DEFINE n == Least(FrameCap, Len(outb.fifo))
             e == win.emitted
             l == win.sent
  <2>1. e \in Nat /\ l \in Nat /\ e <= l /\ outb.fifo = Numbers(e + 1, l)
    BY SentPick
  <2>2. n \in Nat /\ n <= Len(outb.fifo)
    BY LeastType, LimitAssumption, SenderFields
  <2>3. outb'.fifo = Drop(outb.fifo, n)
    BY <1>1 DEF EmitData, TypeOK, OutboundRecord
  <2>4. win'.emitted = e + n /\ win'.sent = l
    BY <1>1 DEF EmitData, TypeOK, WindowRecord
  <2>5. UNCHANGED <<tcp, ack, backlog>>
    BY <1>1 DEF EmitData
  <2> HIDE DEF n, e, l
  <2>6. Len(outb.fifo) = l - e
    BY <2>1, NumbersShape
  <2>7. n \in 0 .. (l - e)
    BY <2>2, <2>6
  <2>8. Drop(Numbers(e + 1, l), n) = Numbers(e + n + 1, l)
    BY <2>1, <2>7, NumbersSplit
  <2>9. outb'.fifo = Numbers(win'.emitted + 1, win'.sent)
    BY <2>1, <2>3, <2>4, <2>8
  <2>10. InHand' = InHand /\ BacklogLeft' = BacklogLeft
    BY <2>5 DEF InHand, BacklogLeft
  <2>11. PICK t \in Nat : /\ win.sent <= t /\ t <= tcp.read
                          /\ BacklogLeft = Numbers(win.sent + 1, t) /\ InHand = Numbers(t + 1, tcp.read)
    BY SentPick
  <2>12. win'.sent = win.sent
    BY <2>4 DEF l
  <2> QED BY <2>5, <2>9, <2>10, <2>11, <2>12, SentFrom DEF SentInv
<1>2. CASE EmitClose
  <2>1. outb'.fifo = outb.fifo /\ UNCHANGED <<tcp, ack, win, backlog>>
    BY <1>2 DEF EmitClose, TypeOK, OutboundRecord
  <2>2. InHand' = InHand /\ BacklogLeft' = BacklogLeft
    BY <2>1 DEF InHand, BacklogLeft
  <2> QED BY <2>1, <2>2, SentUntouched
<1> QED BY <1>1, <1>2 DEF DriverStep

\* The flush sends a prefix of the backlog and removes it afterwards.
LEMMA FlushSent ==
  ASSUME TypeOK, TypeOK', WindowInv, SentInv, FlushAppend \/ FlushConsume
  PROVE  SentInv'
<1> DEFINE s == backlog.bytes
<1>1. ack.pc \in {"append", "consume"} /\ tcp' = tcp
  BY DEF FlushAppend, FlushConsume
<1>2. s \in Seq(Nat) /\ Len(s) \in Nat
  BY SenderFields
<1>3. PICK n \in 1 .. Len(s) : ack.chunk = SubSeq(s, 1, n)
  BY <1>1 DEF SentInv
<1>4. Len(ack.chunk) = n /\ n \in 0 .. Len(s) /\ n \in Nat /\ s # <<>>
  <2>1. Len(SubSeq(s, 1, n)) = n
    BY <1>2, <1>3
  <2>2. n \in Nat /\ 1 <= Len(s)
    BY <1>2, <1>3
  <2>3. s # <<>>
    BY <2>2
  <2> QED BY <1>2, <1>3, <2>1, <2>2, <2>3
<1>5. tcp'.pc \notin {"reserve", "append", "insert"}
  BY <1>1, <1>4 DEF SentInv
<1>6. InHand' = InHand
  BY <1>1 DEF InHand
<1>7. /\ win.emitted \in Nat /\ win.sent \in Nat /\ tcp.read \in Nat /\ win.emitted <= win.sent
      /\ outb.fifo = Numbers(win.emitted + 1, win.sent)
  BY SentPick
<1>8. PICK t \in Nat : /\ win.sent <= t /\ t <= tcp.read
                       /\ BacklogLeft = Numbers(win.sent + 1, t) /\ InHand = Numbers(t + 1, tcp.read)
  BY SentPick
<1>9. CASE FlushAppend
  <2> DEFINE l == win.sent
             m == l + n
  <2>1. ack.pc = "append" /\ ack'.pc = "consume" /\ ack'.chunk = ack.chunk /\ backlog' = backlog
    BY <1>9 DEF FlushAppend, TypeOK, AckRecord
  <2>2. outb'.fifo = outb.fifo \o ack.chunk
    BY <1>9 DEF FlushAppend, TypeOK, OutboundRecord
  <2>3. win'.sent = m /\ win'.emitted = win.emitted
    BY <1>4, <1>9 DEF FlushAppend, TypeOK, WindowRecord
  <2>4. BacklogLeft = s /\ BacklogLeft' = Drop(s, n)
    BY <1>4, <2>1 DEF BacklogLeft
  <2>5. l \in Nat /\ l <= t /\ s = Numbers(l + 1, t)
    BY <1>7, <1>8, <2>4
  <2> HIDE DEF l, s
  <2>6. Len(s) = t - l
    BY <2>5, NumbersShape
  <2>7. n \in 0 .. (t - l) /\ m \in Nat /\ l <= m /\ m <= t
    BY <1>4, <2>5, <2>6
  <2>8. SubSeq(Numbers(l + 1, t), 1, n) = Numbers(l + 1, m) /\ Drop(Numbers(l + 1, t), n) = Numbers(m + 1, t)
    BY <2>5, <2>7, NumbersSplit
  <2> HIDE DEF m
  <2>9. Numbers(win.emitted + 1, l) \o Numbers(l + 1, m) = Numbers(win.emitted + 1, m)
    BY <1>7, <2>5, <2>7, NumbersJoin DEF l
  <2>10. outb'.fifo = Numbers(win'.emitted + 1, win'.sent)
    BY <1>3, <1>7, <2>2, <2>3, <2>5, <2>8, <2>9 DEF l
  <2>11. BacklogLeft' = Numbers(win'.sent + 1, t)
    BY <2>3, <2>4, <2>5, <2>8
  <2>12. \E k \in 1 .. Len(backlog'.bytes) : ack'.chunk = SubSeq(backlog'.bytes, 1, k)
    BY <1>3, <2>1 DEF s
  <2>13. win'.sent <= t /\ t <= tcp'.read /\ InHand' = Numbers(t + 1, tcp'.read)
    BY <1>1, <1>6, <1>8, <2>3, <2>7
  <2> QED BY <1>5, <2>10, <2>11, <2>12, <2>13, SentFrom
<1>10. CASE FlushConsume
  <2>1. ack.pc = "consume" /\ ack'.pc = "flush" /\ UNCHANGED <<win, outb>>
    BY <1>10 DEF FlushConsume, TypeOK, AckRecord
  <2>2. backlog'.bytes = Drop(s, Len(ack.chunk))
    BY <1>10 DEF FlushConsume, TypeOK, BacklogRecord
  <2>3. BacklogLeft' = BacklogLeft
    BY <2>1, <2>2 DEF BacklogLeft
  <2>4. ack'.pc \notin {"reserve", "append", "consume"}
    BY <2>1
  <2> QED BY <1>1, <1>5, <1>6, <1>7, <1>8, <2>1, <2>3, <2>4, SentFrom
<1> QED BY <1>9, <1>10

LEMMA AckSent == ASSUME TypeOK, TypeOK', WindowInv, SentInv, AckStep PROVE SentInv'
<1>1. CASE RxAck \/ ReleaseWindow \/ FlushReserve
  <2>1. /\ ack'.chunk = ack.chunk /\ UNCHANGED <<tcp, backlog, outb>>
        /\ ack.pc # "consume" /\ ack'.pc # "consume"
        /\ ack'.pc \in {"reserve", "append", "consume"} => ack.pc = "reserve"
    BY <1>1 DEF RxAck, ReleaseWindow, FlushReserve, TypeOK, AckRecord
  <2>2. win'.emitted = win.emitted /\ win'.sent = win.sent
    BY <1>1 DEF RxAck, ReleaseWindow, FlushReserve, TypeOK, WindowRecord
  <2>3. InHand' = InHand /\ BacklogLeft' = BacklogLeft
    BY <2>1 DEF InHand, BacklogLeft
  <2> QED BY <2>1, <2>2, <2>3, SentUntouched
<1>2. CASE ResumeRead \/ FinishEof
  <2>1. /\ ack.pc \in {"resume", "eof"} /\ ack'.pc \in {"idle", "eof"} /\ win' = win
    BY <1>2 DEF ResumeRead, FinishEof, TypeOK, AckRecord
  <2>2. tcp'.pc = tcp.pc /\ tcp'.read = tcp.read /\ tcp'.chunk = tcp.chunk
    BY <1>2 DEF ResumeRead, FinishEof, TypeOK, SourceRecord
  <2>3. backlog'.bytes = backlog.bytes
    BY <1>2 DEF ResumeRead, FinishEof, TypeOK, BacklogRecord
  <2>4. outb'.fifo = outb.fifo
    BY <1>2 DEF ResumeRead, FinishEof, TypeOK, OutboundRecord
  <2>5. InHand' = InHand
    BY <2>2 DEF InHand
  <2>6. BacklogLeft' = BacklogLeft
    BY <2>1, <2>3 DEF BacklogLeft
  <2> QED BY <2>1, <2>2, <2>3, <2>4, <2>5, <2>6, SentUntouched
<1>3. CASE FlushBacklog
  <2>1. ack.pc = "flush" /\ UNCHANGED <<tcp, win, backlog, outb>>
    BY <1>3 DEF FlushBacklog
  <2>2. ack'.pc # "consume"
    BY <1>3 DEF FlushBacklog, TypeOK, AckRecord
  <2>3. InHand' = InHand /\ BacklogLeft' = BacklogLeft
    BY <2>1, <2>2 DEF InHand, BacklogLeft
  <2>4. ASSUME ack'.pc \in {"reserve", "append", "consume"}
        PROVE  \E n \in 1 .. Len(backlog'.bytes) : ack'.chunk = SubSeq(backlog'.bytes, 1, n)
    <3> DEFINE n == Least(win.size - win.used, Len(backlog.bytes))
    <3>1. backlog.bytes # <<>> /\ ~(win.used >= win.size)
      BY <1>3, <2>4 DEF FlushBacklog, TypeOK, AckRecord
    <3>2. ack' = [ack EXCEPT !.pc = "reserve", !.chunk = SubSeq(backlog.bytes, 1, n)]
      BY <1>3, <3>1 DEF FlushBacklog
    <3>3. ack'.chunk = SubSeq(backlog.bytes, 1, n)
      BY <3>2 DEF TypeOK, AckRecord
    <3>4. /\ win.size \in Nat /\ win.used \in Nat /\ backlog.bytes \in Seq(Nat)
          /\ Len(backlog.bytes) \in Nat
      BY SenderFields
    <3>5. Len(backlog.bytes) # 0
      BY <3>1, <3>4, EmptySeq
    <3>6. n \in 1 .. Len(backlog.bytes)
      BY <3>1, <3>4, <3>5 DEF Least
    <3> HIDE DEF n
    <3> QED BY <2>1, <3>3, <3>6
  <2>5. PICK t \in Nat : /\ win.sent <= t /\ t <= tcp.read
                         /\ BacklogLeft = Numbers(win.sent + 1, t) /\ InHand = Numbers(t + 1, tcp.read)
    BY SentPick
  <2>6. /\ outb'.fifo = Numbers(win'.emitted + 1, win'.sent)
        /\ tcp'.pc \in {"reserve", "append", "insert"} => backlog'.bytes = <<>>
    BY <2>1 DEF SentInv
  <2> QED BY <2>1, <2>3, <2>4, <2>5, <2>6, SentFrom
<1> QED BY <1>1, <1>2, <1>3, FlushSent DEF AckStep

LEMMA SentInductive ==
  ASSUME TypeOK, TypeOK', WindowInv, SentInv, EofInv, [Next]_vars
  PROVE  SentInv'
<1>1. CASE \/ ReceiverStep \/ StrandStep \/ FireAckRetry \/ (\E c \in Creditors : CreditStep(c))
           \/ Rest \/ UNCHANGED vars
  <2>1. UNCHANGED <<tcp, ack, win, backlog, outb>>
    <3>1. CASE \E c \in Creditors : CreditStep(c)
      BY <3>1, CreditSock
    <3>2. CASE ~(\E c \in Creditors : CreditStep(c))
      BY <1>1, <3>2 DEF ReceiverStep, RxData, WriteToTcp, RxClose, StrandStep, RunPosted,
                        WriteCompletes, FireAckRetry, Rest, vars
    <3> QED BY <3>1, <3>2
  <2>2. InHand' = InHand /\ BacklogLeft' = BacklogLeft
    BY <2>1 DEF InHand, BacklogLeft
  <2> QED BY <2>1, <2>2, SentUntouched
<1> QED BY <1>1, SourceSent, DriverSent, AckSent DEF Next

----------------------------------------------------------------------------
(* The end of the stream. *)

\* Before the end nothing of it has been seen.
LEMMA EofAhead ==
  ASSUME EofInv, tcp.pc # "done", tcp'.pc # "done", tcp'.read <= Total,
         tcp'.pc = "eof" => tcp'.read = Total, backlog'.eof = backlog.eof,
         outb'.closing = outb.closing, outb'.connected = outb.connected
  PROVE  EofInv'
<1>1. ~backlog.eof /\ ~outb.closing /\ outb.connected
  BY DEF EofInv
<1>2. ~backlog'.eof /\ ~outb'.closing /\ outb'.connected
  BY <1>1
<1> QED BY <1>2 DEF EofInv

LEMMA EofUntouched ==
  ASSUME EofInv, tcp'.pc = tcp.pc, tcp'.read = tcp.read, backlog' = backlog, outb' = outb
  PROVE  EofInv'
BY DEF EofInv

LEMMA SourceEofStep == ASSUME TypeOK, TypeOK', EofInv, Socket, SourceStep PROVE EofInv'
<1>1. tcp.read <= Total
  BY DEF EofInv
<1>2. CASE ReadCompletes
  <2>1. /\ tcp.pc = "reading" /\ tcp'.pc = "check" /\ tcp'.read <= Total
        /\ UNCHANGED <<backlog, outb>>
    BY <1>2 DEF ReadCompletes, TypeOK, SourceRecord
  <2> QED BY <2>1, EofAhead
<1>3. CASE ReadEof
  <2>1. /\ tcp.pc = "reading" /\ tcp'.pc = "eof" /\ tcp'.read = tcp.read /\ tcp.read = Total
        /\ UNCHANGED <<backlog, outb>>
    BY <1>3 DEF ReadEof, TypeOK, SourceRecord
  <2> QED BY <1>1, <2>1, EofAhead
<1>4. CASE CheckBacklog
  <2>1. tcp.pc = "check" /\ tcp'.pc \in {"loop", "reserve"} /\ tcp'.read = tcp.read /\ outb' = outb
    BY <1>4 DEF CheckBacklog, TypeOK, SourceRecord
  <2>2. backlog'.eof = backlog.eof
    BY <1>4 DEF CheckBacklog, TypeOK, BacklogRecord
  <2> QED BY <1>1, <2>1, <2>2, EofAhead
<1>5. CASE TcpReserve
  <2>1. /\ tcp.pc = "reserve" /\ tcp'.pc \in {"append", "insert"} /\ tcp'.read = tcp.read
        /\ UNCHANGED <<backlog, outb>>
    BY <1>5 DEF TcpReserve, TypeOK, SourceRecord
  <2> QED BY <1>1, <2>1, EofAhead
<1>6. CASE TcpAppend
  <2>1. tcp.pc = "append" /\ tcp'.pc = "loop" /\ tcp'.read = tcp.read /\ backlog' = backlog
    BY <1>6 DEF TcpAppend, TypeOK, SourceRecord
  <2>2. outb'.closing = outb.closing /\ outb'.connected = outb.connected
    BY <1>6 DEF TcpAppend, TypeOK, OutboundRecord
  <2> QED BY <1>1, <2>1, <2>2, EofAhead
<1>7. CASE TcpInsert
  <2>1. tcp.pc = "insert" /\ tcp'.pc \in {"pause", "loop"} /\ tcp'.read = tcp.read /\ outb' = outb
    BY <1>7 DEF TcpInsert, TypeOK, SourceRecord
  <2>2. backlog'.eof = backlog.eof
    BY <1>7 DEF TcpInsert, TypeOK, BacklogRecord
  <2> QED BY <1>1, <2>1, <2>2, EofAhead
<1>8. CASE TcpPause \/ NextRead
  <2>1. /\ tcp.pc \in {"pause", "loop"} /\ tcp'.pc \in {"loop", "idle", "reading"}
        /\ tcp'.read = tcp.read /\ UNCHANGED <<backlog, outb>>
    BY <1>8 DEF TcpPause, NextRead, TypeOK, SourceRecord
  <2> QED BY <1>1, <2>1, EofAhead
<1>9. CASE PostedRead
  <2>1. /\ tcp.pc \in {"idle", "reading", "done"} /\ tcp'.read = tcp.read
        /\ tcp'.pc = IF tcp.pc = "idle" /\ ~tcp.paused THEN "reading" ELSE tcp.pc
        /\ UNCHANGED <<backlog, outb>>
    BY <1>9 DEF PostedRead, TypeOK, SourceRecord
  <2>2. CASE tcp.pc = "done"
    BY <2>1, <2>2, EofUntouched
  <2>3. CASE tcp.pc # "done"
    BY <1>1, <2>1, <2>3, EofAhead
  <2> QED BY <2>2, <2>3
<1>10. CASE SourceEof
  <2>1. tcp.pc = "eof" /\ tcp'.pc = "done" /\ tcp'.read = tcp.read
    BY <1>10 DEF SourceEof, TypeOK, SourceRecord
  <2>2. tcp.read = Total /\ ~backlog.eof /\ ~outb.closing /\ outb.connected
    BY <2>1 DEF EofInv
  <2>3. CASE backlog.bytes # <<>>
    <3>1. backlog' = [backlog EXCEPT !.eof = TRUE] /\ outb' = outb
      BY <1>10, <2>3 DEF SourceEof
    <3>2. ~outb'.closing /\ outb'.connected
      BY <2>2, <3>1
    <3> QED BY <1>1, <2>1, <2>2, <3>2 DEF EofInv
  <2>4. CASE backlog.bytes = <<>>
    <3>1. outb' = [outb EXCEPT !.closing = TRUE] /\ backlog' = backlog
      BY <1>10, <2>4 DEF SourceEof
    <3>2. outb'.connected
      BY <2>2, <3>1 DEF TypeOK, OutboundRecord
    <3>3. ~backlog'.eof /\ backlog'.bytes = <<>>
      BY <2>2, <2>4, <3>1
    <3> QED BY <1>1, <2>1, <2>2, <3>2, <3>3 DEF EofInv
  <2> QED BY <2>3, <2>4
<1> QED BY <1>2, <1>3, <1>4, <1>5, <1>6, <1>7, <1>8, <1>9, <1>10 DEF SourceStep

LEMMA DriverEof == ASSUME TypeOK, TypeOK', EofInv, DriverStep PROVE EofInv'
<1>1. CASE EmitData
  <2>1. outb.fifo # <<>> /\ UNCHANGED <<tcp, backlog>>
    BY <1>1 DEF EmitData
  <2>2. outb'.closing = outb.closing /\ outb'.connected = outb.connected
    BY <1>1 DEF EmitData, TypeOK, OutboundRecord
  <2>3. outb.connected
    BY <2>1 DEF EofInv
  <2>4. outb'.connected
    BY <2>2, <2>3
  <2> QED BY <2>1, <2>2, <2>4 DEF EofInv
<1>2. CASE EmitClose
  <2>1. outb.fifo = <<>> /\ outb.closing /\ UNCHANGED <<tcp, backlog>>
    BY <1>2 DEF EmitClose
  <2>2. outb'.closing = outb.closing /\ outb'.fifo = outb.fifo
    BY <1>2 DEF EmitClose, TypeOK, OutboundRecord
  <2>3. outb'.closing /\ outb'.fifo = <<>>
    BY <2>1, <2>2
  <2> QED BY <2>1, <2>2, <2>3 DEF EofInv
<1> QED BY <1>1, <1>2 DEF DriverStep

LEMMA AckEof == ASSUME TypeOK, TypeOK', SentInv, EofInv, AckStep PROVE EofInv'
<1>1. ASSUME ack.pc \in {"reserve", "append", "consume"}
      PROVE  backlog.bytes # <<>> /\ ~outb.closing /\ outb.connected
  <2>1. \E n \in 1 .. Len(backlog.bytes) : ack.chunk = SubSeq(backlog.bytes, 1, n)
    BY <1>1 DEF SentInv
  <2>2. backlog.bytes # <<>>
    BY <2>1
  <2> QED BY <2>2 DEF EofInv
<1>2. CASE RxAck \/ ReleaseWindow \/ FlushBacklog \/ FlushReserve
  <2>1. UNCHANGED <<tcp, backlog, outb>>
    BY <1>2 DEF RxAck, ReleaseWindow, FlushBacklog, FlushReserve
  <2> QED BY <2>1, EofUntouched
<1>3. CASE FlushAppend
  <2>1. ack.pc = "append" /\ UNCHANGED <<tcp, backlog>>
    BY <1>3 DEF FlushAppend
  <2>2. outb'.closing = outb.closing /\ outb'.connected = outb.connected
    BY <1>3 DEF FlushAppend, TypeOK, OutboundRecord
  <2>3. ~outb'.closing /\ outb'.connected
    BY <1>1, <2>1, <2>2
  <2> QED BY <2>1, <2>3 DEF EofInv
<1>4. CASE FlushConsume
  <2>1. ack.pc = "consume" /\ UNCHANGED <<tcp, outb>>
    BY <1>4 DEF FlushConsume
  <2>2. backlog'.eof = backlog.eof
    BY <1>4 DEF FlushConsume, TypeOK, BacklogRecord
  <2>3. ~outb'.closing /\ outb'.connected
    BY <1>1, <2>1
  <2> QED BY <2>1, <2>2, <2>3 DEF EofInv
<1>5. CASE ResumeRead
  <2>1. tcp'.pc = tcp.pc /\ tcp'.read = tcp.read /\ UNCHANGED <<backlog, outb>>
    BY <1>5 DEF ResumeRead, TypeOK, SourceRecord
  <2> QED BY <2>1, EofUntouched
<1>6. CASE FinishEof
  <2>1. tcp' = tcp
    BY <1>6 DEF FinishEof
  <2>2. CASE backlog.eof /\ backlog.bytes = <<>>
    <3>1. /\ backlog' = [backlog EXCEPT !.eof = FALSE] /\ outb' = [outb EXCEPT !.closing = TRUE]
      BY <1>6, <2>2 DEF FinishEof
    <3>2. tcp.pc = "done"
      BY <2>2 DEF EofInv
    <3>3. backlog'.bytes = <<>> /\ backlog'.eof = FALSE
      BY <2>2, <3>1 DEF TypeOK, BacklogRecord
    <3>4. outb'.closing = TRUE /\ outb'.connected = outb.connected /\ outb'.fifo = outb.fifo
      BY <3>1 DEF TypeOK, OutboundRecord
    <3> QED BY <2>1, <3>2, <3>3, <3>4 DEF EofInv
  <2>3. CASE ~(backlog.eof /\ backlog.bytes = <<>>)
    BY <1>6, <2>1, <2>3, EofUntouched DEF FinishEof
  <2> QED BY <2>2, <2>3
<1> QED BY <1>2, <1>3, <1>4, <1>5, <1>6 DEF AckStep

LEMMA EofInductive ==
  ASSUME TypeOK, TypeOK', SentInv, EofInv, Socket, [Next]_vars
  PROVE  EofInv'
<1>1. CASE \/ ReceiverStep \/ StrandStep \/ FireAckRetry \/ (\E c \in Creditors : CreditStep(c))
           \/ Rest \/ UNCHANGED vars
  <2>1. UNCHANGED <<tcp, backlog, outb>>
    <3>1. CASE \E c \in Creditors : CreditStep(c)
      BY <3>1, CreditSock
    <3>2. CASE ~(\E c \in Creditors : CreditStep(c))
      BY <1>1, <3>2 DEF ReceiverStep, RxData, WriteToTcp, RxClose, StrandStep, RunPosted,
                        WriteCompletes, FireAckRetry, Rest, vars
    <3> QED BY <3>1, <3>2
  <2> QED BY <2>1, EofUntouched
<1> QED BY <1>1, SourceEofStep, DriverEof, AckEof DEF Next

----------------------------------------------------------------------------
(* The CLOSE on its way. *)

\* The frames of a longer and of a shorter sequence.
LEMMA FrameOfAppend ==
  ASSUME NEW fs \in Seq(Frames), NEW f \in Frames, NEW i \in 1 .. Len(Append(fs, f))
  PROVE  \/ i \in 1 .. Len(fs) /\ Append(fs, f)[i] = fs[i]
         \/ i = Len(Append(fs, f)) /\ Append(fs, f)[i] = f
<1>1. Len(fs) \in Nat /\ Len(Append(fs, f)) = Len(fs) + 1
  BY AppendProperties, LenProperties
<1>2. i \in 1 .. Len(fs) \/ i = Len(fs) + 1
  BY <1>1
<1> QED BY <1>1, <1>2, AppendProperties

LEMMA FrameOfTail ==
  ASSUME NEW fs \in Seq(Frames), fs # <<>>, NEW i \in 1 .. Len(Tail(fs))
  PROVE  /\ i + 1 \in 1 .. Len(fs) /\ Tail(fs)[i] = fs[i + 1]
         /\ i + 1 = Len(fs) => i = Len(Tail(fs))
<1>1. Len(fs) \in Nat /\ Len(Tail(fs)) = Len(fs) - 1 /\ Tail(fs)[i] = fs[i + 1]
  BY HeadTailProperties, LenProperties
<1>2. i + 1 \in 1 .. Len(fs) /\ (i + 1 = Len(fs) => i = Len(Tail(fs)))
  <2> DEFINE l == Len(fs)
             t == Len(Tail(fs))
  <2>1. l \in Nat /\ t = l - 1 /\ i \in 1 .. t
    BY <1>1
  <2> HIDE DEF l, t
  <2>2. i + 1 \in 1 .. l /\ (i + 1 = l => i = t)
    BY <2>1
  <2> QED BY <2>2 DEF l, t
<1> QED BY <1>1, <1>2

LEMMA CloseUntouched ==
  ASSUME CloseInv, net' = net, rx' = rx, outb'.connected = outb.connected,
         sock'.posted = sock.posted, sock'.shut = sock.shut,
         sock'.fin => sock'.shut /\ sock'.queue = <<>>
  PROVE  CloseInv'
BY DEF CloseInv

\* While the tunnel is connected, or a frame is in front, no CLOSE was posted.
LEMMA NoCloseYet ==
  ASSUME CloseInv
  PROVE  /\ outb.connected => \A i \in 1 .. Len(net) : net[i].kind # "CLOSE"
         /\ (outb.connected \/ net # <<>> \/ rx # NoFrame) =>
              (\A i \in 1 .. Len(sock.posted) : sock.posted[i].kind # "CLOSE") /\ ~sock.shut /\ ~sock.fin
BY DEF CloseInv

LEMMA DriverClose == ASSUME TypeOK, TypeOK', EofInv, CloseInv, DriverStep PROVE CloseInv'
<1>1. outb.connected /\ UNCHANGED <<rx, sock>>
  <2>1. CASE EmitData
    BY <2>1 DEF EmitData, EofInv
  <2>2. CASE EmitClose
    BY <2>2 DEF EmitClose
  <2> QED BY <2>1, <2>2 DEF DriverStep
<1>2. /\ \A i \in 1 .. Len(net) : net[i].kind # "CLOSE"
      /\ \A i \in 1 .. Len(sock.posted) : sock.posted[i].kind # "CLOSE"
      /\ ~sock.shut /\ ~sock.fin /\ net \in Seq(Frames)
  BY <1>1, NoCloseYet DEF TypeOK
<1>3. /\ \A i \in 1 .. Len(sock'.posted) : sock'.posted[i].kind # "CLOSE"
      /\ ~sock'.shut /\ ~sock'.fin /\ (rx' # NoFrame => rx'.kind = "DATA")
  BY <1>1, <1>2 DEF CloseInv
<1>4. \A i \in 1 .. Len(net') : net'[i].kind = "CLOSE" => i = Len(net') /\ ~outb'.connected
  <2>1. CASE EmitData
    <3> DEFINE f == Frame("DATA", SubSeq(outb.fifo, 1, Least(FrameCap, Len(outb.fifo))))
    <3>1. f.kind = "DATA" /\ net' = Append(net, f)
      BY <2>1 DEF EmitData, Frame
    <3>2. f \in Frames
      <4>1. Least(FrameCap, Len(outb.fifo)) \in Nat /\ Least(FrameCap, Len(outb.fifo)) <= Len(outb.fifo)
        BY LeastType, LimitAssumption, SenderFields
      <4>2. SubSeq(outb.fifo, 1, Least(FrameCap, Len(outb.fifo))) \in Seq(Nat)
        BY <4>1, PrefixType, SenderFields
      <4> QED BY <4>2 DEF Frame, Frames
    <3> HIDE DEF f
    <3>3. TAKE i \in 1 .. Len(net')
    <3>4. net'[i].kind # "CLOSE"
      BY <1>2, <3>1, <3>2, FrameOfAppend
    <3> QED BY <3>4
  <2>2. CASE EmitClose
    <3> DEFINE f == Frame("CLOSE", <<>>)
    <3>1. f \in Frames /\ net' = Append(net, f) /\ outb' = [outb EXCEPT !.connected = FALSE]
      BY <2>2 DEF EmitClose, Frame, Frames
    <3>2. outb'.connected = FALSE
      BY <3>1 DEF TypeOK, OutboundRecord
    <3> HIDE DEF f
    <3>3. TAKE i \in 1 .. Len(net')
    <3>4. net'[i].kind = "CLOSE" => i = Len(net')
      BY <1>2, <3>1, FrameOfAppend
    <3> QED BY <3>2, <3>4
  <2> QED BY <2>1, <2>2 DEF DriverStep
<1> QED BY <1>3, <1>4 DEF CloseInv

LEMMA ReceiverClose == ASSUME TypeOK, TypeOK', CreditInv, CloseInv, ReceiverStep PROVE CloseInv'
<1>1. outb' = outb /\ net \in Seq(Frames) /\ sock.posted \in Seq(Frames)
  BY DEF ReceiverStep, RxData, WriteToTcp, RxClose, TypeOK, ConnectionRecord
<1>2. /\ \A i \in 1 .. Len(sock.posted) : sock.posted[i].kind # "CLOSE"
      /\ ~sock.shut /\ ~sock.fin
  BY NoCloseYet DEF ReceiverStep, RxData, WriteToTcp, RxClose
<1>3. /\ rx # NoFrame => rx.kind = "DATA"
      /\ \A i \in 1 .. Len(net) : net[i].kind = "CLOSE" => i = Len(net) /\ ~outb.connected
  BY DEF CloseInv
<1>4. ASSUME net # <<>>, NEW i \in 1 .. Len(Tail(net)), Tail(net)[i].kind = "CLOSE"
      PROVE  i = Len(Tail(net)) /\ ~outb.connected
  BY <1>1, <1>3, <1>4, FrameOfTail
<1>5. CASE RxData
  <2>1. /\ net # <<>> /\ Head(net).kind = "DATA" /\ rx' = Head(net) /\ net' = Tail(net) /\ sock' = sock
    BY <1>5 DEF RxData
  <2>2. \A i \in 1 .. Len(net') : net'[i].kind = "CLOSE" => i = Len(net') /\ ~outb'.connected
    BY <1>1, <1>4, <2>1
  <2>3. /\ \A i \in 1 .. Len(sock'.posted) : sock'.posted[i].kind # "CLOSE"
        /\ ~sock'.shut /\ ~sock'.fin
    BY <1>2, <2>1
  <2> QED BY <2>1, <2>2, <2>3 DEF CloseInv
<1>6. CASE WriteToTcp
  <2>1. /\ rx # NoFrame /\ rx' = NoFrame /\ net' = net /\ sock'.posted = Append(sock.posted, rx)
        /\ sock'.shut = sock.shut /\ sock'.fin = sock.fin
    BY <1>6 DEF WriteToTcp, TypeOK, ConnectionRecord
  <2>2. rx \in Frames
    BY <2>1 DEF TypeOK
  <2>3. ~sock'.shut /\ ~sock'.fin
    BY <1>2, <2>1
  <2>4. ASSUME NEW i \in 1 .. Len(sock'.posted) PROVE sock'.posted[i].kind # "CLOSE"
    BY <1>1, <1>2, <1>3, <2>1, <2>2, FrameOfAppend
  <2> QED BY <1>1, <1>3, <2>1, <2>3, <2>4 DEF CloseInv
<1>7. CASE RxClose
  <2>1. /\ rx = NoFrame /\ rx' = rx /\ net # <<>> /\ Head(net).kind = "CLOSE" /\ net' = Tail(net)
        /\ sock'.posted = Append(sock.posted, Head(net))
        /\ sock'.shut = sock.shut /\ sock'.fin = sock.fin
    BY <1>7 DEF RxClose, RxFree, TypeOK, ConnectionRecord
  <2>2. Head(net) = net[1] /\ 1 \in 1 .. Len(net) /\ Head(net) \in Frames
    BY <1>1, <2>1, EmptySeq, LenProperties, HeadTailProperties
  <2>3. 1 = Len(net) /\ ~outb.connected
    BY <1>3, <2>1, <2>2
  <2>4. Head(net).bytes = <<>>
    BY <2>1, <2>2 DEF CreditInv
  <2>5. net' = <<>>
    <3>1. Tail(net) \in Seq(Frames) /\ Len(Tail(net)) = 0
      BY <1>1, <2>1, <2>3, HeadTailProperties
    <3> QED BY <2>1, <3>1, EmptySeq
  <2>6. ~sock'.shut /\ ~sock'.fin
    BY <1>2, <2>1
  <2>7. ASSUME NEW i \in 1 .. Len(sock'.posted), sock'.posted[i].kind = "CLOSE"
        PROVE  i = Len(sock'.posted) /\ sock'.posted[i].bytes = <<>>
    BY <1>1, <1>2, <2>1, <2>2, <2>4, <2>7, FrameOfAppend
  <2>8. ~outb'.connected /\ rx' = NoFrame
    BY <1>1, <2>1, <2>3
  <2>9. \A i \in 1 .. Len(net') : FALSE
    BY <2>5
  <2> QED BY <2>5, <2>6, <2>7, <2>8, <2>9 DEF CloseInv
<1> QED BY <1>5, <1>6, <1>7 DEF ReceiverStep

LEMMA StrandClose == ASSUME TypeOK, TypeOK', CloseInv, StrandStep PROVE CloseInv'
<1>1. /\ UNCHANGED <<net, rx, outb>> /\ sock \in ConnectionRecord /\ sock.posted \in Seq(Frames)
      /\ sock.queue \in Seq(Seq(Nat))
  BY ReceiverFields DEF StrandStep, RunPosted, WriteCompletes, TypeOK
<1>2. /\ rx # NoFrame => rx.kind = "DATA"
      /\ \A i \in 1 .. Len(net) : net[i].kind = "CLOSE" => i = Len(net) /\ ~outb.connected
  BY DEF CloseInv
<1>3. /\ rx' # NoFrame => rx'.kind = "DATA"
      /\ \A i \in 1 .. Len(net') : net'[i].kind = "CLOSE" => i = Len(net') /\ ~outb'.connected
  BY <1>1, <1>2
<1>4. CASE RunPosted
  <2> DEFINE f == Head(sock.posted)
             total == sock.bytes + Len(f.bytes)
             rest == [sock EXCEPT !.posted = Tail(@)]
  <2>1. sock.posted # <<>>
    BY <1>4 DEF RunPosted
  <2>2. sock' = IF f.kind = "CLOSE" THEN MaybeShutdown([rest EXCEPT !.shut = TRUE])
                ELSE IF sock.shut THEN rest
                ELSE [rest EXCEPT !.bytes = total, !.hit = @ \/ total >= WriteLimit,
                                  !.queue = Append(@, f.bytes)]
    BY <1>4 DEF RunPosted
  <2>3. Tail(sock.posted) \in Seq(Frames) /\ f = sock.posted[1] /\ 1 \in 1 .. Len(sock.posted)
    BY <1>1, <2>1, EmptySeq, LenProperties, HeadTailProperties
  <2>4. /\ rest \in ConnectionRecord /\ rest.posted = Tail(sock.posted) /\ rest.queue = sock.queue
        /\ rest.fin = sock.fin /\ rest.shut = sock.shut
    BY <1>1, <2>3 DEF ConnectionRecord
  <2>5. ~sock.shut /\ ~sock.fin
    BY <2>1 DEF CloseInv
  <2> HIDE DEF f, total, rest
  <2>6. CASE f.kind = "CLOSE"
    <3> DEFINE shut == [rest EXCEPT !.shut = TRUE]
    <3>1. /\ shut \in ConnectionRecord /\ shut.posted = rest.posted /\ shut.queue = rest.queue
          /\ shut.fin = rest.fin /\ shut.shut = TRUE
      BY <2>4 DEF ConnectionRecord
    <3>2. sock' = MaybeShutdown(shut)
      BY <2>2, <2>6
    <3> HIDE DEF shut
    <3>3. /\ sock'.posted = Tail(sock.posted) /\ sock'.queue = sock.queue /\ sock'.shut = TRUE
          /\ sock'.fin => sock.queue = <<>>
      BY <2>4, <2>5, <3>1, <3>2, ShutdownFields
    <3>4. 1 = Len(sock.posted) /\ net = <<>> /\ rx = NoFrame /\ ~outb.connected
      BY <2>3, <2>6 DEF CloseInv
    <3>5. Len(Tail(sock.posted)) = 0
      BY <1>1, <2>1, <3>4, HeadTailProperties
    <3>6. sock'.posted = <<>>
      BY <2>3, <3>3, <3>5, EmptySeq
    <3>7. net' = <<>> /\ rx' = NoFrame /\ ~outb'.connected
      BY <1>1, <3>4
    <3>8. sock'.fin => sock'.shut /\ sock'.queue = <<>>
      BY <3>3
    <3>9. \A i \in 1 .. Len(sock'.posted) : FALSE
      BY <3>6
    <3> QED BY <1>3, <3>6, <3>7, <3>8, <3>9 DEF CloseInv
  <2>7. CASE f.kind # "CLOSE"
    <3>1. sock' = [rest EXCEPT !.bytes = total, !.hit = @ \/ total >= WriteLimit,
                               !.queue = Append(@, f.bytes)]
      BY <2>2, <2>5, <2>7
    <3>2. sock'.posted = Tail(sock.posted) /\ sock'.shut = sock.shut /\ sock'.fin = sock.fin
      BY <2>4, <3>1 DEF ConnectionRecord
    <3>3. ~sock'.shut /\ ~sock'.fin
      BY <2>5, <3>2
    <3>4. ASSUME NEW i \in 1 .. Len(sock'.posted), sock'.posted[i].kind = "CLOSE"
          PROVE  /\ i = Len(sock'.posted) /\ sock'.posted[i].bytes = <<>>
                 /\ net' = <<>> /\ rx' = NoFrame /\ ~outb'.connected
      <4>1. /\ i + 1 \in 1 .. Len(sock.posted) /\ sock'.posted[i] = sock.posted[i + 1]
            /\ i + 1 = Len(sock.posted) => i = Len(sock'.posted)
        BY <1>1, <2>1, <3>2, <3>4, FrameOfTail
      <4>2. sock.posted[i + 1].kind = "CLOSE"
        BY <3>4, <4>1
      <4>3. /\ i + 1 = Len(sock.posted) /\ sock.posted[i + 1].bytes = <<>>
            /\ net = <<>> /\ rx = NoFrame /\ ~outb.connected
        BY <4>1, <4>2 DEF CloseInv
      <4> QED BY <1>1, <4>1, <4>3
    <3> QED BY <1>3, <3>3, <3>4 DEF CloseInv
  <2> QED BY <2>6, <2>7
<1>5. CASE WriteCompletes
  <2> DEFINE left == sock.bytes - Len(Head(sock.queue))
             done == [sock EXCEPT !.bytes = left, !.queue = Tail(@), !.out = @ \o Head(sock.queue)]
  <2>1. sock.queue # <<>> /\ (sock' = done \/ sock' = MaybeShutdown(done))
    BY <1>5 DEF WriteCompletes
  <2>2. Head(sock.queue) \in Seq(Nat) /\ Tail(sock.queue) \in Seq(Seq(Nat))
    BY <1>1, <2>1, HeadTailProperties
  <2>3. left \in Int /\ sock.out \o Head(sock.queue) \in Seq(Nat)
    BY <2>2, LenProperties, ConcatProperties, ReceiverFields
  <2> HIDE DEF left
  <2>4. /\ done \in ConnectionRecord /\ done.posted = sock.posted /\ done.shut = sock.shut
        /\ done.fin = sock.fin
    BY <1>1, <2>2, <2>3 DEF ConnectionRecord
  <2> HIDE DEF done
  <2>5. ~sock.fin
    BY <2>1 DEF CloseInv
  <2>6. /\ sock'.posted = sock.posted /\ sock'.shut = sock.shut
        /\ sock'.fin => sock'.shut /\ sock'.queue = <<>>
    <3>1. CASE sock' = done
      BY <2>4, <2>5, <3>1
    <3>2. CASE sock' = MaybeShutdown(done)
      <4>1. /\ MaybeShutdown(done).posted = done.posted /\ MaybeShutdown(done).queue = done.queue
            /\ MaybeShutdown(done).shut = done.shut
            /\ MaybeShutdown(done).fin = (done.fin \/ (done.shut /\ done.queue = <<>>))
        BY <2>4, ShutdownFields
      <4>2. /\ sock'.posted = done.posted /\ sock'.queue = done.queue /\ sock'.shut = done.shut
            /\ sock'.fin = (done.fin \/ (done.shut /\ done.queue = <<>>))
        BY <3>2, <4>1
      <4> QED BY <2>4, <2>5, <4>2
    <3> QED BY <2>1, <3>1, <3>2
  <2> QED BY <1>1, <2>6, CloseUntouched
<1> QED BY <1>4, <1>5 DEF StrandStep

LEMMA CloseInductive ==
  ASSUME TypeOK, TypeOK', CreditInv, EofInv, CloseInv, [Next]_vars
  PROVE  CloseInv'
<1>1. sock.fin => sock.shut /\ sock.queue = <<>>
  BY DEF CloseInv
<1>2. CASE \/ SourceStep \/ AckStep \/ FireAckRetry \/ Rest \/ UNCHANGED vars
  <2>1. UNCHANGED <<net, rx, sock>>
    BY <1>2 DEF SourceStep, ReadCompletes, ReadEof, CheckBacklog, TcpReserve, TcpAppend, TcpInsert,
                TcpPause, NextRead, PostedRead, SourceEof, AckStep, RxAck, ReleaseWindow,
                FlushBacklog, FlushReserve, FlushAppend, FlushConsume, ResumeRead, FinishEof,
                FireAckRetry, Rest, vars
  <2>2. outb'.connected = outb.connected
    <3>1. CASE TcpAppend \/ SourceEof \/ FlushAppend \/ FinishEof
      BY <3>1 DEF TcpAppend, SourceEof, FlushAppend, FinishEof, TypeOK, OutboundRecord
    <3>2. CASE ~(TcpAppend \/ SourceEof \/ FlushAppend \/ FinishEof)
      BY <1>2, <3>2 DEF SourceStep, ReadCompletes, ReadEof, CheckBacklog, TcpReserve, TcpInsert,
                        TcpPause, NextRead, PostedRead, AckStep, RxAck, ReleaseWindow,
                        FlushBacklog, FlushReserve, FlushConsume, ResumeRead,
                        FireAckRetry, Rest, vars
    <3> QED BY <3>1, <3>2
  <2> QED BY <1>1, <2>1, <2>2, CloseUntouched
<1>3. CASE \E c \in Creditors : CreditStep(c)
  <2>1. /\ sock'.posted = sock.posted /\ sock'.shut = sock.shut /\ UNCHANGED <<outb, net, rx>>
        /\ sock'.fin => sock'.shut /\ sock'.queue = <<>>
    BY <1>1, <1>3, CreditSock
  <2> QED BY <2>1, CloseUntouched
<1> QED BY <1>2, <1>3, DriverClose, ReceiverClose, StrandClose DEF Next

----------------------------------------------------------------------------
(* The stream starts with nothing anywhere but the held-back bytes. *)

LEMMA StreamInit == ASSUME Init PROVE TakenInv /\ SentInv /\ EofInv /\ CloseInv
<1>1. /\ win.emitted = 0 /\ win.sent = 0 /\ outb.fifo = <<>> /\ ~outb.closing /\ outb.connected
      /\ net = <<>> /\ rx = NoFrame
      /\ sock.out = <<>> /\ sock.queue = <<>> /\ sock.posted = <<>> /\ ~sock.shut /\ ~sock.fin
      /\ backlog.bytes = <<>> /\ ~backlog.eof /\ ack.pc = "idle"
  BY DEF Init
<1>2. /\ tcp.pc = (IF Holdback > 0 THEN "check" ELSE "reading") /\ tcp.chunk = Numbers(1, Holdback)
      /\ tcp.read = Holdback
  BY DEF Init
<1>3. Holdback \in Nat /\ Total \in Nat /\ Holdback <= Total
  BY SourceAssumption
<1>4. Numbers(0 + 1, 0) = <<>> /\ 0 + 1 = 1
  BY NumbersEmpty
<1>5. TakenInv
  <2>1. Payloads(net) = <<>> /\ Payloads(sock.posted) = <<>> /\ rx.bytes = <<>>
    BY <1>1 DEF Payloads, NoFrame, Frame
  <2>2. Chain(<<>>, 0, 0)
    BY ChainEmpty
  <2>3. \E p, q, r, s \in 0 .. 0 :
          /\ sock.out = Numbers(1, p) /\ Chain(sock.queue, p, q) /\ Chain(Payloads(sock.posted), q, r)
          /\ r <= s /\ rx.bytes = Numbers(r + 1, s) /\ Chain(Payloads(net), s, 0)
    <3> USE DEF TakenInv
    <3> WITNESS 0 \in 0 .. 0, 0 \in 0 .. 0, 0 \in 0 .. 0, 0 \in 0 .. 0
    <3> QED BY <1>1, <1>4, <2>1, <2>2
  <2> QED BY <1>1, <2>3 DEF TakenInv
<1>6. SentInv
  <2>1. BacklogLeft = <<>>
    BY <1>1 DEF BacklogLeft
  <2>2. InHand = Numbers(0 + 1, Holdback)
    <3>1. CASE Holdback > 0
      BY <1>2, <1>4, <3>1 DEF InHand
    <3>2. CASE ~(Holdback > 0)
      <4>1. Holdback = 0
        BY <1>3, <3>2
      <4> QED BY <1>2, <1>4, <3>2, <4>1 DEF InHand
    <3> QED BY <3>1, <3>2
  <2>3. 0 \in 0 .. Holdback
    BY <1>3
  <2>4. tcp.pc \notin {"reserve", "append", "insert"}
    BY <1>2
  <2>5. \E t \in 0 .. Holdback :
          BacklogLeft = Numbers(0 + 1, t) /\ InHand = Numbers(t + 1, Holdback)
    BY <1>4, <2>1, <2>2, <2>3
  <2> QED BY <1>1, <1>2, <1>4, <2>4, <2>5 DEF SentInv
<1>7. EofInv
  <2>1. tcp.pc \notin {"eof", "done"}
    BY <1>2
  <2> QED BY <1>1, <1>2, <1>3, <2>1 DEF EofInv
<1>8. CloseInv
  BY <1>1 DEF CloseInv
<1> QED BY <1>5, <1>6, <1>7, <1>8

LEMMA ThreeParts ==
  \A x, y, z \in Seq(Nat) : Append(Append(<<x>>, y), z) = <<x, y, z>>
<1>1. TAKE x, y, z \in Seq(Nat)
<1> DEFINE a == Append(Append(<<x>>, y), z)
           b == <<x, y, z>>
<1>2. <<x>> \in Seq(Seq(Nat)) /\ Len(<<x>>) = 1 /\ <<x>>[1] = x
  OBVIOUS
<1>3. Append(<<x>>, y) \in Seq(Seq(Nat)) /\ Len(Append(<<x>>, y)) = 2
  BY <1>2, AppendProperties
<1>4. Append(<<x>>, y)[1] = x /\ Append(<<x>>, y)[2] = y
  BY <1>2
<1>5. a \in Seq(Seq(Nat)) /\ Len(a) = 3
  BY <1>3, AppendProperties
<1>6. a[1] = x /\ a[2] = y /\ a[3] = z
  BY <1>3, <1>4
<1>7. b \in Seq(Seq(Nat)) /\ Len(b) = 3 /\ b[1] = x /\ b[2] = y /\ b[3] = z
  OBVIOUS
<1> HIDE DEF a, b
<1>8. \A i \in 1 .. Len(a) : a[i] = b[i]
  BY <1>5, <1>6, <1>7
<1>9. a = b
  <2>1. a \in [1 .. 3 -> Seq(Nat)] /\ b \in [1 .. 3 -> Seq(Nat)]
    BY <1>5, <1>7, LenProperties
  <2>2. \A i \in 1 .. 3 : a[i] = b[i]
    BY <1>5, <1>8
  <2> QED BY <2>1, <2>2
<1> QED BY <1>9 DEF a, b

\* The places of the stream, one behind the other, are a chain from the first
\* byte to the last that was read.
LEMMA StreamChain == ASSUME TypeOK, WindowInv, TakenInv, SentInv PROVE StreamIntact
<1>1. PICK p, q, r, s \in Nat :
           /\ sock.out = Numbers(0 + 1, p) /\ Chain(sock.queue, p, q)
           /\ Chain(Payloads(sock.posted), q, r)
           /\ p <= q /\ q <= r /\ r <= s /\ s <= win.emitted
           /\ rx.bytes = Numbers(r + 1, s) /\ Chain(Payloads(net), s, win.emitted)
  BY TakenPick
<1>2. /\ win.emitted \in Nat /\ win.sent \in Nat /\ tcp.read \in Nat /\ win.emitted <= win.sent
      /\ outb.fifo = Numbers(win.emitted + 1, win.sent)
  BY SentPick
<1>3. PICK t \in Nat : /\ win.sent <= t /\ t <= tcp.read
                       /\ BacklogLeft = Numbers(win.sent + 1, t) /\ InHand = Numbers(t + 1, tcp.read)
  BY SentPick
<1> DEFINE posted == Payloads(sock.posted)
           under == Payloads(net)
           e == win.emitted
           l == win.sent
           n == tcp.read
           A == <<sock.out>>
           B == A \o sock.queue
           C == B \o posted
           D == C \o <<rx.bytes>>
           E == D \o under
           F == <<outb.fifo, BacklogLeft, InHand>>
<1>4. sock.queue \in Seq(Seq(Nat)) /\ posted \in Seq(Seq(Nat)) /\ under \in Seq(Seq(Nat))
  BY ReceiverFields, CreditTypes, FramesType
<1>5. A \in Seq(Seq(Nat)) /\ Chain(A, 0, p)
  <2>1. 0 \in Nat /\ 0 <= p /\ A = <<Numbers(0 + 1, p)>>
    BY <1>1
  <2> HIDE DEF A
  <2> QED BY <2>1, ChainOne
<1>6. F \in Seq(Seq(Nat)) /\ Chain(F, e, n)
  <2> DEFINE x == Numbers(e + 1, l)
             y == Numbers(l + 1, t)
             z == Numbers(t + 1, n)
  <2>1. e \in Nat /\ l \in Nat /\ n \in Nat /\ e <= l /\ l <= t /\ t <= n
    BY <1>2, <1>3
  <2>2. F = <<x, y, z>>
    BY <1>2, <1>3
  <2> HIDE DEF e, l, n, F
  <2>3. <<x>> \in Seq(Seq(Nat)) /\ Chain(<<x>>, e, l)
    BY <2>1, ChainOne
  <2>4. x \in Seq(Nat) /\ y \in Seq(Nat) /\ z \in Seq(Nat)
    BY <2>1, NumbersShape
  <2>5. Chain(Append(<<x>>, y), e, t)
    BY <2>1, <2>3, ChainAppend
  <2>6. Append(<<x>>, y) \in Seq(Seq(Nat))
    BY <2>3, <2>4, AppendProperties
  <2>7. Chain(Append(Append(<<x>>, y), z), e, n)
    BY <2>1, <2>5, <2>6, ChainAppend
  <2> HIDE DEF x, y, z
  <2>8. Append(Append(<<x>>, y), z) = <<x, y, z>>
    BY <2>4, ThreeParts
  <2>9. Append(Append(<<x>>, y), z) \in Seq(Seq(Nat))
    BY <2>4, <2>6, AppendProperties
  <2> QED BY <2>2, <2>7, <2>8, <2>9
<1>7. <<rx.bytes>> \in Seq(Seq(Nat)) /\ Chain(<<rx.bytes>>, r, s)
  BY <1>1, ChainOne
<1>8. /\ Chain(sock.queue, p, q) /\ Chain(posted, q, r) /\ Chain(under, s, e)
      /\ e \in Nat /\ n \in Nat /\ 0 \in Nat
  BY <1>1, <1>2
<1>9. StreamIntact <=> InOrder(E \o F, n)
  BY DEF StreamIntact
<1> HIDE DEF posted, under, e, l, n, A, F
<1>10. B \in Seq(Seq(Nat)) /\ Chain(B, 0, q)
  BY <1>4, <1>5, <1>8, ChainConcat
<1> HIDE DEF B
<1>11. C \in Seq(Seq(Nat)) /\ Chain(C, 0, r)
  BY <1>4, <1>8, <1>10, ChainConcat
<1> HIDE DEF C
<1>12. D \in Seq(Seq(Nat)) /\ Chain(D, 0, s)
  BY <1>7, <1>11, <1>8, ChainConcat
<1> HIDE DEF D
<1>13. E \in Seq(Seq(Nat)) /\ Chain(E, 0, e)
  BY <1>4, <1>8, <1>12, ChainConcat
<1> HIDE DEF E
<1>14. E \o F \in Seq(Seq(Nat)) /\ Chain(E \o F, 0, n)
  BY <1>6, <1>8, <1>13, ChainConcat
<1>15. InOrder(E \o F, n)
  BY <1>8, <1>14, ChainInOrder
<1> QED BY <1>9, <1>15

\* Behind the FIN nothing is left anywhere: every byte is in the application.
LEMMA FinLast ==
  ASSUME TypeOK, WindowInv, TakenInv, SentInv, EofInv, CloseInv, sock.fin
  PROVE  Len(sock.out) = Total
<1>1. /\ sock.queue = <<>> /\ sock.posted = <<>> /\ net = <<>> /\ rx = NoFrame /\ ~outb.connected
  BY DEF CloseInv
<1>2. outb.fifo = <<>> /\ backlog.bytes = <<>> /\ tcp.pc = "done" /\ tcp.read = Total
  BY <1>1 DEF EofInv
<1>3. PICK p, q, r, s \in Nat :
           /\ sock.out = Numbers(0 + 1, p) /\ Chain(sock.queue, p, q)
           /\ Chain(Payloads(sock.posted), q, r)
           /\ p <= q /\ q <= r /\ r <= s /\ s <= win.emitted
           /\ rx.bytes = Numbers(r + 1, s) /\ Chain(Payloads(net), s, win.emitted)
           /\ (rx = NoFrame => r = s)
  BY TakenPick
<1>4. /\ win.emitted \in Nat /\ win.sent \in Nat /\ win.emitted <= win.sent
      /\ outb.fifo = Numbers(win.emitted + 1, win.sent) /\ BacklogLeft = <<>>
  BY <1>2, SentPick
<1>5. PICK t \in Nat : /\ InHand = <<>> => t = tcp.read
                       /\ BacklogLeft = <<>> => t = win.sent
  BY SentPick
<1>6. InHand = <<>>
  BY <1>2 DEF InHand
<1>7. win.sent = Total
  BY <1>2, <1>4, <1>5, <1>6
<1>8. win.emitted = win.sent
  BY <1>2, <1>4, NumbersNone
<1>9. Payloads(net) = <<>> /\ Payloads(sock.posted) = <<>> /\ <<>> \in Seq(Seq(Nat))
  BY <1>1 DEF Payloads
<1>10. p = q /\ q = r /\ s = win.emitted
  <2>1. Chain(<<>>, p, q) /\ Chain(<<>>, q, r) /\ Chain(<<>>, s, win.emitted)
    BY <1>1, <1>3, <1>9
  <2> QED BY <1>4, <1>9, <2>1, ChainBounds
<1>11. p = Total /\ sock.out = Numbers(0 + 1, p)
  BY <1>1, <1>3, <1>7, <1>8, <1>10
<1>12. Len(Numbers(0 + 1, p)) = p
  <2>1. 0 <= p /\ p - 0 = p
    OBVIOUS
  <2>2. Len(Numbers(0 + 1, p)) = p - 0
    BY <2>1, NumbersShape
  <2> QED BY <2>1, <2>2
<1> QED BY <1>11, <1>12

----------------------------------------------------------------------------
(* Theorems. *)

\* Every variable of the stream keeps its type and send_window_used_ stays exact,
\* with two threads reserving and one releasing: the saturating subtraction in
\* the release never saturates.
THEOREM WindowExact == Spec => [](TypeOK /\ WindowAccount)
<1>1. Init => TypeOK /\ WindowInv
  BY FlowInit
<1>2. (TypeOK /\ WindowInv) /\ [Next]_vars => (TypeOK /\ WindowInv)'
  BY FlowInductive
<1>3. TypeOK /\ WindowInv => TypeOK /\ WindowAccount
  BY DEF WindowInv
<1> QED BY <1>1, <1>2, <1>3, PTL DEF Spec

\* What was admitted and not acknowledged fits in a window the estimator has set.
THEOREM WindowBoundHolds == Spec => []WindowBound
<1>1. Init => TypeOK /\ WindowInv
  BY FlowInit
<1>2. (TypeOK /\ WindowInv) /\ [Next]_vars => (TypeOK /\ WindowInv)'
  BY FlowInductive
<1>3. TypeOK /\ WindowInv => WindowBound
  <2> SUFFICES ASSUME TypeOK, WindowInv PROVE WindowBound
    OBVIOUS
  <2>1. win.sent - win.acked <= win.used
    BY ReleaseCovered
  <2>2. PICK w \in Windows : win.used <= w
    BY DEF WindowInv, UsedBound
  <2>3. w \in Nat
    BY WindowAssumption
  <2>4. win.sent - win.acked <= w
    BY <2>1, <2>2, <2>3, SenderFields
  <2> QED BY <2>4 DEF WindowBound
<1> QED BY <1>1, <1>2, <1>3, PTL DEF Spec

\* Every emitted byte stays accounted for until its ACK is credited, for a socket
\* and for a pipe: send_ack() from three threads, its retries and the clamp of
\* handle_tunnel_ack_frame() neither lose nor double any credit.
THEOREM CreditConservedHolds == Spec => []CreditConserved
<1>1. Init => TypeOK /\ WindowInv /\ CreditInv
  BY FlowInit, CreditInit
<1>2. (TypeOK /\ WindowInv /\ CreditInv) /\ [Next]_vars => (TypeOK /\ WindowInv /\ CreditInv)'
  BY FlowInductive, CreditInductive
<1>3. TypeOK /\ WindowInv /\ CreditInv => CreditConserved
  BY DEF CreditInv
<1> QED BY <1>1, <1>2, <1>3, PTL DEF Spec

\* A socket's stream: on_tcp_data_received(), the backlog flush of an ACK, the
\* driver and the receiver's strand neither lose, repeat nor swap a byte or any
\* credit, and the FIN is behind the last byte of the source.
THEOREM NothingLostHolds == ASSUME Socket PROVE Spec => []NothingLost
<1> DEFINE Inv == /\ TypeOK /\ WindowInv /\ CreditInv
                  /\ TakenInv /\ SentInv /\ EofInv /\ CloseInv
<1>1. Init => Inv
  BY FlowInit, CreditInit, StreamInit
<1>2. Inv /\ [Next]_vars => Inv'
  <2> SUFFICES ASSUME Inv, [Next]_vars PROVE Inv'
    OBVIOUS
  <2>1. TypeOK' /\ WindowInv'
    BY FlowInductive
  <2>2. CreditInv'
    BY CreditInductive
  <2>3. TakenInv'
    BY <2>1, TakenInductive
  <2>4. SentInv'
    BY <2>1, SentInductive
  <2>5. EofInv'
    BY <2>1, EofInductive
  <2>6. CloseInv'
    BY <2>1, CloseInductive
  <2> QED BY <2>1, <2>2, <2>3, <2>4, <2>5, <2>6
<1>3. Inv => NothingLost
  BY StreamChain, FinLast DEF CreditInv, NothingLost
<1> QED BY <1>1, <1>2, <1>3, PTL DEF Spec
=============================================================================
