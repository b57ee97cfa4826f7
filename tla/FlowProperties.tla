--------------------------- MODULE FlowProperties ---------------------------
(* What the bytes and the credit of one stream add up to, wherever they are. *)
EXTENDS FlowControl, FiniteSets

Payloads(frames) == [i \in 1 .. Len(frames) |-> frames[i].bytes]
Sizes(frames) == [i \in 1 .. Len(frames) |-> Len(frames[i].bytes)]

\* The sum of a sequence of numbers, as the number of the units in it.
Amount(s) == Cardinality(UNION {{i} \X (1 .. s[i]) : i \in 1 .. Len(s)})

\* The chunks ss, one behind the other, hold the bytes 1 .. n, each of them once
\* and in order.
InOrder(ss, n) ==
  /\ \A x \in 1 .. n : \E i \in 1 .. Len(ss) : \E j \in 1 .. Len(ss[i]) : ss[i][j] = x
  /\ \A i, k \in 1 .. Len(ss) : \A j \in 1 .. Len(ss[i]), m \in 1 .. Len(ss[k]) :
       /\ ss[i][j] \in 1 .. n
       /\ i < k \/ (i = k /\ j < m) => ss[i][j] < ss[k][m]

\* The backlog without the prefix that was sent and not yet removed.
BacklogLeft == IF ack.pc = "consume" THEN Drop(backlog.bytes, Len(ack.chunk)) ELSE backlog.bytes
InHand == IF tcp.pc \in {"check", "reserve", "append", "insert"} THEN tcp.chunk ELSE <<>>

\* Every byte read from the source is in exactly one place, and the places in
\* the order of the stream hold the bytes in their order: on_tcp_data_received()
\* and the backlog flush on another thread neither lose, repeat nor swap any.
StreamIntact ==
  InOrder(<<sock.out>> \o sock.queue \o Payloads(sock.posted) \o <<rx.bytes>> \o Payloads(net)
            \o <<outb.fifo, BacklogLeft, InHand>>, tcp.read)

\* The credit that the threads inside send_ack() have taken and not yet sent.
Held == credit["rx"].n + credit["strand"].n + credit["timer"].n

\* Every emitted byte is acknowledged, on its way, or credit somebody holds: an
\* ACK that is withheld, retried or sent by three threads at once is never lost
\* or doubled, so a legitimate ACK is credited in full despite the clamp.
CreditConserved ==
  win.emitted - win.acked =
    Amount(Sizes(net)) + since + Held + Amount(acks) + faults.dropped

\* Neither bytes nor credit are lost, doubled or swapped between the threads, and
\* the FIN reaches the receiving application behind every byte of the source.
NothingLost == StreamIntact /\ CreditConserved /\ (sock.fin => Len(sock.out) = Total)
============================================================================
