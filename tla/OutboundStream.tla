--------------------------- MODULE OutboundStream ---------------------------
(***************************************************************************)
(* What a tunnel promises about the frames it hands to the transport under *)
(* its id: the bytes it accepted leave once and in order, it announces its *)
(* own end with at most one TUNNEL_CLOSE, and a TUNNEL_ERROR is the last   *)
(* word: only credit for the other direction (ACK) and the OPEN, whose     *)
(* place the handshake settles, are outside the order.  Once the stream    *)
(* is sealed (aborted) bytes may be thrown away, never before.  Where the  *)
(* CLOSE stands among the bytes is not promised here: a read that races    *)
(* close() may put its bytes behind the CLOSE.                             *)
(***************************************************************************)
EXTENDS Naturals, Sequences

VARIABLES
  log,     \* the frames handed over, oldest first
  next,    \* the number of the first byte that has not left
  sealed   \* the tunnel was aborted

Has(k) == \E i \in DOMAIN log : log[i].kind = k
Frame(k, from, to) == [kind |-> k, from |-> from, to |-> to]

Init == log = <<>> /\ next = 1 /\ sealed = FALSE

\* The bytes next .. next' - 1 leave in one frame.
SendData ==
  /\ ~Has("ERROR")
  /\ next' \in Nat /\ next' > next
  /\ log' = Append(log, Frame("DATA", next, next' - 1))
  /\ sealed' = sealed

SendClose ==
  /\ ~Has("CLOSE") /\ ~Has("ERROR")
  /\ log' = Append(log, Frame("CLOSE", 0, 0))
  /\ UNCHANGED <<next, sealed>>

\* An ERROR cuts the stream off, so the stream is sealed before it leaves.
SendError ==
  /\ sealed /\ ~Has("ERROR")
  /\ log' = Append(log, Frame("ERROR", 0, 0))
  /\ UNCHANGED <<next, sealed>>

SendOther ==
  /\ \E k \in {"OPEN", "ACK"} : log' = Append(log, Frame(k, 0, 0))
  /\ UNCHANGED <<next, sealed>>

Seal ==
  /\ ~sealed /\ sealed' = TRUE
  /\ UNCHANGED <<log, next>>

\* A frame that met a closed outbound gate is dropped but counted as sent.
Discard ==
  /\ sealed
  /\ next' \in Nat /\ next' > next
  /\ UNCHANGED <<log, sealed>>

Next == SendData \/ SendClose \/ SendError \/ SendOther \/ Seal \/ Discard

Spec == Init /\ [][Next]_<<log, next, sealed>>
============================================================================
