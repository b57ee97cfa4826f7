-------------------------- MODULE TunnelInvariant --------------------------
(***************************************************************************)
(* Why OutboundStream holds: what the emission driver, the CLOSE           *)
(* obligation, the ERROR slot and the FIFO know about each other between   *)
(* any two critical sections.  TLC checks that these hold; the proof       *)
(* modules show that they are inductive.                                   *)
(***************************************************************************)
EXTENDS Tunnel

\* The driver has chosen a frame that no commit has settled yet.
Holding == drv.pc \in {"snapshot", "transport", "commit"}
\* ... and the transport has not accepted it.
Undelivered == drv.pc \in {"snapshot", "transport"} \/ (drv.pc = "commit" /\ drv.out # "Sent")

\* The bytes of an authorised DATA frame are already in total_bytes_emitted_.
InFlightCounted == drv.kind = "DATA" /\ Holding => emitted >= drv.n

\* A kind is chosen exactly while a frame is; only DATA is authorised, never empty.
KindKnown ==
  /\ drv.pc \in {"idle", "select"} <=> drv.kind = "none"
  /\ drv.pc = "authorise" => drv.kind = "DATA"
  /\ drv.kind = "DATA" => drv.n >= 1

\* What the types alone rest on.
DriverOK == InFlightCounted /\ KindKnown

\* The obligation of a CLOSE on the wire is over, or about to be committed.
CloseAccounted ==
  OnWire("CLOSE") => \/ cf.frame \in {"Resolved", "Abandoned"}
                     \/ drv.kind = "CLOSE" /\ ~Undelivered
\* A CLOSE in the driver's hands is the first one.
CloseUnsent ==
  drv.kind = "CLOSE" => /\ cf.frame \in {"InFlight", "Abandoned"}
                        /\ Undelivered => ~OnWire("CLOSE")

\* An ERROR on the wire was claimed, and its slot is empty or about to be.
ErrorAccounted ==
  OnWire("ERROR") => er.claimed /\ (er.slot => drv.kind = "ERROR" /\ ~Undelivered)
\* What the driver is about to hand over does not follow an ERROR.
ErrorUnsent ==
  /\ drv.pc \in {"snapshot", "transport"} => ~OnWire("ERROR")
  /\ drv.kind = "ERROR" => er.claimed /\ (Undelivered => ~OnWire("ERROR"))
\* A claimed ERROR has sealed the stream; so has a closed outbound gate.
ClaimSeals == (er.slot => er.claimed) /\ (er.claimed => co.abort) /\ (mx.gate => co.abort)
\* The seal leaves nothing to send.
SealedEmpty == co.abort => co.fifo = <<>>

\* The number of the last byte that left or was discarded.
Base == IF drv.kind = "DATA" /\ Holding THEN emitted - drv.n ELSE emitted

\* Until the seal the FIFO holds exactly the bytes admitted and not sent.
FifoNumbered ==
  ~co.abort => /\ accepted = Base + Len(co.fifo)
               /\ \A i \in 1 .. Len(co.fifo) : co.fifo[i].id = Base + i
\* A DATA frame in the driver's hands starts at the first unsent byte; until
\* the seal its bytes are still at the front of the FIFO.
FrameIsFront ==
  drv.kind = "DATA" => /\ Holding \/ ~co.abort => drv.from = Base + 1
                       /\ ~co.abort => drv.n <= Len(co.fifo)

\* What run_emission_driver() relies on when it takes the lock again: the frame
\* it chose is still the front of the FIFO or the stream was sealed, its CLOSE
\* and ERROR are still the only ones, and the counters still tell which bytes
\* have left, whatever producers and teardowns did while it was sending.
StreamInv ==
  /\ DriverOK
  /\ CloseAccounted /\ CloseUnsent
  /\ ErrorAccounted /\ ErrorUnsent /\ ClaimSeals /\ SealedEmpty
  /\ FifoNumbered /\ FrameIsFront
============================================================================
