---------------------------- MODULE ServerProofs ----------------------------
(***************************************************************************)
(* TunnelServer for any OPENs, managers, ids and scenarios, with resume or *)
(* without: what an OPEN leaves behind, what ends a held manager, and what *)
(* a tunnel takes of its stream.                                           *)
(***************************************************************************)
EXTENDS ServerInvariants, SequenceTheorems, WellFoundedInduction, TLAPS

----------------------------------------------------------------------------
(* The operators on an OPEN's record. *)

\* s differs from r in how the tunnel ended and what that did, only.
Kept(r, s) ==
  /\ s.phase = r.phase /\ s.booked = r.booked /\ s.m = r.m /\ s.hooked = r.hooked
  /\ s.sock = r.sock /\ s.eof = r.eof /\ s.peerClosed = r.peerClosed /\ s.at = r.at
  /\ s.out = r.out /\ s.byTimer = r.byTimer /\ s.gate = r.gate /\ s.gone = r.gone
  /\ s.timer = r.timer /\ s.abnormal = r.abnormal /\ s.posts = r.posts /\ s.ok = r.ok
  /\ s.failed = r.failed /\ s.denied = r.denied /\ s.byPeer = r.byPeer

\* Such changes add up.
LEMMA KeptTrans == ASSUME NEW r, NEW s, NEW t, Kept(r, s), Kept(s, t) PROVE Kept(r, t)
BY DEF Kept

\* force_close() of the socket marks it, when there is one.
LEMMA ShutFacts ==
  ASSUME NEW r, OpenType(r)
  PROVE  /\ OpenType(Shut(r)) /\ Kept(r, Shut(r))
         /\ Shut(r).shut = (r.sock /= "Disconnected")
         /\ Shut(r).tun = r.tun /\ Shut(r).notify = r.notify /\ Shut(r).gauge = r.gauge
BY DEF OpenType, Fields, Shut, Kept

\* active_gauge_release() only settles the gauge.
LEMMA ReleaseFacts ==
  ASSUME NEW r, OpenType(r)
  PROVE  LET s == active_gauge_release(r)
         IN  /\ OpenType(s) /\ Kept(r, s) /\ s.gauge = "Released"
             /\ s.tun = r.tun /\ s.notify = r.notify /\ s.shut = r.shut
BY DEF OpenType, Fields, active_gauge_release, Kept

\* A new state word with its notification.
LEMMA EndFacts ==
  ASSUME NEW r, OpenType(r), NEW x \in {"Disconnecting"} \cup Terminal
  PROVE  LET s == [r EXCEPT !.tun = x, !.notify = IF @ = "no" THEN "due" ELSE @]
         IN  /\ OpenType(s) /\ Kept(r, s) /\ s.tun = x
             /\ s.notify = (IF r.notify = "no" THEN "due" ELSE r.notify)
             /\ s.gauge = r.gauge /\ s.shut = r.shut
<1>1. CASE r.notify = "no"
  <2>1. [r EXCEPT !.tun = x, !.notify = IF @ = "no" THEN "due" ELSE @]
        = [r EXCEPT !.tun = x, !.notify = "due"]
    BY <1>1, Zenon
  <2> QED BY <1>1, <2>1 DEF OpenType, Fields, Kept, Established, Terminal
<1>2. CASE r.notify /= "no"
  <2>1. [r EXCEPT !.tun = x, !.notify = IF @ = "no" THEN "due" ELSE @]
        = [r EXCEPT !.tun = x, !.notify = r.notify]
    BY <1>2, Zenon
  <2> QED BY <1>2, <2>1 DEF OpenType, Fields, Kept, Established, Terminal
<1> QED BY <1>1, <1>2

\* A transition to Closed or Error: announced, and settled when wired.
LEMMA TerminateFacts ==
  ASSUME NEW r, OpenType(r), NEW t \in Terminal
  PROVE  LET s == Terminate(r, t)
         IN  /\ OpenType(s) /\ Kept(r, s)
             /\ r.tun \in Terminal => s = r
             /\ r.tun \notin Terminal =>
                  /\ s.tun = t /\ s.notify = (IF r.notify = "no" THEN "due" ELSE r.notify)
                  /\ s.gauge = (IF r.hooked THEN "Released" ELSE r.gauge)
                  /\ s.shut = IF t = "Error" /\ r.hooked THEN r.sock /= "Disconnected" ELSE r.shut
<1> DEFINE e == [r EXCEPT !.tun = t, !.notify = IF @ = "no" THEN "due" ELSE @]
           u == IF r.hooked THEN active_gauge_release(e) ELSE e
<1>1. OpenType(e) /\ Kept(r, e) /\ e.tun = t /\ e.gauge = r.gauge /\ e.shut = r.shut
      /\ e.notify = (IF r.notify = "no" THEN "due" ELSE r.notify)
  BY EndFacts, Zenon
<1> HIDE DEF e
<1>2. OpenType(u) /\ Kept(e, u) /\ u.tun = e.tun /\ u.notify = e.notify /\ u.shut = e.shut
      /\ u.gauge = (IF r.hooked THEN "Released" ELSE e.gauge)
  BY <1>1, ReleaseFacts DEF Kept
<1>3. Terminate(r, t) = IF r.tun \in Terminal THEN r
                        ELSE IF t = "Error" /\ r.hooked THEN Shut(u) ELSE u
  BY DEF Terminate, e
<1> HIDE DEF u
<1>4. Kept(r, u)
  BY <1>1, <1>2, KeptTrans
<1>5. CASE r.tun \in Terminal
  BY <1>3, <1>5 DEF Kept
<1>6. CASE r.tun \notin Terminal /\ t = "Error" /\ r.hooked
  <2>1. OpenType(Shut(u)) /\ Kept(r, Shut(u))
    BY <1>2, <1>4, ShutFacts, KeptTrans
  <2>2. Shut(u).shut = (r.sock /= "Disconnected")
    BY <1>2, <1>4, ShutFacts DEF Kept
  <2> QED BY <2>1, <2>2, <1>1, <1>2, <1>3, <1>6, ShutFacts
<1>7. CASE r.tun \notin Terminal /\ ~(t = "Error" /\ r.hooked)
  BY <1>1, <1>2, <1>3, <1>4, <1>7
<1> QED BY <1>5, <1>6, <1>7

\* TunnelImpl::force_close() ends the tunnel and drops a wired socket.
LEMMA ForceCloseFacts ==
  ASSUME NEW r, OpenType(r)
  PROVE  LET s == ForceClose(r)
         IN  /\ OpenType(s) /\ Kept(r, s) /\ s.tun \in Terminal
             /\ s.notify = (IF r.tun \in Terminal \/ r.notify /= "no" THEN r.notify ELSE "due")
             /\ s.gauge = (IF r.tun \notin Terminal /\ r.hooked THEN "Released" ELSE r.gauge)
             /\ s.shut = IF r.hooked THEN r.sock /= "Disconnected" ELSE r.shut
<1>1. "Closed" \in Terminal /\ "Closed" /= "Error"
  BY DEF Terminal
<1>2. OpenType(Terminate(r, "Closed")) /\ Kept(r, Terminate(r, "Closed"))
  BY <1>1, TerminateFacts
<1>3. CASE r.hooked
  <2>1. ForceClose(r) = Shut(Terminate(r, "Closed"))
    BY <1>3 DEF ForceClose
  <2>2. Shut(Terminate(r, "Closed")).shut = (r.sock /= "Disconnected")
    BY <1>2, ShutFacts DEF Kept
  <2>3. OpenType(ForceClose(r)) /\ Kept(r, ForceClose(r))
    BY <2>1, <1>2, ShutFacts, KeptTrans
  <2> QED BY <2>1, <2>2, <2>3, <1>1, <1>2, <1>3, TerminateFacts, ShutFacts
<1>4. CASE ~r.hooked
  <2>1. ForceClose(r) = Terminate(r, "Closed")
    BY <1>4 DEF ForceClose
  <2> QED BY <2>1, <1>1, <1>2, <1>4, TerminateFacts
<1> QED BY <1>3, <1>4

\* TunnelImpl::close() acts on a published tunnel only.
LEMMA CloseFacts ==
  ASSUME NEW r, OpenType(r)
  PROVE  LET s == Close(r)
         IN  /\ OpenType(s) /\ Kept(r, s) /\ s.gauge = r.gauge /\ s.shut = r.shut
             /\ r.tun /= "Connected" => s = r
             /\ r.tun = "Connected" =>
                  s.tun = "Disconnecting" /\ s.notify = IF r.notify = "no" THEN "due" ELSE r.notify
<1>1. CASE r.tun = "Connected"
  <2> DEFINE e == [r EXCEPT !.tun = "Disconnecting", !.notify = IF @ = "no" THEN "due" ELSE @]
  <2>1. Close(r) = e
    BY <1>1, Zenon DEF Close
  <2>2. OpenType(e) /\ Kept(r, e) /\ e.tun = "Disconnecting" /\ e.gauge = r.gauge
        /\ e.shut = r.shut /\ e.notify = (IF r.notify = "no" THEN "due" ELSE r.notify)
    <3>1. "Disconnecting" \in {"Disconnecting"} \cup Terminal
      OBVIOUS
    <3> QED BY <3>1, EndFacts, Zenon
  <2> HIDE DEF e
  <2> QED BY <1>1, <2>1, <2>2
<1>2. CASE r.tun /= "Connected"
  BY <1>2 DEF Close, Kept
<1> QED BY <1>1, <1>2

----------------------------------------------------------------------------
(* Each stage of an OPEN leads to the next. *)

\* The target is resolved and the connect starts.
LEMMA ResolveGood ==
  ASSUME NEW r, NEW own \in BOOLEAN, OpenInv(r, own), r.at = "resolving", r.phase = "Resolving"
  PROVE  OpenInv([[r EXCEPT !.phase = "Connecting", !.sock = "Connecting"] EXCEPT !.at = "connecting"], own)
<1> DEFINE s == [[r EXCEPT !.phase = "Connecting", !.sock = "Connecting"] EXCEPT !.at = "connecting"]
<1>0. OpenType(r) /\ Stage(r) /\ Outcome(r) /\ Socket(r, own) /\ Ending(r, own)
  BY DEF OpenInv
<1>1. OpenType(s)
  BY <1>0 DEF OpenType, Fields, Established, Terminal, Committing
<1>2. Stage(s)
  BY <1>0 DEF OpenType, Fields, Stage, Committing
<1>3. Outcome(s)
  BY <1>0 DEF OpenType, Fields, Stage, Outcome, Booked, Committing
<1>4. Socket(s, own)
  BY <1>0 DEF OpenType, Fields, Stage, Socket, Ending, Gone, Committing
<1>5. Ending(s, own)
  BY <1>0 DEF OpenType, Fields, Stage, Ending, Socket, Gone, Terminal, Established, Committing
<1> QED BY <1>1, <1>2, <1>3, <1>4, <1>5 DEF OpenInv

\* The resolver answers an OPEN that was cancelled.
LEMMA ResolveStopped ==
  ASSUME NEW r, NEW own \in BOOLEAN, OpenInv(r, own), r.at = "resolving", r.phase = "Resolved"
  PROVE  OpenInv([r EXCEPT !.at = "idle"], own)
<1> DEFINE s == [r EXCEPT !.at = "idle"]
<1>0. OpenType(r) /\ Stage(r) /\ Outcome(r) /\ Socket(r, own) /\ Ending(r, own)
  BY DEF OpenInv
<1>1. OpenType(s)
  BY <1>0 DEF OpenType, Fields, Established, Terminal, Committing
<1>2. Stage(s)
  BY <1>0 DEF OpenType, Fields, Stage, Committing
<1>3. Outcome(s)
  BY <1>0 DEF OpenType, Fields, Stage, Outcome, Booked, Committing
<1>4. Socket(s, own)
  BY <1>0 DEF OpenType, Fields, Stage, Socket, Ending, Gone, Committing
<1>5. Ending(s, own)
  BY <1>0 DEF OpenType, Fields, Stage, Ending, Socket, Gone, Terminal, Established, Committing
<1> QED BY <1>1, <1>2, <1>3, <1>4, <1>5 DEF OpenInv

\* The connect succeeds and the OPEN is handed to the wiring.
LEMMA ConnectGood ==
  ASSUME NEW r, NEW own \in BOOLEAN, OpenInv(r, own), r.at = "connecting", r.phase = "Connecting"
  PROVE  OpenInv([[r EXCEPT !.sock = "Connected", !.phase = "Handed"] EXCEPT !.at = "handed"], own)
<1> DEFINE s == [[r EXCEPT !.sock = "Connected", !.phase = "Handed"] EXCEPT !.at = "handed"]
<1>0. OpenType(r) /\ Stage(r) /\ Outcome(r) /\ Socket(r, own) /\ Ending(r, own)
  BY DEF OpenInv
<1>1. OpenType(s)
  BY <1>0 DEF OpenType, Fields, Established, Terminal, Committing
<1>2. Stage(s)
  BY <1>0 DEF OpenType, Fields, Stage, Committing
<1>3. Outcome(s)
  BY <1>0 DEF OpenType, Fields, Stage, Outcome, Booked, Committing
<1>4. Socket(s, own)
  BY <1>0 DEF OpenType, Fields, Stage, Socket, Ending, Gone, Committing
<1>5. Ending(s, own)
  BY <1>0 DEF OpenType, Fields, Stage, Ending, Socket, Gone, Terminal, Established, Committing
<1> QED BY <1>1, <1>2, <1>3, <1>4, <1>5 DEF OpenInv

\* Wiring starts on a tunnel that is still registered.
LEMMA WireTaken ==
  ASSUME NEW r, NEW own \in BOOLEAN, OpenInv(r, own), r.at = "handed", own
  PROVE  OpenInv([r EXCEPT !.at = "wiring"], own)
<1> DEFINE s == [r EXCEPT !.at = "wiring"]
<1>0. OpenType(r) /\ Stage(r) /\ Outcome(r) /\ Socket(r, own) /\ Ending(r, own)
  BY DEF OpenInv
<1>1. OpenType(s)
  BY <1>0 DEF OpenType, Fields, Established, Terminal, Committing
<1>2. Stage(s)
  BY <1>0 DEF OpenType, Fields, Stage, Committing
<1>3. Outcome(s)
  BY <1>0 DEF OpenType, Fields, Stage, Outcome, Booked, Committing
<1>4. Socket(s, own)
  BY <1>0 DEF OpenType, Fields, Stage, Socket, Ending, Gone, Committing
<1>5. Ending(s, own)
  BY <1>0 DEF OpenType, Fields, Stage, Ending, Socket, Gone, Terminal, Established, Committing
<1> QED BY <1>1, <1>2, <1>3, <1>4, <1>5 DEF OpenInv

\* The connect finds its tunnel destroyed and drops the socket.
LEMMA WireLapses ==
  ASSUME NEW r, NEW own \in BOOLEAN, OpenInv(r, own), r.at = "handed", ~own
  PROVE  OpenInv([Shut(r) EXCEPT !.at = "idle"], own)
<1> DEFINE s == [Shut(r) EXCEPT !.at = "idle"]
<1>0. OpenType(r) /\ Stage(r) /\ Outcome(r) /\ Socket(r, own) /\ Ending(r, own)
  BY DEF OpenInv
<1>1. OpenType(s)
  BY <1>0 DEF OpenType, Fields, Established, Terminal, Committing, Shut
<1>2. Stage(s)
  BY <1>0 DEF OpenType, Fields, Stage, Committing, Shut
<1>3. Outcome(s)
  BY <1>0 DEF OpenType, Fields, Stage, Outcome, Booked, Committing, Shut
<1>4. Socket(s, own)
  BY <1>0 DEF OpenType, Fields, Stage, Socket, Ending, Gone, Committing, Shut
<1>5. Ending(s, own)
  BY <1>0 DEF OpenType, Fields, Stage, Ending, Socket, Gone, Terminal, Established, Committing, Shut
<1> QED BY <1>1, <1>2, <1>3, <1>4, <1>5 DEF OpenInv

\* The handlers are attached.
LEMMA Hooked ==
  ASSUME NEW r, NEW own \in BOOLEAN, OpenInv(r, own), r.at = "wiring"
  PROVE  OpenInv([[r EXCEPT !.hooked = TRUE, !.gate = "Pending"] EXCEPT !.at = "recheck"], own)
<1> DEFINE s == [[r EXCEPT !.hooked = TRUE, !.gate = "Pending"] EXCEPT !.at = "recheck"]
<1>0. OpenType(r) /\ Stage(r) /\ Outcome(r) /\ Socket(r, own) /\ Ending(r, own)
  BY DEF OpenInv
<1>1. OpenType(s)
  BY <1>0 DEF OpenType, Fields, Established, Terminal, Committing
<1>2. Stage(s)
  BY <1>0 DEF OpenType, Fields, Stage, Committing
<1>3. Outcome(s)
  BY <1>0 DEF OpenType, Fields, Stage, Outcome, Booked, Committing
<1>4. Socket(s, own)
  BY <1>0 DEF OpenType, Fields, Stage, Socket, Ending, Gone, Committing
<1>5. Ending(s, own)
  BY <1>0 DEF OpenType, Fields, Stage, Ending, Socket, Gone, Terminal, Established, Committing
<1> QED BY <1>1, <1>2, <1>3, <1>4, <1>5 DEF OpenInv

\* The tunnel is still alive once it is hooked.
LEMMA RecheckGoesOn ==
  ASSUME NEW r, NEW own \in BOOLEAN, OpenInv(r, own), r.at = "recheck", r.tun \notin Terminal
  PROVE  OpenInv([r EXCEPT !.at = "attempt"], own)
<1> DEFINE s == [r EXCEPT !.at = "attempt"]
<1>0. OpenType(r) /\ Stage(r) /\ Outcome(r) /\ Socket(r, own) /\ Ending(r, own)
  BY DEF OpenInv
<1>1. OpenType(s)
  BY <1>0 DEF OpenType, Fields, Established, Terminal, Committing
<1>2. Stage(s)
  BY <1>0 DEF OpenType, Fields, Stage, Committing
<1>3. Outcome(s)
  BY <1>0 DEF OpenType, Fields, Stage, Outcome, Booked, Committing
<1>4. Socket(s, own)
  BY <1>0 DEF OpenType, Fields, Stage, Socket, Ending, Gone, Committing
<1>5. Ending(s, own)
  BY <1>0 DEF OpenType, Fields, Stage, Ending, Socket, Gone, Terminal, Established, Committing
<1> QED BY <1>1, <1>2, <1>3, <1>4, <1>5 DEF OpenInv

\* An attempt claims the send of a pending gate.
LEMMA AttemptClaims ==
  ASSUME NEW r, NEW own \in BOOLEAN, OpenInv(r, own), NEW timer \in BOOLEAN, r.gate = "Pending", IF timer THEN r.at = "idle" ELSE r.at = "attempt"
  PROVE  OpenInv([[r EXCEPT !.timer = FALSE, !.byTimer = timer, !.gate = "Sending"] EXCEPT !.at = "sending"], own)
<1> DEFINE s == [[r EXCEPT !.timer = FALSE, !.byTimer = timer, !.gate = "Sending"] EXCEPT !.at = "sending"]
<1>0. OpenType(r) /\ Stage(r) /\ Outcome(r) /\ Socket(r, own) /\ Ending(r, own)
  BY DEF OpenInv
<1>1. OpenType(s)
  BY <1>0 DEF OpenType, Fields, Established, Terminal, Committing
<1>2. Stage(s)
  BY <1>0 DEF OpenType, Fields, Stage, Committing
<1>3. Outcome(s)
  BY <1>0 DEF OpenType, Fields, Stage, Outcome, Booked, Committing
<1>4. Socket(s, own)
  BY <1>0 DEF OpenType, Fields, Stage, Socket, Ending, Gone, Committing
<1>5. Ending(s, own)
  BY <1>0 DEF OpenType, Fields, Stage, Ending, Socket, Gone, Terminal, Established, Committing
<1> QED BY <1>1, <1>2, <1>3, <1>4, <1>5 DEF OpenInv

\* A retry timer that fires on a resolved gate does nothing.
LEMMA AttemptLate ==
  ASSUME NEW r, NEW own \in BOOLEAN, OpenInv(r, own), r.gate /= "Pending", r.at = "idle", r.timer
  PROVE  OpenInv([[r EXCEPT !.timer = FALSE, !.byTimer = TRUE] EXCEPT !.at = "idle"], own)
<1> DEFINE s == [[r EXCEPT !.timer = FALSE, !.byTimer = TRUE] EXCEPT !.at = "idle"]
<1>0. OpenType(r) /\ Stage(r) /\ Outcome(r) /\ Socket(r, own) /\ Ending(r, own)
  BY DEF OpenInv
<1>1. OpenType(s)
  BY <1>0 DEF OpenType, Fields, Established, Terminal, Committing
<1>2. Stage(s)
  BY <1>0 DEF OpenType, Fields, Stage, Committing
<1>3. Outcome(s)
  BY <1>0 DEF OpenType, Fields, Stage, Outcome, Booked, Committing
<1>4. Socket(s, own)
  BY <1>0 DEF OpenType, Fields, Stage, Socket, Ending, Gone, Committing
<1>5. Ending(s, own)
  BY <1>0 DEF OpenType, Fields, Stage, Ending, Socket, Gone, Terminal, Established, Committing
<1> QED BY <1>1, <1>2, <1>3, <1>4, <1>5 DEF OpenInv

\* The transport answers.
LEMMA AckSent ==
  ASSUME NEW r, NEW own \in BOOLEAN, OpenInv(r, own), NEW out \in {"Sent", "SendqFull", "PermanentFail"}, r.at = "sending"
  PROVE  OpenInv([[r EXCEPT !.out = out] EXCEPT !.at = "verdict"], own)
<1> DEFINE s == [[r EXCEPT !.out = out] EXCEPT !.at = "verdict"]
<1>0. OpenType(r) /\ Stage(r) /\ Outcome(r) /\ Socket(r, own) /\ Ending(r, own)
  BY DEF OpenInv
<1>1. OpenType(s)
  BY <1>0 DEF OpenType, Fields, Established, Terminal, Committing
<1>2. Stage(s)
  BY <1>0 DEF OpenType, Fields, Stage, Committing
<1>3. Outcome(s)
  BY <1>0 DEF OpenType, Fields, Stage, Outcome, Booked, Committing
<1>4. Socket(s, own)
  BY <1>0 DEF OpenType, Fields, Stage, Socket, Ending, Gone, Committing
<1>5. Ending(s, own)
  BY <1>0 DEF OpenType, Fields, Stage, Ending, Socket, Gone, Terminal, Established, Committing
<1> QED BY <1>1, <1>2, <1>3, <1>4, <1>5 DEF OpenInv

\* The gate gives up and posts its cleanup.
LEMMA VerdictAbandons ==
  ASSUME NEW r, NEW own \in BOOLEAN, OpenInv(r, own), r.at = "verdict"
  PROVE  OpenInv([Abandoned(r) EXCEPT !.at = "idle"], own)
<1> DEFINE s == [Abandoned(r) EXCEPT !.at = "idle"]
<1>0. OpenType(r) /\ Stage(r) /\ Outcome(r) /\ Socket(r, own) /\ Ending(r, own)
  BY DEF OpenInv
<1>1. OpenType(s)
  BY <1>0 DEF OpenType, Fields, Established, Terminal, Committing, Abandoned
<1>2. Stage(s)
  BY <1>0 DEF OpenType, Fields, Stage, Committing, Abandoned
<1>3. Outcome(s)
  BY <1>0 DEF OpenType, Fields, Stage, Outcome, Booked, Committing, Abandoned
<1>4. Socket(s, own)
  BY <1>0 DEF OpenType, Fields, Stage, Socket, Ending, Gone, Committing, Abandoned
<1>5. Ending(s, own)
  BY <1>0 DEF OpenType, Fields, Stage, Ending, Socket, Gone, Terminal, Established, Committing, Abandoned
<1> QED BY <1>1, <1>2, <1>3, <1>4, <1>5 DEF OpenInv

\* The ACK is out: the gate commits.
LEMMA VerdictCommits ==
  ASSUME NEW r, NEW own \in BOOLEAN, OpenInv(r, own), r.at = "verdict", ~r.gone
  PROVE  OpenInv([[r EXCEPT !.gate = "Committing"] EXCEPT !.at = "owned"], own)
<1> DEFINE s == [[r EXCEPT !.gate = "Committing"] EXCEPT !.at = "owned"]
<1>0. OpenType(r) /\ Stage(r) /\ Outcome(r) /\ Socket(r, own) /\ Ending(r, own)
  BY DEF OpenInv
<1>1. OpenType(s)
  BY <1>0 DEF OpenType, Fields, Established, Terminal, Committing
<1>2. Stage(s)
  BY <1>0 DEF OpenType, Fields, Stage, Committing
<1>3. Outcome(s)
  BY <1>0 DEF OpenType, Fields, Stage, Outcome, Booked, Committing
<1>4. Socket(s, own)
  BY <1>0 DEF OpenType, Fields, Stage, Socket, Ending, Gone, Committing
<1>5. Ending(s, own)
  BY <1>0 DEF OpenType, Fields, Stage, Ending, Socket, Gone, Terminal, Established, Committing
<1> QED BY <1>1, <1>2, <1>3, <1>4, <1>5 DEF OpenInv

\* The send queue was full: the gate waits for its timer.
LEMMA VerdictWaits ==
  ASSUME NEW r, NEW own \in BOOLEAN, OpenInv(r, own), r.at = "verdict", ~r.gone
  PROVE  OpenInv([[r EXCEPT !.gate = "Pending", !.timer = TRUE] EXCEPT !.at = "idle"], own)
<1> DEFINE s == [[r EXCEPT !.gate = "Pending", !.timer = TRUE] EXCEPT !.at = "idle"]
<1>0. OpenType(r) /\ Stage(r) /\ Outcome(r) /\ Socket(r, own) /\ Ending(r, own)
  BY DEF OpenInv
<1>1. OpenType(s)
  BY <1>0 DEF OpenType, Fields, Established, Terminal, Committing
<1>2. Stage(s)
  BY <1>0 DEF OpenType, Fields, Stage, Committing
<1>3. Outcome(s)
  BY <1>0 DEF OpenType, Fields, Stage, Outcome, Booked, Committing
<1>4. Socket(s, own)
  BY <1>0 DEF OpenType, Fields, Stage, Socket, Ending, Gone, Committing
<1>5. Ending(s, own)
  BY <1>0 DEF OpenType, Fields, Stage, Ending, Socket, Gone, Terminal, Established, Committing
<1> QED BY <1>1, <1>2, <1>3, <1>4, <1>5 DEF OpenInv

\* commit_open_ack() has looked who owns the tunnel.
LEMMA OwnedGoesOn ==
  ASSUME NEW r, NEW own \in BOOLEAN, OpenInv(r, own), NEW at \in {"claim", "abort"}, r.at = "owned"
  PROVE  OpenInv([r EXCEPT !.at = at], own)
<1> DEFINE s == [r EXCEPT !.at = at]
<1>0. OpenType(r) /\ Stage(r) /\ Outcome(r) /\ Socket(r, own) /\ Ending(r, own)
  BY DEF OpenInv
<1>1. OpenType(s)
  BY <1>0 DEF OpenType, Fields, Established, Terminal, Committing
<1>2. Stage(s)
  BY <1>0 DEF OpenType, Fields, Stage, Committing
<1>3. Outcome(s)
  BY <1>0 DEF OpenType, Fields, Stage, Outcome, Booked, Committing
<1>4. Socket(s, own)
  BY <1>0 DEF OpenType, Fields, Stage, Socket, Ending, Gone, Committing
<1>5. Ending(s, own)
  BY <1>0 DEF OpenType, Fields, Stage, Ending, Socket, Gone, Terminal, Established, Committing
<1> QED BY <1>1, <1>2, <1>3, <1>4, <1>5 DEF OpenInv

\* The state word was taken by somebody else.
LEMMA ClaimLost ==
  ASSUME NEW r, NEW own \in BOOLEAN, OpenInv(r, own), r.at = "claim"
  PROVE  OpenInv([r EXCEPT !.at = "abort"], own)
<1> DEFINE s == [r EXCEPT !.at = "abort"]
<1>0. OpenType(r) /\ Stage(r) /\ Outcome(r) /\ Socket(r, own) /\ Ending(r, own)
  BY DEF OpenInv
<1>1. OpenType(s)
  BY <1>0 DEF OpenType, Fields, Established, Terminal, Committing
<1>2. Stage(s)
  BY <1>0 DEF OpenType, Fields, Stage, Committing
<1>3. Outcome(s)
  BY <1>0 DEF OpenType, Fields, Stage, Outcome, Booked, Committing
<1>4. Socket(s, own)
  BY <1>0 DEF OpenType, Fields, Stage, Socket, Ending, Gone, Committing
<1>5. Ending(s, own)
  BY <1>0 DEF OpenType, Fields, Stage, Ending, Socket, Gone, Terminal, Established, Committing
<1> QED BY <1>1, <1>2, <1>3, <1>4, <1>5 DEF OpenInv

\* The state word is claimed.
LEMMA ClaimWon ==
  ASSUME NEW r, NEW own \in BOOLEAN, OpenInv(r, own), r.at = "claim", r.tun = "None"
  PROVE  OpenInv([[r EXCEPT !.tun = "Connected"] EXCEPT !.at = "verify"], own)
<1> DEFINE s == [[r EXCEPT !.tun = "Connected"] EXCEPT !.at = "verify"]
<1>0. OpenType(r) /\ Stage(r) /\ Outcome(r) /\ Socket(r, own) /\ Ending(r, own)
  BY DEF OpenInv
<1>1. OpenType(s)
  BY <1>0 DEF OpenType, Fields, Established, Terminal, Committing
<1>2. Stage(s)
  BY <1>0 DEF OpenType, Fields, Stage, Committing
<1>3. Outcome(s)
  BY <1>0 DEF OpenType, Fields, Stage, Outcome, Booked, Committing
<1>4. Socket(s, own)
  BY <1>0 DEF OpenType, Fields, Stage, Socket, Ending, Gone, Committing
<1>5. Ending(s, own)
  BY <1>0 DEF OpenType, Fields, Stage, Ending, Socket, Gone, Terminal, Established, Committing
<1> QED BY <1>1, <1>2, <1>3, <1>4, <1>5 DEF OpenInv

\* The second look at the owner.
LEMMA VerifyGoesOn ==
  ASSUME NEW r, NEW own \in BOOLEAN, OpenInv(r, own), NEW at \in {"publish", "abort"}, r.at = "verify"
  PROVE  OpenInv([r EXCEPT !.at = at], own)
<1> DEFINE s == [r EXCEPT !.at = at]
<1>0. OpenType(r) /\ Stage(r) /\ Outcome(r) /\ Socket(r, own) /\ Ending(r, own)
  BY DEF OpenInv
<1>1. OpenType(s)
  BY <1>0 DEF OpenType, Fields, Established, Terminal, Committing
<1>2. Stage(s)
  BY <1>0 DEF OpenType, Fields, Stage, Committing
<1>3. Outcome(s)
  BY <1>0 DEF OpenType, Fields, Stage, Outcome, Booked, Committing
<1>4. Socket(s, own)
  BY <1>0 DEF OpenType, Fields, Stage, Socket, Ending, Gone, Committing
<1>5. Ending(s, own)
  BY <1>0 DEF OpenType, Fields, Stage, Ending, Socket, Gone, Terminal, Established, Committing
<1> QED BY <1>1, <1>2, <1>3, <1>4, <1>5 DEF OpenInv

\* The OPEN is booked as opened.
LEMMA Published ==
  ASSUME NEW r, NEW own \in BOOLEAN, OpenInv(r, own), r.at = "publish"
  PROVE  OpenInv([[r EXCEPT !.ok = @ + 1] EXCEPT !.at = "count"], own)
<1> DEFINE s == [[r EXCEPT !.ok = @ + 1] EXCEPT !.at = "count"]
<1>0. OpenType(r) /\ Stage(r) /\ Outcome(r) /\ Socket(r, own) /\ Ending(r, own)
  BY DEF OpenInv
<1>1. OpenType(s)
  BY <1>0 DEF OpenType, Fields, Established, Terminal, Committing
<1>2. Stage(s)
  BY <1>0 DEF OpenType, Fields, Stage, Committing
<1>3. Outcome(s)
  BY <1>0 DEF OpenType, Fields, Stage, Outcome, Booked, Committing
<1>4. Socket(s, own)
  BY <1>0 DEF OpenType, Fields, Stage, Socket, Ending, Gone, Committing
<1>5. Ending(s, own)
  BY <1>0 DEF OpenType, Fields, Stage, Ending, Socket, Gone, Terminal, Established, Committing
<1> QED BY <1>1, <1>2, <1>3, <1>4, <1>5 DEF OpenInv

\* The gauge counts the tunnel, unless it was released before.
LEMMA Counted ==
  ASSUME NEW r, NEW own \in BOOLEAN, OpenInv(r, own), r.at = "count"
  PROVE  OpenInv([active_gauge_count(r) EXCEPT !.at = "settle"], own)
<1> DEFINE s == [active_gauge_count(r) EXCEPT !.at = "settle"]
<1>0. OpenType(r) /\ Stage(r) /\ Outcome(r) /\ Socket(r, own) /\ Ending(r, own)
  BY DEF OpenInv
<1>1. OpenType(s)
  BY <1>0 DEF OpenType, Fields, Established, Terminal, Committing, active_gauge_count
<1>2. Stage(s)
  BY <1>0 DEF OpenType, Fields, Stage, Committing, active_gauge_count
<1>3. Outcome(s)
  BY <1>0 DEF OpenType, Fields, Stage, Outcome, Booked, Committing, active_gauge_count
<1>4. Socket(s, own)
  BY <1>0 DEF OpenType, Fields, Stage, Socket, Ending, Gone, Committing, active_gauge_count
<1>5. Ending(s, own)
  BY <1>0 DEF OpenType, Fields, Stage, Ending, Socket, Gone, Terminal, Established, Committing, active_gauge_count
<1> QED BY <1>1, <1>2, <1>3, <1>4, <1>5 DEF OpenInv

\* The gate commits, with the close of a target that died meanwhile.
LEMMA Settled ==
  ASSUME NEW r, NEW own \in BOOLEAN, OpenInv(r, own), r.at = "settle"
  PROVE  OpenInv([[r EXCEPT !.gate = "Committed", !.posts = IF r.gone THEN @ \cup {"close"} ELSE @] EXCEPT !.at = "idle"], own)
<1> DEFINE s == [[r EXCEPT !.gate = "Committed", !.posts = IF r.gone THEN @ \cup {"close"} ELSE @] EXCEPT !.at = "idle"]
<1>0. OpenType(r) /\ Stage(r) /\ Outcome(r) /\ Socket(r, own) /\ Ending(r, own)
  BY DEF OpenInv
<1>1. OpenType(s)
  BY <1>0 DEF OpenType, Fields, Established, Terminal, Committing
<1>2. Stage(s)
  BY <1>0 DEF OpenType, Fields, Stage, Committing
<1>3. Outcome(s)
  BY <1>0 DEF OpenType, Fields, Stage, Outcome, Booked, Committing
<1>4. Socket(s, own)
  BY <1>0 DEF OpenType, Fields, Stage, Socket, Ending, Gone, Committing
<1>5. Ending(s, own)
  BY <1>0 DEF OpenType, Fields, Stage, Ending, Socket, Gone, Terminal, Established, Committing
<1> QED BY <1>1, <1>2, <1>3, <1>4, <1>5 DEF OpenInv

\* The aborted gate resolves.
LEMMA Unsettled ==
  ASSUME NEW r, NEW own \in BOOLEAN, OpenInv(r, own), r.at = "unsettle"
  PROVE  OpenInv([[r EXCEPT !.gate = "Abandoned"] EXCEPT !.at = "idle"], own)
<1> DEFINE s == [[r EXCEPT !.gate = "Abandoned"] EXCEPT !.at = "idle"]
<1>0. OpenType(r) /\ Stage(r) /\ Outcome(r) /\ Socket(r, own) /\ Ending(r, own)
  BY DEF OpenInv
<1>1. OpenType(s)
  BY <1>0 DEF OpenType, Fields, Established, Terminal, Committing
<1>2. Stage(s)
  BY <1>0 DEF OpenType, Fields, Stage, Committing
<1>3. Outcome(s)
  BY <1>0 DEF OpenType, Fields, Stage, Outcome, Booked, Committing
<1>4. Socket(s, own)
  BY <1>0 DEF OpenType, Fields, Stage, Socket, Ending, Gone, Committing
<1>5. Ending(s, own)
  BY <1>0 DEF OpenType, Fields, Stage, Ending, Socket, Gone, Terminal, Established, Committing
<1> QED BY <1>1, <1>2, <1>3, <1>4, <1>5 DEF OpenInv

\* A close posted to an unwired socket runs.
LEMMA SocketGoneUnhooked ==
  ASSUME NEW r, NEW own \in BOOLEAN, OpenInv(r, own), ~r.hooked, r.shut
  PROVE  OpenInv([r EXCEPT !.sock = "Disconnected", !.shut = FALSE], own)
<1> DEFINE s == [r EXCEPT !.sock = "Disconnected", !.shut = FALSE]
<1>0. OpenType(r) /\ Stage(r) /\ Outcome(r) /\ Socket(r, own) /\ Ending(r, own)
  BY DEF OpenInv
<1>1. OpenType(s)
  BY <1>0 DEF OpenType, Fields, Established, Terminal, Committing
<1>2. Stage(s)
  BY <1>0 DEF OpenType, Fields, Stage, Committing
<1>3. Outcome(s)
  BY <1>0 DEF OpenType, Fields, Stage, Outcome, Booked, Committing
<1>4. Socket(s, own)
  BY <1>0 DEF OpenType, Fields, Stage, Socket, Ending, Gone, Committing
<1>5. Ending(s, own)
  BY <1>0 DEF OpenType, Fields, Stage, Ending, Socket, Gone, Terminal, Established, Committing
<1> QED BY <1>1, <1>2, <1>3, <1>4, <1>5 DEF OpenInv

----------------------------------------------------------------------------
(* How a tunnel ends. *)

\* What TunnelManager does to a tunnel it lets go of.
LEMMA LetGoFacts ==
  ASSUME NEW r, OpenType(r)
  PROVE  LET s == LetGo(r)
         IN  /\ OpenType(s) /\ Kept(r, s)
             /\ r.tun = "Connected" =>
                  /\ s.tun = "Disconnecting" /\ s.gauge = r.gauge /\ s.shut = r.shut
                  /\ s.notify = IF r.notify = "no" THEN "due" ELSE r.notify
             /\ r.tun /= "Connected" => s = ForceClose(r)
BY CloseFacts, ForceCloseFacts DEF LetGo

\* A tunnel may be ended, and let go of, at any time.
LEMMA TerminateKeeps ==
  ASSUME NEW r, NEW own \in BOOLEAN, OpenInv(r, own), NEW t \in Terminal
  PROVE  OpenInv(Terminate(r, t), own)
<1> DEFINE s == Terminate(r, t)
<1>0. OpenType(r) /\ Stage(r) /\ Outcome(r) /\ Socket(r, own) /\ Ending(r, own)
  BY DEF OpenInv
<1>1. CASE r.tun \in Terminal
  BY <1>0, <1>1, TerminateFacts
<1>2. CASE r.tun \notin Terminal
  <2>1. /\ OpenType(s) /\ Kept(r, s)
        /\ s.tun \in Terminal /\ s.notify = (IF r.notify = "no" THEN "due" ELSE r.notify)
        /\ s.gauge = (IF r.hooked THEN "Released" ELSE r.gauge)
        /\ s.shut = IF t = "Error" /\ r.hooked THEN r.sock /= "Disconnected" ELSE r.shut
    BY <1>0, <1>2, TerminateFacts
  <2> HIDE DEF s
  <2>2. Stage(s)
    BY <1>0, <2>1 DEF Stage, Kept
  <2>3. Outcome(s)
    BY <1>0, <2>1 DEF Outcome, Booked, Kept
  <2>4. Socket(s, own)
    BY <1>0, <2>1 DEF Stage, Socket, Gone, Kept
  <2>5. Ending(s, own)
    BY <1>0, <2>1 DEF Stage, Ending, Gone, Kept, OpenType, Terminal, Established
  <2> QED BY <2>1, <2>2, <2>3, <2>4, <2>5 DEF OpenInv, s
<1> QED BY <1>1, <1>2

\* force_close() is fine at any stage, also as the registration goes.
LEMMA ForceCloseKeeps ==
  ASSUME NEW r, NEW own \in BOOLEAN, NEW b \in BOOLEAN, OpenInv(r, own), b => own
  PROVE  OpenInv(ForceClose(r), b)
<1> DEFINE s == ForceClose(r)
<1>0. OpenType(r) /\ Stage(r) /\ Outcome(r) /\ Socket(r, own) /\ Ending(r, own)
  BY DEF OpenInv
<1>1. /\ OpenType(s) /\ Kept(r, s) /\ s.tun \in Terminal
      /\ s.notify = (IF r.tun \in Terminal \/ r.notify /= "no" THEN r.notify ELSE "due")
      /\ s.gauge = (IF r.tun \notin Terminal /\ r.hooked THEN "Released" ELSE r.gauge)
      /\ s.shut = IF r.hooked THEN r.sock /= "Disconnected" ELSE r.shut
  BY <1>0, ForceCloseFacts
<1> HIDE DEF s
<1>2. Stage(s)
  BY <1>0, <1>1 DEF Stage, Kept
<1>3. Outcome(s)
  BY <1>0, <1>1 DEF Outcome, Booked, Kept
<1>4. Socket(s, b)
  BY <1>0, <1>1 DEF Stage, Socket, Ending, Gone, Kept
<1>5. Ending(s, b)
  BY <1>0, <1>1 DEF Stage, Ending, Gone, Kept, OpenType, Terminal, Established
<1> QED BY <1>1, <1>2, <1>3, <1>4, <1>5 DEF OpenInv, s

\* close() is, too, on a published tunnel.
LEMMA CloseKeeps ==
  ASSUME NEW r, NEW own \in BOOLEAN, NEW b \in BOOLEAN, OpenInv(r, own), b => own, r.tun = "Connected"
  PROVE  OpenInv(Close(r), b)
<1> DEFINE s == Close(r)
<1>0. OpenType(r) /\ Stage(r) /\ Outcome(r) /\ Socket(r, own) /\ Ending(r, own)
  BY DEF OpenInv
<1>1. /\ OpenType(s) /\ Kept(r, s) /\ s.tun = "Disconnecting" /\ s.gauge = r.gauge /\ s.shut = r.shut
      /\ s.notify = IF r.notify = "no" THEN "due" ELSE r.notify
  BY <1>0, CloseFacts
<1> HIDE DEF s
<1>2. Stage(s)
  BY <1>0, <1>1 DEF Stage, Kept
<1>3. Outcome(s)
  BY <1>0, <1>1 DEF Outcome, Booked, Kept
<1>4. Socket(s, b)
  BY <1>0, <1>1 DEF Stage, Socket, Ending, Gone, Kept
<1>5. Ending(s, b)
  BY <1>0, <1>1 DEF Stage, Ending, Gone, Kept, OpenType, Terminal, Established
<1> QED BY <1>1, <1>2, <1>3, <1>4, <1>5 DEF OpenInv, s

\* remove_tunnel_if() leaves an OPEN nobody owns.
LEMMA RemoveKeeps ==
  ASSUME NEW o, NEW r, OpenInv(r, Owns(o))
  PROVE  OpenInv(RemoveIf(o, r), FALSE) /\ Kept(r, RemoveIf(o, r))
<1> Owns(o) \in BOOLEAN
  BY DEF Owns, Alive
<1>0. OpenType(r)
  BY DEF OpenInv
<1>1. CASE Owns(o)
  <2>1. RemoveIf(o, r) = LetGo(r) /\ Kept(r, LetGo(r))
    BY <1>0, <1>1, LetGoFacts DEF RemoveIf
  <2>2. CASE r.tun = "Connected"
    <3>1. OpenInv(Close(r), FALSE)
      BY <2>2, CloseKeeps
    <3> QED BY <2>1, <2>2, <3>1 DEF LetGo
  <2>3. CASE r.tun /= "Connected"
    <3>1. OpenInv(ForceClose(r), FALSE)
      BY ForceCloseKeeps
    <3> QED BY <2>1, <2>3, <3>1 DEF LetGo
  <2> QED BY <2>2, <2>3
<1>2. CASE ~Owns(o)
  <2>1. RemoveIf(o, r) = r
    BY <1>2 DEF RemoveIf
  <2>2. Owns(o) = FALSE
    BY <1>2
  <2> QED BY <2>1, <2>2 DEF Kept
<1> QED BY <1>1, <1>2

----------------------------------------------------------------------------
(* What the target, the friend and the cleanups do to the record. *)

\* The connect fails.
LEMMA ConnectBad ==
  ASSUME NEW r, NEW own \in BOOLEAN, OpenInv(r, own), r.at = "connecting", r.phase = "Connecting"
  PROVE  OpenInv([r EXCEPT !.sock = "Disconnected"], own)
<1> DEFINE s == [r EXCEPT !.sock = "Disconnected"]
<1>0. OpenType(r) /\ Stage(r) /\ Outcome(r) /\ Socket(r, own) /\ Ending(r, own)
  BY DEF OpenInv
<1>1. OpenType(s)
  BY <1>0 DEF OpenType, Fields, Established, Terminal, Committing
<1>2. Stage(s)
  BY <1>0 DEF OpenType, Fields, Stage, Committing
<1>3. Outcome(s)
  BY <1>0 DEF OpenType, Fields, Stage, Outcome, Booked, Committing
<1>4. Socket(s, own)
  BY <1>0 DEF OpenType, Fields, Stage, Socket, Ending, Gone, Committing
<1>5. Ending(s, own)
  BY <1>0 DEF OpenType, Fields, Stage, Ending, Socket, Gone, Terminal, Established, Committing
<1> QED BY <1>1, <1>2, <1>3, <1>4, <1>5 DEF OpenInv

\* The connect of a cancelled OPEN completes and is dropped.
LEMMA ConnectStopped ==
  ASSUME NEW r, NEW own \in BOOLEAN, OpenInv(r, own), NEW c \in {"Connected", "Disconnected"}, r.at = "connecting", r.phase = "Resolved"
  PROVE  OpenInv([Shut([r EXCEPT !.sock = c]) EXCEPT !.at = "idle"], own)
<1> DEFINE s == [Shut([r EXCEPT !.sock = c]) EXCEPT !.at = "idle"]
<1>0. OpenType(r) /\ Stage(r) /\ Outcome(r) /\ Socket(r, own) /\ Ending(r, own)
  BY DEF OpenInv
<1>1. OpenType(s)
  BY <1>0 DEF OpenType, Fields, Established, Terminal, Committing, Shut
<1>2. Stage(s)
  BY <1>0 DEF OpenType, Fields, Stage, Committing, Shut
<1>3. Outcome(s)
  BY <1>0 DEF OpenType, Fields, Stage, Outcome, Booked, Committing, Shut
<1>4. Socket(s, own)
  BY <1>0 DEF OpenType, Fields, Stage, Socket, Ending, Gone, Committing, Shut
<1>5. Ending(s, own)
  BY <1>0 DEF OpenType, Fields, Stage, Ending, Socket, Gone, Terminal, Established, Committing, Shut
<1> QED BY <1>1, <1>2, <1>3, <1>4, <1>5 DEF OpenInv

\* The close notification of a tunnel that is not wired.
LEMMA NotifiedUnhooked ==
  ASSUME NEW r, NEW own \in BOOLEAN, OpenInv(r, own), r.notify = "due", ~r.hooked
  PROVE  OpenInv([r EXCEPT !.notify = "done"], own)
<1> DEFINE s == [r EXCEPT !.notify = "done"]
<1>0. OpenType(r) /\ Stage(r) /\ Outcome(r) /\ Socket(r, own) /\ Ending(r, own)
  BY DEF OpenInv
<1>1. OpenType(s)
  BY <1>0 DEF OpenType, Fields, Established, Terminal, Committing
<1>2. Stage(s)
  BY <1>0 DEF OpenType, Fields, Stage, Committing
<1>3. Outcome(s)
  BY <1>0 DEF OpenType, Fields, Stage, Outcome, Booked, Committing
<1>4. Socket(s, own)
  BY <1>0 DEF OpenType, Fields, Stage, Socket, Ending, Gone, Committing
<1>5. Ending(s, own)
  BY <1>0 DEF OpenType, Fields, Stage, Ending, Socket, Gone, Terminal, Established, Committing
<1> QED BY <1>1, <1>2, <1>3, <1>4, <1>5 DEF OpenInv

\* The target dies while the gate waits.
LEMMA PendingTargetGone ==
  ASSUME NEW r, NEW own \in BOOLEAN, OpenInv(r, own), r.gate = "Pending", r.at = "idle", NEW a \in BOOLEAN
  PROVE  OpenInv(Abandoned([r EXCEPT !.sock = "Disconnected", !.shut = FALSE, !.abnormal = a]), own)
<1> DEFINE s == Abandoned([r EXCEPT !.sock = "Disconnected", !.shut = FALSE, !.abnormal = a])
<1>0. OpenType(r) /\ Stage(r) /\ Outcome(r) /\ Socket(r, own) /\ Ending(r, own)
  BY DEF OpenInv
<1>1. OpenType(s)
  BY <1>0 DEF OpenType, Fields, Established, Terminal, Committing, Abandoned
<1>2. Stage(s)
  BY <1>0 DEF OpenType, Fields, Stage, Committing, Abandoned
<1>3. Outcome(s)
  BY <1>0 DEF OpenType, Fields, Stage, Outcome, Booked, Committing, Abandoned
<1>4. Socket(s, own)
  BY <1>0 DEF OpenType, Fields, Stage, Socket, Ending, Gone, Committing, Abandoned
<1>5. Ending(s, own)
  BY <1>0 DEF OpenType, Fields, Stage, Ending, Socket, Gone, Terminal, Established, Committing, Abandoned
<1> QED BY <1>1, <1>2, <1>3, <1>4, <1>5 DEF OpenInv

\* The target dies while the gate sends or commits.
LEMMA BusyTargetGone ==
  ASSUME NEW r, NEW own \in BOOLEAN, OpenInv(r, own), r.gate \in {"Sending", "Committing"}, NEW a \in BOOLEAN
  PROVE  OpenInv([r EXCEPT !.sock = "Disconnected", !.shut = FALSE, !.abnormal = a, !.gone = TRUE, !.timer = FALSE], own)
<1> DEFINE s == [r EXCEPT !.sock = "Disconnected", !.shut = FALSE, !.abnormal = a, !.gone = TRUE, !.timer = FALSE]
<1>0. OpenType(r) /\ Stage(r) /\ Outcome(r) /\ Socket(r, own) /\ Ending(r, own)
  BY DEF OpenInv
<1>1. OpenType(s)
  BY <1>0 DEF OpenType, Fields, Established, Terminal, Committing
<1>2. Stage(s)
  BY <1>0 DEF OpenType, Fields, Stage, Committing
<1>3. Outcome(s)
  BY <1>0 DEF OpenType, Fields, Stage, Outcome, Booked, Committing
<1>4. Socket(s, own)
  BY <1>0 DEF OpenType, Fields, Stage, Socket, Ending, Gone, Committing
<1>5. Ending(s, own)
  BY <1>0 DEF OpenType, Fields, Stage, Ending, Socket, Gone, Terminal, Established, Committing
<1> QED BY <1>1, <1>2, <1>3, <1>4, <1>5 DEF OpenInv

\* The target of a published tunnel dies.
LEMMA CommittedTargetGone ==
  ASSUME NEW r, NEW own \in BOOLEAN, OpenInv(r, own), r.gate = "Committed", NEW a \in BOOLEAN, r.shut \/ (r.sock = "Connected" /\ a)
  PROVE  OpenInv([r EXCEPT !.sock = "Disconnected", !.shut = FALSE, !.abnormal = a, !.posts = @ \cup {"close"}], own)
<1> DEFINE s == [r EXCEPT !.sock = "Disconnected", !.shut = FALSE, !.abnormal = a, !.posts = @ \cup {"close"}]
<1>0. OpenType(r) /\ Stage(r) /\ Outcome(r) /\ Socket(r, own) /\ Ending(r, own)
  BY DEF OpenInv
<1>1. OpenType(s)
  BY <1>0 DEF OpenType, Fields, Established, Terminal, Committing
<1>2. Stage(s)
  BY <1>0 DEF OpenType, Fields, Stage, Committing
<1>3. Outcome(s)
  BY <1>0 DEF OpenType, Fields, Stage, Outcome, Booked, Committing
<1>4. Socket(s, own)
  BY <1>0 DEF OpenType, Fields, Stage, Socket, Ending, Gone, Committing
<1>5. Ending(s, own)
  BY <1>0 DEF OpenType, Fields, Stage, Ending, Socket, Gone, Terminal, Established, Committing
<1> QED BY <1>1, <1>2, <1>3, <1>4, <1>5 DEF OpenInv

\* The target of an abandoned OPEN goes.
LEMMA AbandonedTargetGone ==
  ASSUME NEW r, NEW own \in BOOLEAN, OpenInv(r, own), r.gate = "Abandoned", NEW a \in BOOLEAN
  PROVE  OpenInv([r EXCEPT !.sock = "Disconnected", !.shut = FALSE, !.abnormal = a], own)
<1> DEFINE s == [r EXCEPT !.sock = "Disconnected", !.shut = FALSE, !.abnormal = a]
<1>0. OpenType(r) /\ Stage(r) /\ Outcome(r) /\ Socket(r, own) /\ Ending(r, own)
  BY DEF OpenInv
<1>1. OpenType(s)
  BY <1>0 DEF OpenType, Fields, Established, Terminal, Committing
<1>2. Stage(s)
  BY <1>0 DEF OpenType, Fields, Stage, Committing
<1>3. Outcome(s)
  BY <1>0 DEF OpenType, Fields, Stage, Outcome, Booked, Committing
<1>4. Socket(s, own)
  BY <1>0 DEF OpenType, Fields, Stage, Socket, Ending, Gone, Committing
<1>5. Ending(s, own)
  BY <1>0 DEF OpenType, Fields, Stage, Ending, Socket, Gone, Terminal, Established, Committing
<1> QED BY <1>1, <1>2, <1>3, <1>4, <1>5 DEF OpenInv

\* The target's FIN is read.
LEMMA EofRead ==
  ASSUME NEW r, NEW own \in BOOLEAN, OpenInv(r, own), r.sock = "Connected", r.gate = "Committed"
  PROVE  OpenInv([r EXCEPT !.eof = TRUE], own)
<1> DEFINE s == [r EXCEPT !.eof = TRUE]
<1>0. OpenType(r) /\ Stage(r) /\ Outcome(r) /\ Socket(r, own) /\ Ending(r, own)
  BY DEF OpenInv
<1>1. OpenType(s)
  BY <1>0 DEF OpenType, Fields, Established, Terminal, Committing
<1>2. Stage(s)
  BY <1>0 DEF OpenType, Fields, Stage, Committing
<1>3. Outcome(s)
  BY <1>0 DEF OpenType, Fields, Stage, Outcome, Booked, Committing
<1>4. Socket(s, own)
  BY <1>0 DEF OpenType, Fields, Stage, Socket, Ending, Gone, Committing
<1>5. Ending(s, own)
  BY <1>0 DEF OpenType, Fields, Stage, Ending, Socket, Gone, Terminal, Established, Committing
<1> QED BY <1>1, <1>2, <1>3, <1>4, <1>5 DEF OpenInv

\* The target's FIN ends our half of the stream.
LEMMA EofHalf ==
  ASSUME NEW r, NEW own \in BOOLEAN, OpenInv(r, own), r.sock = "Connected", r.gate = "Committed", r.tun = "Connected"
  PROVE  OpenInv([[r EXCEPT !.eof = TRUE] EXCEPT !.tun = "Disconnecting"], own)
<1> DEFINE s == [[r EXCEPT !.eof = TRUE] EXCEPT !.tun = "Disconnecting"]
<1>0. OpenType(r) /\ Stage(r) /\ Outcome(r) /\ Socket(r, own) /\ Ending(r, own)
  BY DEF OpenInv
<1>1. OpenType(s)
  BY <1>0 DEF OpenType, Fields, Established, Terminal, Committing
<1>2. Stage(s)
  BY <1>0 DEF OpenType, Fields, Stage, Committing
<1>3. Outcome(s)
  BY <1>0 DEF OpenType, Fields, Stage, Outcome, Booked, Committing
<1>4. Socket(s, own)
  BY <1>0 DEF OpenType, Fields, Stage, Socket, Ending, Gone, Committing
<1>5. Ending(s, own)
  BY <1>0 DEF OpenType, Fields, Stage, Ending, Socket, Gone, Terminal, Established, Committing
<1> QED BY <1>1, <1>2, <1>3, <1>4, <1>5 DEF OpenInv

\* The friend closes.
LEMMA PeerCloses ==
  ASSUME NEW r, NEW own \in BOOLEAN, OpenInv(r, own), TRUE
  PROVE  OpenInv([r EXCEPT !.peerClosed = TRUE, !.byPeer = TRUE], own)
<1> DEFINE s == [r EXCEPT !.peerClosed = TRUE, !.byPeer = TRUE]
<1>0. OpenType(r) /\ Stage(r) /\ Outcome(r) /\ Socket(r, own) /\ Ending(r, own)
  BY DEF OpenInv
<1>1. OpenType(s)
  BY <1>0 DEF OpenType, Fields, Established, Terminal, Committing
<1>2. Stage(s)
  BY <1>0 DEF OpenType, Fields, Stage, Committing
<1>3. Outcome(s)
  BY <1>0 DEF OpenType, Fields, Stage, Outcome, Booked, Committing
<1>4. Socket(s, own)
  BY <1>0 DEF OpenType, Fields, Stage, Socket, Ending, Gone, Committing
<1>5. Ending(s, own)
  BY <1>0 DEF OpenType, Fields, Stage, Ending, Socket, Gone, Terminal, Established, Committing
<1> QED BY <1>1, <1>2, <1>3, <1>4, <1>5 DEF OpenInv

\* The friend reports an error.
LEMMA PeerErrs ==
  ASSUME NEW r, NEW own \in BOOLEAN, OpenInv(r, own), TRUE
  PROVE  OpenInv([r EXCEPT !.byPeer = TRUE], own)
<1> DEFINE s == [r EXCEPT !.byPeer = TRUE]
<1>0. OpenType(r) /\ Stage(r) /\ Outcome(r) /\ Socket(r, own) /\ Ending(r, own)
  BY DEF OpenInv
<1>1. OpenType(s)
  BY <1>0 DEF OpenType, Fields, Established, Terminal, Committing
<1>2. Stage(s)
  BY <1>0 DEF OpenType, Fields, Stage, Committing
<1>3. Outcome(s)
  BY <1>0 DEF OpenType, Fields, Stage, Outcome, Booked, Committing
<1>4. Socket(s, own)
  BY <1>0 DEF OpenType, Fields, Stage, Socket, Ending, Gone, Committing
<1>5. Ending(s, own)
  BY <1>0 DEF OpenType, Fields, Stage, Ending, Socket, Gone, Terminal, Established, Committing
<1> QED BY <1>1, <1>2, <1>3, <1>4, <1>5 DEF OpenInv

\* A posted close finds the tunnel gone.
LEMMA CloseDropped ==
  ASSUME NEW r, NEW own \in BOOLEAN, OpenInv(r, own), ~own
  PROVE  OpenInv([r EXCEPT !.posts = @ \ {"close"}], own)
<1> DEFINE s == [r EXCEPT !.posts = @ \ {"close"}]
<1>0. OpenType(r) /\ Stage(r) /\ Outcome(r) /\ Socket(r, own) /\ Ending(r, own)
  BY DEF OpenInv
<1>1. OpenType(s)
  BY <1>0 DEF OpenType, Fields, Established, Terminal, Committing
<1>2. Stage(s)
  BY <1>0 DEF OpenType, Fields, Stage, Committing
<1>3. Outcome(s)
  BY <1>0 DEF OpenType, Fields, Stage, Outcome, Booked, Committing
<1>4. Socket(s, own)
  BY <1>0 DEF OpenType, Fields, Stage, Socket, Ending, Gone, Committing
<1>5. Ending(s, own)
  BY <1>0 DEF OpenType, Fields, Stage, Ending, Socket, Gone, Terminal, Established, Committing
<1> QED BY <1>1, <1>2, <1>3, <1>4, <1>5 DEF OpenInv

\* A posted removal has run.
LEMMA RemoveDone ==
  ASSUME NEW r, NEW own \in BOOLEAN, OpenInv(r, own), ~own
  PROVE  OpenInv([r EXCEPT !.posts = @ \ {"remove"}], own)
<1> DEFINE s == [r EXCEPT !.posts = @ \ {"remove"}]
<1>0. OpenType(r) /\ Stage(r) /\ Outcome(r) /\ Socket(r, own) /\ Ending(r, own)
  BY DEF OpenInv
<1>1. OpenType(s)
  BY <1>0 DEF OpenType, Fields, Established, Terminal, Committing
<1>2. Stage(s)
  BY <1>0 DEF OpenType, Fields, Stage, Committing
<1>3. Outcome(s)
  BY <1>0 DEF OpenType, Fields, Stage, Outcome, Booked, Committing
<1>4. Socket(s, own)
  BY <1>0 DEF OpenType, Fields, Stage, Socket, Ending, Gone, Committing
<1>5. Ending(s, own)
  BY <1>0 DEF OpenType, Fields, Stage, Ending, Socket, Gone, Terminal, Established, Committing
<1> QED BY <1>1, <1>2, <1>3, <1>4, <1>5 DEF OpenInv

\* claim_failure_booking(): the first to ask books.
LEMMA BookFacts ==
  ASSUME NEW r, ~r.booked, r.failed = 0
  PROVE  BookFailure(r) = [r EXCEPT !.booked = TRUE, !.failed = 1]
<1>1. BookFailure(r) = [r EXCEPT !.booked = TRUE, !.failed = r.failed + 1]
  BY Zenon DEF BookFailure
<1>2. r.failed + 1 = 1
  OBVIOUS
<1> QED BY <1>1, <1>2

\* Wiring is refused: the socket goes and the failure is booked.
LEMMA WireRefused ==
  ASSUME NEW r, OpenInv(r, FALSE), r.at = "handed"
  PROVE  OpenInv([BookFailure(Shut(r)) EXCEPT !.at = "idle"], FALSE)
<1> DEFINE q == Shut(r)
           s == [[q EXCEPT !.booked = TRUE, !.failed = 1] EXCEPT !.at = "idle"]
<1>0. OpenType(r) /\ Stage(r) /\ Outcome(r) /\ Socket(r, FALSE) /\ Ending(r, FALSE)
  BY DEF OpenInv
<1>1. /\ OpenType(q) /\ Kept(r, q) /\ q.shut = (r.sock /= "Disconnected")
      /\ q.tun = r.tun /\ q.notify = r.notify /\ q.gauge = r.gauge
  BY <1>0, ShutFacts
<1> HIDE DEF q
<1>2. BookFailure(q) = [q EXCEPT !.booked = TRUE, !.failed = 1]
  <2>1. ~q.booked /\ q.failed = 0
    BY <1>0, <1>1 DEF Outcome, Booked, Kept
  <2> QED BY <2>1, BookFacts, Zenon
<1>3. OpenType(s)
  BY <1>1 DEF OpenType, Fields
<1>4. Stage(s)
  BY <1>0, <1>1 DEF OpenType, Fields, Stage, Committing, Kept
<1>5. Outcome(s)
  BY <1>0, <1>1 DEF OpenType, Fields, Stage, Outcome, Booked, Committing, Kept
<1>6. Socket(s, FALSE)
  BY <1>0, <1>1 DEF OpenType, Fields, Stage, Socket, Gone, Kept
<1>7. Ending(s, FALSE)
  BY <1>0, <1>1 DEF OpenType, Fields, Stage, Ending, Gone, Terminal, Established, Kept
<1> QED BY <1>2, <1>3, <1>4, <1>5, <1>6, <1>7 DEF OpenInv, q

\* fail_prewire() of an OPEN nobody cancelled.
LEMMA PrewireFails ==
  ASSUME NEW q, OpenInv(q, FALSE), Cancellable(q), q.sock = "Disconnected"
  PROVE  OpenInv([BookFailure([q EXCEPT !.phase = "Resolved"]) EXCEPT !.at = "idle"], FALSE)
<1> DEFINE p == [q EXCEPT !.phase = "Resolved"]
           s == [[p EXCEPT !.booked = TRUE, !.failed = 1] EXCEPT !.at = "idle"]
<1>0. OpenType(q) /\ Stage(q) /\ Outcome(q) /\ Socket(q, FALSE) /\ Ending(q, FALSE)
  BY DEF OpenInv
<1>1. ~p.booked /\ p.failed = 0
  BY <1>0 DEF OpenType, Fields, Outcome, Booked, Cancellable
<1>2. BookFailure(p) = [p EXCEPT !.booked = TRUE, !.failed = 1]
  BY <1>1, BookFacts, Zenon
<1>3. OpenType(s)
  BY <1>0 DEF OpenType, Fields
<1>4. Stage(s)
  BY <1>0 DEF OpenType, Fields, Stage, Committing, Cancellable
<1>5. Outcome(s)
  <2>1. s.ok = 0 /\ s.failed = 1 /\ s.denied = 0 /\ s.gate = "none" /\ s.at = "idle" /\ s.phase = "Resolved"
    BY <1>0 DEF OpenType, Fields, Stage, Outcome, Booked, Cancellable
  <2> HIDE DEF s
  <2> QED BY <2>1 DEF Outcome
<1>6. Socket(s, FALSE)
  BY <1>0 DEF OpenType, Fields, Stage, Socket, Gone, Cancellable
<1>7. Ending(s, FALSE)
  BY <1>0 DEF OpenType, Fields, Stage, Ending, Gone, Terminal, Established, Cancellable
<1>8. OpenInv(s, FALSE)
  BY <1>3, <1>4, <1>5, <1>6, <1>7 DEF OpenInv
<1> QED BY <1>2, <1>8

\* The pre-wire teardown cancels the OPEN.
LEMMA PrewireTornDown ==
  ASSUME NEW q, OpenInv(q, FALSE), Cancellable(q)
  PROVE  OpenInv(BookFailure(Shut([q EXCEPT !.phase = "Resolved"])), FALSE)
<1> DEFINE p == [q EXCEPT !.phase = "Resolved"]
           u == Shut(p)
           s == [u EXCEPT !.booked = TRUE, !.failed = 1]
<1>0. OpenType(q) /\ Stage(q) /\ Outcome(q) /\ Socket(q, FALSE) /\ Ending(q, FALSE)
  BY DEF OpenInv
<1>1. /\ OpenType(p) /\ p.phase = "Resolved" /\ p.at = q.at /\ p.tun = q.tun /\ p.hooked = q.hooked
      /\ p.gate = q.gate /\ p.timer = q.timer /\ p.posts = q.posts /\ p.gauge = q.gauge
      /\ p.byTimer = q.byTimer /\ p.ok = q.ok /\ p.failed = q.failed /\ p.denied = q.denied
      /\ p.booked = q.booked /\ p.sock = q.sock /\ p.eof = q.eof /\ p.notify = q.notify
  BY <1>0 DEF OpenType, Fields
<1> HIDE DEF p
<1>2. /\ OpenType(u) /\ Kept(p, u) /\ u.shut = (p.sock /= "Disconnected")
      /\ u.tun = p.tun /\ u.notify = p.notify /\ u.gauge = p.gauge
  BY <1>1, ShutFacts
<1> HIDE DEF u
<1>3. BookFailure(u) = [u EXCEPT !.booked = TRUE, !.failed = 1]
  <2>1. ~u.booked /\ u.failed = 0
    BY <1>0, <1>1, <1>2 DEF Outcome, Booked, Kept, Cancellable
  <2> QED BY <2>1, BookFacts, Zenon
<1>4. OpenType(s)
  BY <1>2 DEF OpenType, Fields
<1>5. Stage(s)
  BY <1>0, <1>1, <1>2 DEF OpenType, Fields, Stage, Committing, Cancellable, Kept
<1>6. Outcome(s)
  <2>1. /\ s.ok = u.ok /\ s.failed = 1 /\ s.denied = u.denied /\ s.gate = u.gate
        /\ s.phase = u.phase /\ s.at = u.at
    BY <1>2 DEF OpenType, Fields
  <2>2. /\ u.ok = 0 /\ u.denied = 0 /\ u.gate = "none" /\ u.phase = "Resolved"
        /\ u.at \in {"resolving", "connecting"}
    BY <1>0, <1>1, <1>2 DEF Stage, Outcome, Booked, Cancellable, Kept
  <2> HIDE DEF s
  <2> QED BY <2>1, <2>2 DEF Outcome
<1>7. Socket(s, FALSE)
  BY <1>0, <1>1, <1>2 DEF OpenType, Fields, Stage, Socket, Gone, Cancellable, Kept
<1>8. Ending(s, FALSE)
  BY <1>0, <1>1, <1>2 DEF OpenType, Fields, Stage, Ending, Gone, Terminal, Established,
                          Cancellable, Kept
<1> QED BY <1>3, <1>4, <1>5, <1>6, <1>7, <1>8 DEF OpenInv, u, p

\* The close notification of a wired tunnel posts its removal.
LEMMA NotifiedHooked ==
  ASSUME NEW r, NEW own \in BOOLEAN, OpenInv(r, own), r.notify = "due", r.hooked
  PROVE  OpenInv([active_gauge_release(Shut([r EXCEPT !.notify = "done"]))
                    EXCEPT !.posts = @ \cup {"remove"}], own)
<1> DEFINE d == [r EXCEPT !.notify = "done"]
           p == active_gauge_release(Shut(d))
           s == [p EXCEPT !.posts = @ \cup {"remove"}]
<1>0. OpenType(r) /\ Stage(r) /\ Outcome(r) /\ Socket(r, own) /\ Ending(r, own)
  BY DEF OpenInv
<1>1. OpenType(d) /\ Kept(r, d) /\ d.notify = "done" /\ d.tun = r.tun
  BY <1>0 DEF OpenType, Fields, Kept
<1> HIDE DEF d
<1>2. /\ OpenType(p) /\ Kept(r, p) /\ p.notify = "done" /\ p.gauge = "Released" /\ p.tun = r.tun
      /\ p.shut = (r.sock /= "Disconnected")
  <2>1. OpenType(Shut(d)) /\ Kept(r, Shut(d)) /\ Shut(d).notify = "done" /\ Shut(d).tun = r.tun
    BY <1>1, ShutFacts, KeptTrans
  <2>2. Shut(d).shut = (r.sock /= "Disconnected")
    BY <1>1, ShutFacts DEF Kept
  <2> QED BY <2>1, <2>2, ReleaseFacts, KeptTrans
<1> HIDE DEF p
<1>3. OpenType(s)
  BY <1>2 DEF OpenType, Fields
<1>4. /\ \A f \in Fields \ {"posts"} : s[f] = p[f]
      /\ s.posts = p.posts \cup {"remove"}
  BY <1>2 DEF OpenType, Fields
<1> HIDE DEF s
<1>5. /\ s.phase = r.phase /\ s.at = r.at /\ s.hooked = r.hooked /\ s.gate = r.gate
      /\ s.timer = r.timer /\ s.byTimer = r.byTimer /\ s.booked = r.booked /\ s.ok = r.ok
      /\ s.failed = r.failed /\ s.denied = r.denied /\ s.sock = r.sock /\ s.gone = r.gone
      /\ s.eof = r.eof /\ s.abnormal = r.abnormal /\ s.notify = "done" /\ s.gauge = "Released"
      /\ s.tun = r.tun /\ s.shut = (r.sock /= "Disconnected") /\ s.posts = r.posts \cup {"remove"}
  BY <1>2, <1>4 DEF Fields, Kept
<1>6. Stage(s)
  BY <1>0, <1>5 DEF Stage
<1>7. Outcome(s)
  BY <1>0, <1>5 DEF Stage, Outcome, Booked
<1>8. Socket(s, own)
  BY <1>0, <1>5 DEF Stage, Socket, Gone
<1>9. Ending(s, own)
  BY <1>0, <1>5 DEF Stage, Ending, Gone, Terminal, Established
<1> QED BY <1>3, <1>6, <1>7, <1>8, <1>9 DEF OpenInv, s, p, d

\* A tunnel that ended while it was being wired: the gate never opens.
LEMMA RecheckEnds ==
  ASSUME NEW o, NEW r, OpenInv(r, Owns(o)), r.at = "recheck", r.tun \in Terminal
  PROVE  LET p == [active_gauge_release(Shut(r)) EXCEPT !.gate = "Abandoned"]
         IN  OpenInv([BookFailure(RemoveIf(o, p)) EXCEPT !.at = "idle"], FALSE)
<1> DEFINE own == Owns(o)
           d == active_gauge_release(Shut(r))
           p == [d EXCEPT !.gate = "Abandoned"]
           q == RemoveIf(o, p)
           s == [[q EXCEPT !.booked = TRUE, !.failed = 1] EXCEPT !.at = "idle"]
<1>0. OpenType(r) /\ Stage(r) /\ Outcome(r) /\ Socket(r, own) /\ Ending(r, own)
  BY DEF OpenInv
<1> HIDE DEF own
<1>1. /\ OpenType(d) /\ Kept(r, d) /\ d.gauge = "Released" /\ d.tun = r.tun /\ d.notify = r.notify
      /\ d.shut = (r.sock /= "Disconnected")
  <2>1. /\ OpenType(Shut(r)) /\ Kept(r, Shut(r)) /\ Shut(r).tun = r.tun /\ Shut(r).notify = r.notify
        /\ Shut(r).shut = (r.sock /= "Disconnected")
    BY <1>0, ShutFacts
  <2> QED BY <2>1, ReleaseFacts, KeptTrans
<1> HIDE DEF d
<1>2. /\ OpenType(p) /\ p.gate = "Abandoned" /\ p.tun \in Terminal /\ p.notify = r.notify
      /\ p.shut = (p.sock /= "Disconnected") /\ p.gauge = "Released" /\ p.hooked = r.hooked
      /\ p.phase = r.phase /\ p.at = r.at /\ p.booked = r.booked /\ p.ok = r.ok
      /\ p.failed = r.failed /\ p.denied = r.denied /\ p.sock = r.sock /\ p.posts = r.posts
      /\ p.eof = r.eof
  <2>0. OpenType(d)
    BY <1>1
  <2>1. OpenType(p)
    BY <2>0 DEF OpenType, Fields
  <2>2. p.gate = "Abandoned" /\ \A f \in Fields \ {"gate"} : p[f] = d[f]
    BY <1>1 DEF OpenType, Fields
  <2> HIDE DEF p
  <2> QED BY <2>1, <2>2, <1>0, <1>1 DEF Fields, Kept
<1> HIDE DEF p
<1>3. /\ OpenType(q) /\ Kept(p, q) /\ q.tun \in Terminal /\ q.notify = p.notify
      /\ q.shut = (p.sock /= "Disconnected") /\ q.gauge = "Released"
  <2>1. CASE Owns(o)
    <3>1. q = ForceClose(p)
      BY <1>2, <2>1 DEF RemoveIf, LetGo, Terminal
    <3>2. p.hooked
      BY <1>0, <1>2 DEF Stage
    <3> QED BY <1>2, <3>1, <3>2, ForceCloseFacts
  <2>2. CASE ~Owns(o)
    BY <1>2, <2>2 DEF RemoveIf, Kept
  <2> QED BY <2>1, <2>2
<1> HIDE DEF q
<1>4. BookFailure(q) = [q EXCEPT !.booked = TRUE, !.failed = 1]
  <2>1. ~q.booked /\ q.failed = 0
    BY <1>0, <1>2, <1>3 DEF Stage, Outcome, Booked, Kept
  <2> QED BY <2>1, BookFacts, Zenon
<1>5. OpenType(s)
  BY <1>3 DEF OpenType, Fields
<1>6. /\ s.phase = "Handed" /\ s.at = "idle" /\ s.hooked = TRUE /\ s.gate = "Abandoned"
      /\ s.ok = 0 /\ s.failed = 1 /\ s.denied = 0 /\ s.sock \in {"Connected", "Disconnected"}
      /\ s.shut = (s.sock /= "Disconnected") /\ s.gauge = "Released" /\ s.tun \in Terminal
      /\ s.notify /= "no" /\ "abandon" \notin s.posts /\ ~s.eof
  <2>1. s.failed = 1 /\ s.at = "idle" /\ \A f \in Fields \ {"booked", "failed", "at"} : s[f] = q[f]
    BY <1>3 DEF OpenType, Fields
  <2>2. /\ r.phase = "Handed" /\ r.hooked = TRUE /\ r.ok = 0 /\ r.denied = 0 /\ r.notify /= "no"
        /\ r.sock \in {"Connected", "Disconnected"} /\ "abandon" \notin r.posts /\ ~r.eof
    BY <1>0 DEF OpenType, Stage, Outcome, Booked, Socket, Ending
  <2>3. /\ q.phase = "Handed" /\ q.hooked = TRUE /\ q.gate = "Abandoned" /\ q.ok = 0 /\ q.denied = 0
        /\ q.sock \in {"Connected", "Disconnected"} /\ "abandon" \notin q.posts /\ ~q.eof
        /\ q.notify /= "no" /\ q.shut = (q.sock /= "Disconnected")
    BY <1>2, <1>3, <2>2 DEF Kept
  <2> HIDE DEF s
  <2> QED BY <2>1, <2>3, <1>3 DEF Fields
<1> HIDE DEF s
<1>7. Stage(s) /\ Outcome(s)
  BY <1>5, <1>6 DEF OpenType, Stage, Outcome, Booked, Committing
<1>8. Socket(s, FALSE)
  BY <1>6 DEF Socket, Gone
<1>9. Ending(s, FALSE)
  BY <1>6 DEF Ending, Gone, Terminal, Established
<1> QED BY <1>4, <1>5, <1>7, <1>8, <1>9 DEF OpenInv, s, q, p, d

\* abort_open_ack_after_send() and abandon_open_ack() end everything.
LEMMA ReleaseEnds ==
  ASSUME NEW o, NEW r, OpenInv(r, Owns(o)), r.hooked, r.failed = 0
  PROVE  LET s == Release(o, r)
         IN  /\ OpenType(s) /\ Kept([r EXCEPT !.failed = 1], s) /\ s.tun \in Terminal
             /\ s.notify /= "no" /\ s.gauge = "Released" /\ s.shut = (s.sock /= "Disconnected")
<1> DEFINE p == [r EXCEPT !.failed = 1]
           q == RemoveIf(o, p)
           f == ForceClose(q)
           h == Shut(f)
<1>0. OpenType(r) /\ Ending(r, Owns(o))
  BY DEF OpenInv
<1>1. [r EXCEPT !.failed = @ + 1] = p
  <2>1. r.failed + 1 = 1
    OBVIOUS
  <2>2. [r EXCEPT !.failed = @ + 1] = [r EXCEPT !.failed = r.failed + 1]
    BY Zenon
  <2> QED BY <2>1, <2>2
<1>2. OpenType(p) /\ p.tun = r.tun /\ p.notify = r.notify /\ p.hooked
  BY <1>0 DEF OpenType, Fields
<1>3. Release(o, r) = active_gauge_release(h)
  BY <1>1, Zenon DEF Release
<1>4. p.tun \in Terminal => p.notify /= "no"
  BY <1>0, <1>2 DEF Ending
<1> HIDE DEF p
<1>5. OpenType(q) /\ Kept(p, q) /\ (q.tun \in Terminal => q.notify /= "no")
  <2>1. CASE Owns(o)
    <3>1. q = LetGo(p)
      BY <2>1 DEF RemoveIf
    <3>2. CASE p.tun = "Connected"
      BY <1>2, <3>1, <3>2, LetGoFacts DEF Terminal
    <3>3. CASE p.tun /= "Connected"
      BY <1>2, <1>4, <3>1, <3>3, LetGoFacts, ForceCloseFacts
    <3> QED BY <3>2, <3>3
  <2>2. CASE ~Owns(o)
    BY <1>2, <1>4, <2>2 DEF RemoveIf, Kept
  <2> QED BY <2>1, <2>2
<1> HIDE DEF q
<1>6. OpenType(f) /\ Kept(p, f) /\ f.tun \in Terminal /\ f.notify /= "no"
  BY <1>5, ForceCloseFacts, KeptTrans
<1> HIDE DEF f
<1>7. /\ OpenType(h) /\ Kept(p, h) /\ h.tun \in Terminal /\ h.notify /= "no"
  BY <1>6, ShutFacts, KeptTrans
<1>8. h.shut = (h.sock /= "Disconnected")
  BY <1>6, ShutFacts DEF Kept
<1> HIDE DEF h
<1>9. LET s == active_gauge_release(h)
      IN  /\ OpenType(s) /\ Kept(p, s) /\ s.tun \in Terminal
          /\ s.notify /= "no" /\ s.gauge = "Released" /\ s.shut = (s.sock /= "Disconnected")
  <2>1. active_gauge_release(h).sock = h.sock
    BY <1>7, ReleaseFacts DEF Kept
  <2> QED BY <1>7, <1>8, <2>1, ReleaseFacts, KeptTrans
<1> QED BY <1>3, <1>9 DEF p

\* What both leave: an abandoned gate and nothing held.
LEMMA AbortEnds ==
  ASSUME NEW o, NEW r, OpenInv(r, Owns(o)), r.at = "abort"
  PROVE  OpenInv([Release(o, r) EXCEPT !.at = "unsettle"], FALSE)
<1> DEFINE p == [r EXCEPT !.failed = 1]
           q == Release(o, r)
           s == [q EXCEPT !.at = "unsettle"]
<1>0. OpenType(r) /\ Stage(r) /\ Outcome(r) /\ Socket(r, Owns(o)) /\ Ending(r, Owns(o))
  BY DEF OpenInv
<1>1. r.hooked /\ r.failed = 0 /\ r.ok = 0 /\ r.denied = 0 /\ r.gate = "Committing" /\ r.phase = "Handed"
  BY <1>0 DEF Stage, Outcome, Booked, Committing
<1>2. /\ p.gate = "Committing" /\ p.phase = "Handed" /\ p.hooked = TRUE /\ p.failed = 1 /\ p.ok = 0
      /\ p.denied = 0 /\ p.sock = r.sock /\ p.posts = r.posts /\ p.gone = r.gone /\ p.eof = r.eof
  BY <1>0, <1>1 DEF OpenType, Fields
<1>3. /\ OpenType(q) /\ Kept(p, q) /\ q.tun \in Terminal
      /\ q.notify /= "no" /\ q.gauge = "Released" /\ q.shut = (q.sock /= "Disconnected")
  BY <1>1, ReleaseEnds
<1> HIDE DEF p, q
<1>4. OpenType(s)
  BY <1>3 DEF OpenType, Fields, Committing
<1>5. /\ s.phase = "Handed" /\ s.at = "unsettle" /\ s.hooked = TRUE /\ s.gate = "Committing"
      /\ s.ok = 0 /\ s.failed = 1 /\ s.denied = 0 /\ s.sock \in {"Connected", "Disconnected"}
      /\ s.shut = (s.sock /= "Disconnected") /\ s.gauge = "Released" /\ s.tun \in Terminal
      /\ s.notify /= "no" /\ "abandon" \notin s.posts /\ ~s.eof
      /\ (s.sock /= "Connected" => s.gone)
  <2>1. s.at = "unsettle" /\ \A f \in Fields \ {"at"} : s[f] = q[f]
    BY <1>3 DEF OpenType, Fields
  <2>2. /\ q.phase = "Handed" /\ q.hooked = TRUE /\ q.gate = "Committing" /\ q.ok = 0
        /\ q.failed = 1 /\ q.denied = 0
    BY <1>2, <1>3 DEF Kept
  <2>3. /\ q.sock \in {"Connected", "Disconnected"} /\ "abandon" \notin q.posts /\ ~q.eof
        /\ (q.sock /= "Connected" => q.gone)
    BY <1>0, <1>1, <1>2, <1>3 DEF OpenType, Kept, Stage, Socket
  <2> HIDE DEF s
  <2> QED BY <2>1, <2>2, <2>3, <1>3 DEF Fields
<1> HIDE DEF s
<1>6. Stage(s) /\ Outcome(s)
  BY <1>4, <1>5 DEF OpenType, Stage, Outcome, Booked, Committing
<1>7. Socket(s, FALSE)
  BY <1>5 DEF Socket, Gone
<1>8. Ending(s, FALSE)
  BY <1>5 DEF Ending, Gone, Terminal, Established
<1> QED BY <1>4, <1>6, <1>7, <1>8 DEF OpenInv, s, q

\* abandon_open_ack() leaves nothing behind.
LEMMA AbandonEnds ==
  ASSUME NEW o, NEW r, OpenInv(r, Owns(o)), "abandon" \in r.posts
  PROVE  OpenInv([Release(o, r) EXCEPT !.posts = @ \ {"abandon"}], FALSE)
<1> DEFINE p == [r EXCEPT !.failed = 1]
           q == Release(o, r)
           s == [q EXCEPT !.posts = @ \ {"abandon"}]
<1>0. OpenType(r) /\ Stage(r) /\ Outcome(r) /\ Socket(r, Owns(o)) /\ Ending(r, Owns(o))
  BY DEF OpenInv
<1>1. r.hooked /\ r.failed = 0 /\ r.ok = 0 /\ r.denied = 0 /\ r.gate = "Abandoned" /\ r.phase = "Handed"
  BY <1>0 DEF Stage, Outcome, Booked
<1>2. /\ p.gate = "Abandoned" /\ p.phase = "Handed" /\ p.hooked = TRUE /\ p.failed = 1 /\ p.ok = 0
      /\ p.denied = 0 /\ p.sock = r.sock /\ p.posts = r.posts /\ p.at = r.at /\ p.eof = r.eof
  BY <1>0, <1>1 DEF OpenType, Fields
<1>3. /\ OpenType(q) /\ Kept(p, q) /\ q.tun \in Terminal
      /\ q.notify /= "no" /\ q.gauge = "Released" /\ q.shut = (q.sock /= "Disconnected")
  BY <1>1, ReleaseEnds
<1> HIDE DEF p, q
<1>4. OpenType(s)
  BY <1>3 DEF OpenType, Fields
<1>5. /\ s.phase = "Handed" /\ s.hooked = TRUE /\ s.gate = "Abandoned" /\ s.at = r.at
      /\ s.ok = 0 /\ s.failed = 1 /\ s.denied = 0 /\ s.sock \in {"Connected", "Disconnected"}
      /\ s.shut = (s.sock /= "Disconnected") /\ s.gauge = "Released" /\ s.tun \in Terminal
      /\ s.notify /= "no" /\ "abandon" \notin s.posts /\ ~s.eof
  <2>1. s.posts = q.posts \ {"abandon"} /\ \A f \in Fields \ {"posts"} : s[f] = q[f]
    BY <1>3 DEF OpenType, Fields
  <2>2. /\ q.phase = "Handed" /\ q.hooked = TRUE /\ q.gate = "Abandoned" /\ q.ok = 0
        /\ q.failed = 1 /\ q.denied = 0 /\ q.at = r.at
    BY <1>2, <1>3 DEF Kept
  <2>3. q.sock \in {"Connected", "Disconnected"} /\ ~q.eof
    BY <1>0, <1>1, <1>2, <1>3 DEF OpenType, Kept, Stage, Socket
  <2> HIDE DEF s
  <2> QED BY <2>1, <2>2, <2>3, <1>3 DEF Fields
<1>6. s.at = "idle"
  BY <1>0, <1>1, <1>5 DEF OpenType, Stage, Committing
<1> HIDE DEF s
<1>7. Stage(s) /\ Outcome(s)
  BY <1>4, <1>5, <1>6 DEF OpenType, Stage, Outcome, Booked, Committing
<1>8. Socket(s, FALSE)
  BY <1>5, <1>6 DEF Socket, Gone
<1>9. Ending(s, FALSE)
  BY <1>5, <1>6 DEF Ending, Gone, Terminal, Established
<1> QED BY <1>4, <1>7, <1>8, <1>9 DEF OpenInv, s, q

\* The posted close of a registered tunnel whose target is gone ends it.
LEMMA CloseEnds ==
  ASSUME NEW r, OpenInv(r, TRUE), "close" \in r.posts,
         NEW p, p = [r EXCEPT !.posts = @ \ {"close"}]
  PROVE  /\ r.abnormal /\ r.tun \in Established => OpenInv(Terminate(p, "Error"), TRUE)
         /\ ~(r.abnormal /\ r.tun \in Established) => OpenInv(Close(p), TRUE)
<1>0. OpenType(r) /\ Stage(r) /\ Outcome(r) /\ Socket(r, TRUE) /\ Ending(r, TRUE)
  BY DEF OpenInv
<1>1. OpenType(p)
  BY <1>0 DEF OpenType, Fields
<1>2. p.posts = r.posts \ {"close"} /\ \A f \in Fields \ {"posts"} : p[f] = r[f]
  BY <1>0 DEF OpenType, Fields
<1>3. r.hooked = TRUE
  BY <1>0 DEF Stage, OpenType
<1>4. ASSUME r.abnormal, r.tun \in Established PROVE OpenInv(Terminate(p, "Error"), TRUE)
  <2> DEFINE s == Terminate(p, "Error")
  <2>1. "Error" \in Terminal /\ p.tun \notin Terminal
    BY <1>2, <1>4 DEF Terminal, Established, Fields
  <2>2. /\ OpenType(s) /\ Kept(p, s) /\ s.tun = "Error" /\ s.gauge = "Released"
        /\ s.notify = (IF p.notify = "no" THEN "due" ELSE p.notify)
        /\ s.shut = (p.sock /= "Disconnected")
    <3>1. p.hooked = TRUE
      BY <1>2, <1>3 DEF Fields
    <3> QED BY <1>1, <2>1, <3>1, TerminateFacts
  <2> HIDE DEF s
  <2>3. /\ s.phase = r.phase /\ s.at = r.at /\ s.hooked = r.hooked /\ s.gate = r.gate
        /\ s.timer = r.timer /\ s.byTimer = r.byTimer /\ s.booked = r.booked /\ s.ok = r.ok
        /\ s.failed = r.failed /\ s.denied = r.denied /\ s.sock = r.sock /\ s.gone = r.gone
        /\ s.eof = r.eof /\ s.abnormal = r.abnormal /\ s.posts = r.posts \ {"close"}
        /\ s.notify = (IF r.notify = "no" THEN "due" ELSE r.notify)
        /\ s.shut = (r.sock /= "Disconnected")
    BY <1>2, <2>2 DEF Fields, Kept
  <2>4. Stage(s) /\ Outcome(s)
    BY <1>0, <2>3 DEF Stage, Outcome, Booked
  <2>5. Socket(s, TRUE)
    BY <1>0, <2>2, <2>3 DEF Stage, Socket, Gone, Committing
  <2>6. Ending(s, TRUE)
    BY <1>0, <2>2, <2>3 DEF Stage, Ending, Gone, Terminal, Established
  <2> QED BY <2>2, <2>4, <2>5, <2>6 DEF OpenInv, s
<1>5. ASSUME ~(r.abnormal /\ r.tun \in Established) PROVE OpenInv(Close(p), TRUE)
  <2> DEFINE s == Close(p)
  <2>1. /\ OpenType(s) /\ Kept(p, s) /\ s.gauge = p.gauge /\ s.shut = p.shut
        /\ p.tun /= "Connected" => s = p
        /\ p.tun = "Connected" =>
             s.tun = "Disconnecting" /\ s.notify = IF p.notify = "no" THEN "due" ELSE p.notify
    BY <1>1, CloseFacts
  <2> HIDE DEF s
  <2>2. /\ s.phase = r.phase /\ s.at = r.at /\ s.hooked = r.hooked /\ s.gate = r.gate
        /\ s.timer = r.timer /\ s.byTimer = r.byTimer /\ s.booked = r.booked /\ s.ok = r.ok
        /\ s.failed = r.failed /\ s.denied = r.denied /\ s.sock = r.sock /\ s.gone = r.gone
        /\ s.eof = r.eof /\ s.abnormal = r.abnormal /\ s.posts = r.posts \ {"close"}
        /\ s.gauge = r.gauge /\ s.shut = r.shut
        /\ s.tun = (IF r.tun = "Connected" THEN "Disconnecting" ELSE r.tun)
        /\ s.notify = (IF r.tun = "Connected" /\ r.notify = "no" THEN "due" ELSE r.notify)
    BY <1>2, <2>1 DEF Fields, Kept
  <2>3. r.gate = "Committed" /\ r.sock /= "Connected" => s.notify /= "no"
    BY <1>0, <1>5, <2>2 DEF Socket, Ending, OpenType, Terminal, Established
  <2>4. Stage(s) /\ Outcome(s)
    BY <1>0, <2>2 DEF Stage, Outcome, Booked
  <2>5. Socket(s, TRUE)
    BY <1>0, <2>2, <2>3 DEF Stage, Socket, Gone, Committing
  <2>6. Ending(s, TRUE)
    BY <1>0, <2>2 DEF Stage, Ending, Gone, Terminal, Established, OpenType
  <2> QED BY <2>1, <2>4, <2>5, <2>6 DEF OpenInv, s
<1> QED BY <1>4, <1>5

\* The record of an OPEN that has not arrived.
LEMMA FreshType == OpenType(Fresh)
BY DEF OpenType, Fresh, Fields, Committing, Established, Terminal

\* An OPEN the policy or a used id refuses.
LEMMA RefusedOpen ==
  ASSUME NEW g \in Managers \cup {0}, NEW n \in {0, 1}
  PROVE  OpenInv([Fresh EXCEPT !.phase = "Resolved", !.m = g, !.denied = n], FALSE)
<1> DEFINE s == [Fresh EXCEPT !.phase = "Resolved", !.m = g, !.denied = n]
<1>1. OpenType(s)
  BY FreshType DEF OpenType, Fields
<1>2. /\ s.phase = "Resolved" /\ s.at = "idle" /\ s.hooked = FALSE /\ s.gate = "none" /\ ~s.timer
      /\ s.posts = {} /\ s.gauge = "NotCounted" /\ s.byTimer = FALSE /\ s.ok = 0 /\ s.failed = 0
      /\ s.denied = n /\ s.sock = "Disconnected" /\ ~s.shut /\ ~s.eof /\ s.tun = "None"
      /\ s.notify = "no"
  BY DEF Fresh
<1> HIDE DEF s
<1>3. Stage(s)
  BY <1>2 DEF Stage, Committing
<1>6. Outcome(s)
  BY <1>2 DEF Outcome, Booked
<1>4. Socket(s, FALSE)
  BY <1>2 DEF Socket, Gone
<1>5. Ending(s, FALSE)
  BY <1>2 DEF Ending, Terminal, Established
<1> QED BY <1>1, <1>3, <1>4, <1>5, <1>6 DEF OpenInv, s

\* An OPEN that is registered and resolved.
LEMMA AcceptedOpen ==
  ASSUME NEW g \in Managers
  PROVE  OpenInv([Fresh EXCEPT !.phase = "Resolving", !.m = g, !.at = "resolving"], TRUE)
<1> DEFINE s == [Fresh EXCEPT !.phase = "Resolving", !.m = g, !.at = "resolving"]
<1>1. OpenType(s)
  BY FreshType DEF OpenType, Fields
<1>2. /\ s.phase = "Resolving" /\ s.at = "resolving" /\ s.hooked = FALSE /\ s.gate = "none" /\ ~s.timer
      /\ s.posts = {} /\ s.gauge = "NotCounted" /\ s.byTimer = FALSE /\ s.ok = 0 /\ s.failed = 0
      /\ s.denied = 0 /\ s.sock = "Disconnected" /\ ~s.shut /\ ~s.eof /\ s.tun = "None"
      /\ s.notify = "no" /\ ~s.booked
  BY DEF Fresh
<1> HIDE DEF s
<1>3. Stage(s)
  BY <1>2 DEF Stage, Committing
<1>6. Outcome(s)
  BY <1>2 DEF Outcome, Booked
<1>4. Socket(s, TRUE)
  BY <1>2 DEF Socket, Gone
<1>5. Ending(s, TRUE)
  BY <1>2 DEF Ending, Terminal, Established
<1> QED BY <1>1, <1>3, <1>4, <1>5, <1>6 DEF OpenInv, s

\* An OPEN that has not arrived is in order.
LEMMA FreshOpen == OpenInv(Fresh, FALSE)
<1>1. Stage(Fresh)
  BY DEF Fresh, Stage, Committing
<1>3. Outcome(Fresh)
  BY DEF Fresh, Outcome, Booked
<1>2. Socket(Fresh, FALSE) /\ Ending(Fresh, FALSE)
  BY DEF Fresh, Socket, Gone, Ending, Terminal, Established
<1> QED BY <1>1, <1>2, <1>3, FreshType DEF OpenInv

----------------------------------------------------------------------------
(* A step of one OPEN keeps the table and the records. *)

\* A step of one OPEN: its new record, and whether it is still registered.
Moved(o, s) ==
  /\ op' = [op EXCEPT ![o] = s] /\ s.m = op[o].m
  /\ s.gate = "none" => op[o].gate = "none"
  /\ \/ reg' = reg /\ OpenInv(s, Owns(o))
     \/ Unregister(o) /\ OpenInv(s, FALSE)

\* A tunnel is registered or not.
LEMMA OwnsBool == ASSUME NEW o PROVE Owns(o) \in BOOLEAN
BY DEF Owns, Alive

\* Such a step leaves every other OPEN as it is.
LEMMA MovedKeeps ==
  ASSUME Table, \A p \in Opens : OpenInv(op[p], Owns(p)), NEW o \in Opens, NEW s, Moved(o, s),
         UNCHANGED man
  PROVE  /\ Table' /\ (\A p \in Opens : OpenInv(op[p], Owns(p)))'
         /\ \A p \in Opens : op[p]'.gate = "none" => op[p].gate = "none"
<1>1. op'[o] = s /\ \A p \in Opens \ {o} : op'[p] = op[p]
  BY DEF Moved, Table
<1>2. /\ reg' \in [Managers -> SUBSET Opens]
      /\ \A g \in Managers, p \in Opens : p \in reg'[g] => p \in reg[g]
      /\ \A g \in Managers, p \in Opens \ {o} : p \in reg'[g] <=> p \in reg[g]
  <2>1. CASE reg' = reg
    BY <2>1 DEF Table
  <2>2. CASE op[o].m \in Managers /\ reg' = [reg EXCEPT ![op[o].m] = @ \ {o}]
    BY <2>2 DEF Table
  <2> QED BY <2>1, <2>2 DEF Moved, Unregister, Owns, Alive
<1>3. \A p \in Opens : op'[p].m = op[p].m
  BY <1>1 DEF Moved
<1>4. \A p \in Opens \ {o} : Owns(p)' = Owns(p)
  BY <1>1, <1>2, <1>3 DEF Owns, Alive
<1>5. OpenInv(s, Owns(o)')
  <2>1. CASE reg' = reg /\ OpenInv(s, Owns(o))
    <3>1. Owns(o)' = Owns(o)
      BY <1>3, <2>1 DEF Owns, Alive
    <3> QED BY <2>1, <3>1
  <2>2. CASE Unregister(o) /\ OpenInv(s, FALSE)
    <3>1. Owns(o)' = FALSE
      BY <1>3, <2>2 DEF Owns, Alive, Unregister, Table
    <3> QED BY <2>2, <3>1
  <2> QED BY <2>1, <2>2 DEF Moved
<1>6. Table'
  <2>1. DOMAIN op' = Opens
    BY DEF Moved, Table
  <2> QED BY <1>2, <1>3, <2>1 DEF Table
<1>7. \A p \in Opens : OpenInv(op'[p], Owns(p)')
  BY <1>1, <1>4, <1>5
<1> QED BY <1>1, <1>6, <1>7 DEF Moved

\* fail_prewire().
LEMMA PrewireMoves ==
  ASSUME NEW o, NEW r, OpenInv(r, Owns(o)), r.m = op[o].m, r.gate = op[o].gate, Cancellable(r),
         r.sock = "Disconnected", fail_prewire(o, r)
  PROVE  \E s : Moved(o, s)
<1> DEFINE q == RemoveIf(o, r)
           s == [BookFailure([q EXCEPT !.phase = "Resolved"]) EXCEPT !.at = "idle"]
<1>1. OpenInv(q, FALSE) /\ Kept(r, q)
  BY RemoveKeeps
<1>2. Set(o, s) /\ Unregister(o)
  BY DEF fail_prewire, Go
<1> HIDE DEF q
<1>3. Cancellable(q) /\ q.sock = "Disconnected" /\ q.m = r.m /\ q.gate = r.gate /\ OpenType(q)
  BY <1>1 DEF Cancellable, Kept, OpenInv
<1>4. OpenInv(s, FALSE)
  BY <1>1, <1>3, PrewireFails
<1>5. s.m = q.m /\ s.gate = q.gate
  BY <1>3 DEF BookFailure, OpenType, Fields
<1>6. Moved(o, s)
  BY <1>2, <1>3, <1>4, <1>5 DEF Moved, Set
<1> QED BY <1>6

\* The resolver's answer.
LEMMA ResolveMoves ==
  ASSUME NEW o, OpenInv(op[o], Owns(o)), NEW good \in BOOLEAN, ResolveEnds(o, good)
  PROVE  \E s : Moved(o, s)
<1> DEFINE r == op[o]
<1>0. OpenType(r) /\ Stage(r) /\ Socket(r, Owns(o)) /\ r.at = "resolving" /\ Owns(o) \in BOOLEAN
  BY OwnsBool DEF OpenInv, ResolveEnds, At
<1>1. CASE good /\ r.phase = "Resolving"
  <2> DEFINE s == [[r EXCEPT !.phase = "Connecting", !.sock = "Connecting"] EXCEPT !.at = "connecting"]
  <2>1. Set(o, s) /\ reg' = reg
    BY <1>1 DEF ResolveEnds, Go
  <2>2. OpenInv(s, Owns(o)) /\ s.m = r.m /\ s.gate = r.gate
    BY <1>0, <1>1, ResolveGood DEF OpenType, Fields
  <2>3. Moved(o, s)
    BY <2>1, <2>2 DEF Moved, Set
  <2> QED BY <2>3
<1>2. CASE ~(good /\ r.phase = "Resolving")
  <2>1. fail_prewire(o, r)
    BY <1>2 DEF ResolveEnds
  <2>2. CASE r.phase = "Resolving"
    BY <1>0, <2>1, <2>2, PrewireMoves DEF Cancellable, Socket
  <2>3. CASE r.phase = "Resolved"
    <3> DEFINE s == [r EXCEPT !.at = "idle"]
    <3>1. Set(o, s) /\ reg' = reg
      BY <2>1, <2>3 DEF fail_prewire, Go, Cancellable
    <3>2. OpenInv(s, Owns(o)) /\ s.m = r.m /\ s.gate = r.gate
      BY <1>0, <2>3, ResolveStopped DEF OpenType, Fields
    <3>3. Moved(o, s)
      BY <3>1, <3>2 DEF Moved, Set
    <3> QED BY <3>3
  <2> QED BY <1>0, <2>2, <2>3 DEF Stage, OpenType
<1> QED BY <1>1, <1>2

\* The end of the connect.
LEMMA ConnectMoves ==
  ASSUME NEW o, OpenInv(op[o], Owns(o)), NEW good \in BOOLEAN, ConnectEnds(o, good)
  PROVE  \E s : Moved(o, s)
<1> DEFINE c == IF good /\ op[o].sock = "Connecting" THEN "Connected" ELSE "Disconnected"
           r == [op[o] EXCEPT !.sock = c]
<1>0. /\ OpenType(op[o]) /\ Stage(op[o]) /\ Ending(op[o], Owns(o)) /\ op[o].at = "connecting"
      /\ Owns(o) \in BOOLEAN /\ c \in {"Connected", "Disconnected"}
  BY OwnsBool DEF OpenInv, ConnectEnds, At
<1>1. /\ IF r.phase = "Connecting" /\ r.sock = "Connected"
         THEN Go(o, [r EXCEPT !.phase = "Handed"], "handed") /\ UNCHANGED <<reg, wire>>
         ELSE IF r.phase = "Resolved" THEN Go(o, Shut(r), "idle") /\ UNCHANGED <<reg, wire>>
         ELSE fail_prewire(o, r)
  BY Zenon DEF ConnectEnds
<1> HIDE DEF c
<1>2. /\ r.phase = op[o].phase /\ r.m = op[o].m /\ r.gate = op[o].gate /\ r.sock = c
      /\ r.phase \in {"Connecting", "Resolved"}
  BY <1>0 DEF OpenType, Fields, Stage
<1>3. CASE r.phase = "Connecting" /\ c = "Connected"
  <2> DEFINE s == [[op[o] EXCEPT !.sock = "Connected", !.phase = "Handed"] EXCEPT !.at = "handed"]
  <2>1. Set(o, s) /\ reg' = reg
    BY <1>1, <1>2, <1>3 DEF Go
  <2>2. OpenInv(s, Owns(o))
    BY <1>0, <1>2, <1>3, ConnectGood
  <2>3. s.m = op[o].m /\ s.gate = op[o].gate
    BY <1>0 DEF OpenType, Fields
  <2>4. Moved(o, s)
    BY <2>1, <2>2, <2>3 DEF Moved, Set
  <2> QED BY <2>4
<1>4. CASE r.phase = "Resolved"
  <2> DEFINE s == [Shut(r) EXCEPT !.at = "idle"]
  <2>1. Set(o, s) /\ reg' = reg
    BY <1>1, <1>4 DEF Go
  <2>2. OpenInv(s, Owns(o))
    BY <1>0, <1>2, <1>4, ConnectStopped
  <2>3. s.m = op[o].m /\ s.gate = op[o].gate
    BY <1>0 DEF OpenType, Fields, Shut
  <2>4. Moved(o, s)
    BY <2>1, <2>2, <2>3 DEF Moved, Set
  <2> QED BY <2>4
<1>5. CASE r.phase = "Connecting" /\ c = "Disconnected"
  <2>1. fail_prewire(o, r)
    BY <1>1, <1>2, <1>5
  <2>2. OpenInv(r, Owns(o))
    BY <1>0, <1>2, <1>5, ConnectBad
  <2> HIDE DEF r
  <2> QED BY <1>2, <1>5, <2>1, <2>2, PrewireMoves DEF Cancellable
<1> QED BY <1>0, <1>2, <1>3, <1>4, <1>5

\* The start of the wiring.
LEMMA WireMoves ==
  ASSUME NEW o, OpenInv(op[o], Owns(o)), WireStarts(o) \/ WireLapsed(o)
  PROVE  \E s : Moved(o, s)
<1> DEFINE r == op[o]
<1>0. OpenType(r) /\ Stage(r) /\ Owns(o) \in BOOLEAN
  BY OwnsBool DEF OpenInv
<1>1. CASE WireStarts(o) /\ Owns(o)
  <2> DEFINE s == [r EXCEPT !.at = "wiring"]
  <2>1. Set(o, s) /\ reg' = reg
    BY <1>0, <1>1 DEF WireStarts, WireLapsed, Go, At
  <2>2. OpenInv(s, Owns(o))
    BY <1>0, <1>1, WireTaken DEF WireStarts, WireLapsed, At
  <2>3. s.m = r.m /\ (s.gate = "none" => r.gate = "none")
    BY <1>0 DEF OpenType, Fields
  <2>4. Moved(o, s)
    BY <2>1, <2>2, <2>3 DEF Moved, Set
  <2> QED BY <2>4
<1>2. CASE WireStarts(o) /\ ~Owns(o)
  <2> DEFINE s == [BookFailure(Shut(r)) EXCEPT !.at = "idle"]
  <2>1. Set(o, s) /\ reg' = reg
    BY <1>0, <1>2 DEF WireStarts, WireLapsed, Go, At
  <2>2. OpenInv(s, Owns(o))
    BY <1>0, <1>2, WireRefused DEF WireStarts, WireLapsed, At
  <2>3. s.m = r.m /\ (s.gate = "none" => r.gate = "none")
    BY <1>0 DEF OpenType, Fields, BookFailure, Shut
  <2>4. Moved(o, s)
    BY <2>1, <2>2, <2>3 DEF Moved, Set
  <2> QED BY <2>4
<1>3. CASE WireLapsed(o)
  <2> DEFINE s == [Shut(r) EXCEPT !.at = "idle"]
  <2>1. Set(o, s) /\ reg' = reg
    BY <1>0, <1>3 DEF WireStarts, WireLapsed, Go, At
  <2>2. OpenInv(s, Owns(o))
    BY <1>0, <1>3, WireLapses DEF WireStarts, WireLapsed, At
  <2>3. s.m = r.m /\ (s.gate = "none" => r.gate = "none")
    BY <1>0 DEF OpenType, Fields, Shut
  <2>4. Moved(o, s)
    BY <2>1, <2>2, <2>3 DEF Moved, Set
  <2> QED BY <2>4
<1> QED BY <1>0, <1>1, <1>2, <1>3

\* The handlers.
LEMMA HookMoves ==
  ASSUME NEW o, OpenInv(op[o], Owns(o)), InstallHooks(o)
  PROVE  \E s : Moved(o, s)
<1> DEFINE r == op[o]
<1>0. OpenType(r) /\ Stage(r) /\ Owns(o) \in BOOLEAN
  BY OwnsBool DEF OpenInv
<1>1. \E s : Moved(o, s)
  <2> DEFINE s == [[r EXCEPT !.hooked = TRUE, !.gate = "Pending"] EXCEPT !.at = "recheck"]
  <2>1. Set(o, s) /\ reg' = reg
    BY <1>0 DEF InstallHooks, Go, At
  <2>2. OpenInv(s, Owns(o))
    BY <1>0, Hooked DEF InstallHooks, At
  <2>3. s.m = r.m /\ (s.gate = "none" => r.gate = "none")
    BY <1>0 DEF OpenType, Fields
  <2>4. Moved(o, s)
    BY <2>1, <2>2, <2>3 DEF Moved, Set
  <2> QED BY <2>4
<1> QED BY <1>0, <1>1

\* An ACK attempt.
LEMMA AttemptMoves ==
  ASSUME NEW o, OpenInv(op[o], Owns(o)), NEW timer \in BOOLEAN, Attempt(o, timer)
  PROVE  \E s : Moved(o, s)
<1> DEFINE r == op[o]
<1>0. OpenType(r) /\ Stage(r) /\ Owns(o) \in BOOLEAN
  BY OwnsBool DEF OpenInv
<1>1. CASE r.gate = "Pending"
  <2> DEFINE s == [[r EXCEPT !.timer = FALSE, !.byTimer = timer, !.gate = "Sending"] EXCEPT !.at = "sending"]
  <2>1. Set(o, s) /\ reg' = reg
    BY <1>0, <1>1 DEF Attempt, Go, At
  <2>2. OpenInv(s, Owns(o))
    BY <1>0, <1>1, AttemptClaims DEF Attempt, At
  <2>3. s.m = r.m /\ (s.gate = "none" => r.gate = "none")
    BY <1>0 DEF OpenType, Fields
  <2>4. Moved(o, s)
    BY <2>1, <2>2, <2>3 DEF Moved, Set
  <2> QED BY <2>4
<1>2. CASE r.gate /= "Pending"
  <2>0. timer = TRUE
    BY <1>0, <1>2 DEF Attempt, At, Stage
  <2> DEFINE s == [[r EXCEPT !.timer = FALSE, !.byTimer = TRUE] EXCEPT !.at = "idle"]
  <2>1. Set(o, s) /\ reg' = reg
    BY <1>0, <1>2, <2>0 DEF Attempt, Go, At
  <2>2. OpenInv(s, Owns(o))
    BY <1>0, <1>2, <2>0, AttemptLate DEF Attempt, At
  <2>3. s.m = r.m /\ (s.gate = "none" => r.gate = "none")
    BY <1>0 DEF OpenType, Fields
  <2>4. Moved(o, s)
    BY <2>1, <2>2, <2>3 DEF Moved, Set
  <2> QED BY <2>4
<1> QED BY <1>0, <1>1, <1>2

\* The send of the ACK.
LEMMA SendMoves ==
  ASSUME NEW o, OpenInv(op[o], Owns(o)), NEW out \in {"Sent", "SendqFull", "PermanentFail"}, SendAck(o, out)
  PROVE  \E s : Moved(o, s)
<1> DEFINE r == op[o]
<1>0. OpenType(r) /\ Stage(r) /\ Owns(o) \in BOOLEAN
  BY OwnsBool DEF OpenInv
<1>1. \E s : Moved(o, s)
  <2> DEFINE s == [[r EXCEPT !.out = out] EXCEPT !.at = "verdict"]
  <2>1. Set(o, s) /\ reg' = reg
    BY <1>0 DEF SendAck, Go, At
  <2>2. OpenInv(s, Owns(o))
    BY <1>0, AckSent DEF SendAck, At
  <2>3. s.m = r.m /\ (s.gate = "none" => r.gate = "none")
    BY <1>0 DEF OpenType, Fields
  <2>4. Moved(o, s)
    BY <2>1, <2>2, <2>3 DEF Moved, Set
  <2> QED BY <2>4
<1> QED BY <1>0, <1>1

\* The send's result.
LEMMA VerdictMoves ==
  ASSUME NEW o, OpenInv(op[o], Owns(o)), Verdict(o)
  PROVE  \E s : Moved(o, s)
<1> DEFINE r == op[o]
<1>0. OpenType(r) /\ Stage(r) /\ Owns(o) \in BOOLEAN
  BY OwnsBool DEF OpenInv
<1>1. CASE r.gone \/ r.out = "PermanentFail"
  <2> DEFINE s == [Abandoned(r) EXCEPT !.at = "idle"]
  <2>1. Set(o, s) /\ reg' = reg
    BY <1>0, <1>1 DEF Verdict, Go, At
  <2>2. OpenInv(s, Owns(o))
    BY <1>0, <1>1, VerdictAbandons DEF Verdict, At
  <2>3. s.m = r.m /\ (s.gate = "none" => r.gate = "none")
    BY <1>0 DEF OpenType, Fields, Abandoned
  <2>4. Moved(o, s)
    BY <2>1, <2>2, <2>3 DEF Moved, Set
  <2> QED BY <2>4
<1>2. CASE ~r.gone /\ r.out = "Sent"
  <2> DEFINE s == [[r EXCEPT !.gate = "Committing"] EXCEPT !.at = "owned"]
  <2>1. Set(o, s) /\ reg' = reg
    BY <1>0, <1>2 DEF Verdict, Go, At
  <2>2. OpenInv(s, Owns(o))
    BY <1>0, <1>2, VerdictCommits DEF Verdict, At
  <2>3. s.m = r.m /\ (s.gate = "none" => r.gate = "none")
    BY <1>0 DEF OpenType, Fields
  <2>4. Moved(o, s)
    BY <2>1, <2>2, <2>3 DEF Moved, Set
  <2> QED BY <2>4
<1>3. CASE ~r.gone /\ r.out = "SendqFull"
  <2> DEFINE s == [[r EXCEPT !.gate = "Pending", !.timer = TRUE] EXCEPT !.at = "idle"]
  <2>1. Set(o, s) /\ reg' = reg
    BY <1>0, <1>3 DEF Verdict, Go, At
  <2>2. OpenInv(s, Owns(o))
    BY <1>0, <1>3, VerdictWaits DEF Verdict, At
  <2>3. s.m = r.m /\ (s.gate = "none" => r.gate = "none")
    BY <1>0 DEF OpenType, Fields
  <2>4. Moved(o, s)
    BY <2>1, <2>2, <2>3 DEF Moved, Set
  <2> QED BY <2>4
<1> QED BY <1>0, <1>1, <1>2, <1>3 DEF OpenType

\* commit_open_ack() up to its second look.
LEMMA CommitMoves ==
  ASSUME NEW o, OpenInv(op[o], Owns(o)), CommitOwned(o) \/ CommitClaim(o) \/ CommitVerify(o)
  PROVE  \E s : Moved(o, s)
<1> DEFINE r == op[o]
<1>0. OpenType(r) /\ Stage(r) /\ Owns(o) \in BOOLEAN
  BY OwnsBool DEF OpenInv
<1>1. CASE CommitOwned(o)
  <2> DEFINE s == [r EXCEPT !.at = IF Owns(o) THEN "claim" ELSE "abort"]
  <2>1. Set(o, s) /\ reg' = reg
    BY <1>0, <1>1 DEF CommitOwned, CommitClaim, CommitVerify, Go, At
  <2>2. OpenInv(s, Owns(o))
    BY <1>0, <1>1, OwnedGoesOn DEF CommitOwned, CommitClaim, CommitVerify, At
  <2>3. s.m = r.m /\ (s.gate = "none" => r.gate = "none")
    BY <1>0 DEF OpenType, Fields
  <2>4. Moved(o, s)
    BY <2>1, <2>2, <2>3 DEF Moved, Set
  <2> QED BY <2>4
<1>2. CASE CommitClaim(o) /\ r.tun = "None"
  <2> DEFINE s == [[r EXCEPT !.tun = "Connected"] EXCEPT !.at = "verify"]
  <2>1. Set(o, s) /\ reg' = reg
    BY <1>0, <1>2 DEF CommitOwned, CommitClaim, CommitVerify, Go, At
  <2>2. OpenInv(s, Owns(o))
    BY <1>0, <1>2, ClaimWon DEF CommitOwned, CommitClaim, CommitVerify, At
  <2>3. s.m = r.m /\ (s.gate = "none" => r.gate = "none")
    BY <1>0 DEF OpenType, Fields
  <2>4. Moved(o, s)
    BY <2>1, <2>2, <2>3 DEF Moved, Set
  <2> QED BY <2>4
<1>3. CASE CommitClaim(o) /\ r.tun /= "None"
  <2> DEFINE s == [r EXCEPT !.at = "abort"]
  <2>1. Set(o, s) /\ reg' = reg
    BY <1>0, <1>3 DEF CommitOwned, CommitClaim, CommitVerify, Go, At
  <2>2. OpenInv(s, Owns(o))
    BY <1>0, <1>3, ClaimLost DEF CommitOwned, CommitClaim, CommitVerify, At
  <2>3. s.m = r.m /\ (s.gate = "none" => r.gate = "none")
    BY <1>0 DEF OpenType, Fields
  <2>4. Moved(o, s)
    BY <2>1, <2>2, <2>3 DEF Moved, Set
  <2> QED BY <2>4
<1>4. CASE CommitVerify(o)
  <2> DEFINE s == [r EXCEPT !.at = IF Owns(o) THEN "publish" ELSE "abort"]
  <2>1. Set(o, s) /\ reg' = reg
    BY <1>0, <1>4 DEF CommitOwned, CommitClaim, CommitVerify, Go, At
  <2>2. OpenInv(s, Owns(o))
    BY <1>0, <1>4, VerifyGoesOn DEF CommitOwned, CommitClaim, CommitVerify, At
  <2>3. s.m = r.m /\ (s.gate = "none" => r.gate = "none")
    BY <1>0 DEF OpenType, Fields
  <2>4. Moved(o, s)
    BY <2>1, <2>2, <2>3 DEF Moved, Set
  <2> QED BY <2>4
<1> QED BY <1>0, <1>1, <1>2, <1>3, <1>4

\* commit_open_ack() from there on.
LEMMA PublishMoves ==
  ASSUME NEW o, OpenInv(op[o], Owns(o)), CommitPublish(o) \/ CommitCount(o) \/ Settle(o)
  PROVE  \E s : Moved(o, s)
<1> DEFINE r == op[o]
<1>0. OpenType(r) /\ Stage(r) /\ Owns(o) \in BOOLEAN
  BY OwnsBool DEF OpenInv
<1>1. CASE CommitPublish(o)
  <2> DEFINE s == [[r EXCEPT !.ok = @ + 1] EXCEPT !.at = "count"]
  <2>1. Set(o, s) /\ reg' = reg
    BY <1>0, <1>1 DEF CommitPublish, CommitCount, Settle, Go, At
  <2>2. OpenInv(s, Owns(o))
    BY <1>0, <1>1, Published DEF CommitPublish, CommitCount, Settle, At
  <2>3. s.m = r.m /\ (s.gate = "none" => r.gate = "none")
    BY <1>0 DEF OpenType, Fields
  <2>4. Moved(o, s)
    BY <2>1, <2>2, <2>3 DEF Moved, Set
  <2> QED BY <2>4
<1>2. CASE CommitCount(o)
  <2> DEFINE s == [active_gauge_count(r) EXCEPT !.at = "settle"]
  <2>1. Set(o, s) /\ reg' = reg
    BY <1>0, <1>2 DEF CommitPublish, CommitCount, Settle, Go, At
  <2>2. OpenInv(s, Owns(o))
    BY <1>0, <1>2, Counted DEF CommitPublish, CommitCount, Settle, At
  <2>3. s.m = r.m /\ (s.gate = "none" => r.gate = "none")
    BY <1>0 DEF OpenType, Fields, active_gauge_count
  <2>4. Moved(o, s)
    BY <2>1, <2>2, <2>3 DEF Moved, Set
  <2> QED BY <2>4
<1>3. CASE Settle(o) /\ r.at = "settle"
  <2> DEFINE s == [[r EXCEPT !.gate = "Committed", !.posts = IF r.gone THEN @ \cup {"close"} ELSE @] EXCEPT !.at = "idle"]
  <2>1. Set(o, s) /\ reg' = reg
    BY <1>0, <1>3 DEF CommitPublish, CommitCount, Settle, Go, At
  <2>2. OpenInv(s, Owns(o))
    BY <1>0, <1>3, Settled DEF CommitPublish, CommitCount, Settle, At
  <2>3. s.m = r.m /\ (s.gate = "none" => r.gate = "none")
    BY <1>0 DEF OpenType, Fields
  <2>4. Moved(o, s)
    BY <2>1, <2>2, <2>3 DEF Moved, Set
  <2> QED BY <2>4
<1>4. CASE Settle(o) /\ r.at = "unsettle"
  <2> DEFINE s == [[r EXCEPT !.gate = "Abandoned"] EXCEPT !.at = "idle"]
  <2>1. Set(o, s) /\ reg' = reg
    BY <1>0, <1>4 DEF CommitPublish, CommitCount, Settle, Go, At
  <2>2. OpenInv(s, Owns(o))
    BY <1>0, <1>4, Unsettled DEF CommitPublish, CommitCount, Settle, At
  <2>3. s.m = r.m /\ (s.gate = "none" => r.gate = "none")
    BY <1>0 DEF OpenType, Fields
  <2>4. Moved(o, s)
    BY <2>1, <2>2, <2>3 DEF Moved, Set
  <2> QED BY <2>4
<1> QED BY <1>0, <1>1, <1>2, <1>3, <1>4 DEF Settle, At

\* The check behind the wiring.
LEMMA RecheckMoves ==
  ASSUME NEW o, OpenInv(op[o], Owns(o)), Recheck(o)
  PROVE  \E s : Moved(o, s)
<1> DEFINE r == op[o]
<1>0. OpenType(r) /\ Owns(o) \in BOOLEAN /\ r.at = "recheck"
  BY OwnsBool DEF OpenInv, Recheck, At
<1>1. CASE r.tun \notin Terminal
  <2> DEFINE s == [r EXCEPT !.at = "attempt"]
  <2>1. Set(o, s) /\ reg' = reg
    BY <1>1 DEF Recheck, Go
  <2>2. OpenInv(s, Owns(o))
    BY <1>0, <1>1, RecheckGoesOn
  <2>3. s.m = r.m /\ s.gate = r.gate
    BY <1>0 DEF OpenType, Fields
  <2>4. Moved(o, s)
    BY <2>1, <2>2, <2>3 DEF Moved, Set
  <2> QED BY <2>4
<1>2. CASE r.tun \in Terminal
  <2> DEFINE p == [active_gauge_release(Shut(r)) EXCEPT !.gate = "Abandoned"]
             q == RemoveIf(o, p)
             s == [BookFailure(q) EXCEPT !.at = "idle"]
  <2>1. Set(o, s) /\ Unregister(o)
    BY <1>2, Zenon DEF Recheck, Go
  <2>2. OpenInv(s, FALSE)
    BY <1>0, <1>2, RecheckEnds, Zenon
  <2>3. OpenType(p) /\ p.m = r.m /\ p.gate = "Abandoned"
    <3> DEFINE d == active_gauge_release(Shut(r))
    <3>1. OpenType(d) /\ d.m = r.m
      BY <1>0, ShutFacts, ReleaseFacts DEF Kept
    <3> HIDE DEF d
    <3>2. OpenType([d EXCEPT !.gate = "Abandoned"])
      BY <3>1 DEF OpenType, Fields
    <3>3. [d EXCEPT !.gate = "Abandoned"].m = r.m /\ [d EXCEPT !.gate = "Abandoned"].gate = "Abandoned"
      BY <3>1 DEF OpenType, Fields
    <3> QED BY <3>2, <3>3 DEF d
  <2> HIDE DEF p
  <2>4. OpenType(q) /\ q.m = p.m /\ q.gate = "Abandoned"
    BY <2>3, LetGoFacts DEF RemoveIf, Kept
  <2> HIDE DEF q
  <2>5. s.m = q.m /\ s.gate = q.gate
    BY <2>4 DEF BookFailure, OpenType, Fields
  <2>6. Moved(o, s)
    BY <2>1, <2>2, <2>3, <2>4, <2>5 DEF Moved, Set
  <2> QED BY <2>6
<1> QED BY <1>1, <1>2

\* The two cleanups of an OPEN that is not to be.
LEMMA AbortMoves ==
  ASSUME NEW o, OpenInv(op[o], Owns(o)), CommitAbort(o) \/ abandon_open_ack(o)
  PROVE  \E s : Moved(o, s)
<1> DEFINE r == op[o]
           q == Release(o, r)
<1>0. OpenType(r) /\ Stage(r) /\ Outcome(r)
  BY DEF OpenInv
<1>1. r.hooked /\ r.failed = 0 /\ r.gate /= "none"
  BY <1>0 DEF Stage, Outcome, Booked, CommitAbort, abandon_open_ack, At, Committing
<1>2. OpenType(q) /\ q.m = r.m /\ q.gate = r.gate
  <2>1. OpenType(q) /\ Kept([r EXCEPT !.failed = 1], q)
    BY <1>1, ReleaseEnds
  <2>2. [r EXCEPT !.failed = 1].m = r.m /\ [r EXCEPT !.failed = 1].gate = r.gate
    BY <1>0 DEF OpenType, Fields
  <2> QED BY <2>1, <2>2 DEF Kept
<1>3. CASE CommitAbort(o)
  <2> DEFINE s == [q EXCEPT !.at = "unsettle"]
  <2>1. Set(o, s) /\ Unregister(o)
    BY <1>3 DEF CommitAbort, Go
  <2>2. OpenInv(s, FALSE)
    BY <1>3, AbortEnds DEF CommitAbort, At
  <2> HIDE DEF q
  <2>3. s.m = q.m /\ s.gate = q.gate
    BY <1>2 DEF OpenType, Fields
  <2>4. Moved(o, s)
    BY <1>2, <2>1, <2>2, <2>3 DEF Moved, Set
  <2> QED BY <2>4
<1>4. CASE abandon_open_ack(o)
  <2> DEFINE s == [q EXCEPT !.posts = @ \ {"abandon"}]
  <2>1. Set(o, s) /\ Unregister(o)
    BY <1>4 DEF abandon_open_ack
  <2>2. OpenInv(s, FALSE)
    BY <1>4, AbandonEnds DEF abandon_open_ack
  <2> HIDE DEF q
  <2>3. s.m = q.m /\ s.gate = q.gate
    BY <1>2 DEF OpenType, Fields
  <2>4. Moved(o, s)
    BY <1>2, <2>1, <2>2, <2>3 DEF Moved, Set
  <2> QED BY <2>4
<1> QED BY <1>3, <1>4

\* The posted close.
LEMMA CloseMoves ==
  ASSUME NEW o, OpenInv(op[o], Owns(o)), CloseRuns(o)
  PROVE  \E s : Moved(o, s)
<1> DEFINE r == op[o]
           p == [r EXCEPT !.posts = @ \ {"close"}]
<1>0. OpenType(r) /\ "close" \in r.posts /\ reg' = reg
  BY DEF OpenInv, CloseRuns
<1>1. OpenType(p) /\ p.m = r.m /\ p.gate = r.gate /\ p.abnormal = r.abnormal /\ p.tun = r.tun
  BY <1>0 DEF OpenType, Fields
<1>2. CASE Owns(o) /\ r.abnormal /\ r.tun \in Established
  <2> DEFINE s == Terminate(p, "Error")
  <2>1. Set(o, s)
    BY <1>1, <1>2 DEF CloseRuns
  <2>2. OpenInv(s, TRUE) /\ Owns(o) = TRUE
    BY <1>0, <1>2, OwnsBool, CloseEnds
  <2> HIDE DEF p
  <2>3. s.m = p.m /\ s.gate = p.gate
    BY <1>1, TerminateFacts DEF Kept, Terminal
  <2>4. Moved(o, s)
    BY <1>0, <1>1, <2>1, <2>2, <2>3 DEF Moved, Set
  <2> QED BY <2>4
<1>3. CASE Owns(o) /\ ~(r.abnormal /\ r.tun \in Established)
  <2> DEFINE s == Close(p)
  <2>1. Set(o, s)
    BY <1>1, <1>3 DEF CloseRuns
  <2>2. OpenInv(s, TRUE) /\ Owns(o) = TRUE
    BY <1>0, <1>3, OwnsBool, CloseEnds
  <2> HIDE DEF p
  <2>3. s.m = p.m /\ s.gate = p.gate
    BY <1>1, CloseFacts DEF Kept
  <2>4. Moved(o, s)
    BY <1>0, <1>1, <2>1, <2>2, <2>3 DEF Moved, Set
  <2> QED BY <2>4
<1>4. CASE ~Owns(o)
  <2>1. Set(o, p)
    BY <1>4 DEF CloseRuns
  <2>2. OpenInv(p, Owns(o))
    BY <1>4, OwnsBool, CloseDropped
  <2>3. Moved(o, p)
    BY <1>0, <1>1, <2>1, <2>2 DEF Moved, Set
  <2> QED BY <2>3
<1> QED BY <1>2, <1>3, <1>4

\* The posted removal.
LEMMA RemoveMoves ==
  ASSUME NEW o, OpenInv(op[o], Owns(o)), RemoveRuns(o)
  PROVE  \E s : Moved(o, s)
<1> DEFINE q == RemoveIf(o, op[o])
           s == [q EXCEPT !.posts = @ \ {"remove"}]
<1>1. OpenInv(q, FALSE) /\ Kept(op[o], q)
  BY RemoveKeeps
<1>2. Set(o, s) /\ Unregister(o)
  BY DEF RemoveRuns
<1> HIDE DEF q
<1>3. OpenInv(s, FALSE)
  BY <1>1, RemoveDone
<1>4. s.m = q.m /\ s.gate = q.gate
  BY <1>1 DEF OpenInv, OpenType, Fields
<1>5. Moved(o, s)
  BY <1>1, <1>2, <1>3, <1>4 DEF Moved, Set, Kept
<1> QED BY <1>5

\* The close notification.
LEMMA NotifyMoves ==
  ASSUME NEW o, OpenInv(op[o], Owns(o)), NotifyClose(o)
  PROVE  \E s : Moved(o, s)
<1> DEFINE r == op[o]
           p == [r EXCEPT !.notify = "done"]
<1>0. OpenType(r) /\ r.notify = "due" /\ Owns(o) \in BOOLEAN
  BY OwnsBool DEF OpenInv, NotifyClose
<1>1. OpenType(p) /\ p.m = r.m /\ p.gate = r.gate /\ p.hooked = r.hooked /\ p.phase = r.phase
  BY <1>0 DEF OpenType, Fields
<1>2. CASE r.hooked
  <2> DEFINE d == active_gauge_release(Shut(p))
             s == [d EXCEPT !.posts = @ \cup {"remove"}]
  <2>1. Set(o, s) /\ reg' = reg
    BY <1>1, <1>2 DEF NotifyClose
  <2>2. OpenInv(s, Owns(o))
    BY <1>0, <1>2, NotifiedHooked
  <2> HIDE DEF p
  <2>3. OpenType(d) /\ d.m = p.m /\ d.gate = p.gate
    BY <1>1, ShutFacts, ReleaseFacts DEF Kept
  <2> HIDE DEF d
  <2>4. s.m = d.m /\ s.gate = d.gate
    BY <2>3 DEF OpenType, Fields
  <2>5. Moved(o, s)
    BY <1>1, <2>1, <2>2, <2>3, <2>4 DEF Moved, Set
  <2> QED BY <2>5
<1>3. CASE ~r.hooked
  <2>1. OpenInv(p, Owns(o))
    BY <1>0, <1>3, NotifiedUnhooked
  <2>2. CASE Cancellable(p)
    <3> DEFINE q == RemoveIf(o, p)
               e == [q EXCEPT !.phase = "Resolved"]
               s == BookFailure(Shut(e))
    <3>1. Set(o, s) /\ Unregister(o)
      BY <1>1, <1>3, <2>2 DEF NotifyClose
    <3> HIDE DEF p
    <3>0. OpenInv(q, FALSE) /\ Kept(p, q)
      BY <2>1, RemoveKeeps
    <3>2. OpenInv(q, FALSE) /\ Kept(p, q) /\ Cancellable(q)
      BY <2>2, <3>0 DEF Kept, Cancellable
    <3> HIDE DEF q
    <3>3. OpenInv(s, FALSE)
      BY <3>2, PrewireTornDown
    <3>4. OpenType(e) /\ e.m = q.m /\ e.gate = q.gate
      BY <3>2 DEF OpenInv, OpenType, Fields
    <3> HIDE DEF e
    <3>5. s.m = e.m /\ s.gate = e.gate
      BY <3>4 DEF BookFailure, Shut, OpenType, Fields
    <3>6. Moved(o, s)
      BY <1>1, <3>1, <3>2, <3>3, <3>4, <3>5 DEF Moved, Set, Kept
    <3> QED BY <3>6
  <2>3. CASE ~Cancellable(p)
    <3>1. Set(o, p) /\ reg' = reg
      BY <1>1, <1>3, <2>3 DEF NotifyClose
    <3>2. Moved(o, p)
      BY <1>1, <2>1, <3>1 DEF Moved, Set
    <3> QED BY <3>2
  <2> QED BY <2>2, <2>3
<1> QED BY <1>2, <1>3

\* The end of the target socket.
LEMMA SocketMoves ==
  ASSUME NEW o, OpenInv(op[o], Owns(o)), NEW a \in BOOLEAN, SocketCloses(o, a), StrandFree(o),
         \/ op[o].shut /\ a = FALSE
         \/ op[o].sock = "Connected" /\ op[o].hooked /\ (a \/ op[o].gate /= "Committed")
  PROVE  \E s : Moved(o, s)
<1> DEFINE r == op[o]
           d == [r EXCEPT !.sock = "Disconnected", !.shut = FALSE]
           e == [d EXCEPT !.abnormal = a]
<1>0. OpenType(r) /\ Stage(r) /\ Owns(o) \in BOOLEAN /\ reg' = reg
  BY OwnsBool DEF OpenInv, SocketCloses
<1>1. /\ d.hooked = r.hooked /\ d.m = r.m /\ d.gate = r.gate
      /\ OpenType(e) /\ e.m = r.m /\ e.gate = r.gate
  BY <1>0 DEF OpenType, Fields
<1>2. Set(o, IF d.hooked THEN target_gone(e) ELSE d)
  BY DEF SocketCloses
<1>3. CASE ~r.hooked
  <2>1. OpenInv(d, Owns(o))
    BY <1>0, <1>3, SocketGoneUnhooked
  <2>2. Moved(o, d)
    BY <1>0, <1>1, <1>2, <1>3, <2>1 DEF Moved, Set
  <2> QED BY <2>2
<1>4. CASE r.gate = "Pending"
  <2> DEFINE s == Abandoned(e)
  <2>1. r.at = "idle" /\ r.hooked
    BY <1>0, <1>4 DEF Stage, StrandFree
  <2>2. target_gone(e) = s
    BY <1>1, <1>4 DEF target_gone
  <2>3. OpenInv(s, Owns(o))
    BY <1>0, <1>4, <2>1, PendingTargetGone
  <2> HIDE DEF e
  <2>4. s.m = e.m /\ s.gate = "Abandoned"
    BY <1>1 DEF Abandoned, OpenType, Fields
  <2>5. Moved(o, s)
    BY <1>0, <1>1, <1>2, <2>1, <2>2, <2>3, <2>4 DEF Moved, Set
  <2> QED BY <2>5
<1>5. CASE r.gate \in {"Sending", "Committing"}
  <2> DEFINE s == [e EXCEPT !.gone = TRUE, !.timer = FALSE]
  <2>1. r.hooked
    BY <1>0, <1>5 DEF Stage
  <2>2. target_gone(e) = s
    BY <1>1, <1>5 DEF target_gone
  <2>3. OpenInv(s, Owns(o))
    BY <1>0, <1>5, BusyTargetGone
  <2> HIDE DEF e
  <2>4. s.m = e.m /\ s.gate = e.gate
    BY <1>1 DEF OpenType, Fields
  <2>5. Moved(o, s)
    BY <1>0, <1>1, <1>2, <2>1, <2>2, <2>3, <2>4 DEF Moved, Set
  <2> QED BY <2>5
<1>6. CASE r.gate = "Committed"
  <2> DEFINE s == [e EXCEPT !.posts = @ \cup {"close"}]
  <2>1. r.hooked
    BY <1>0, <1>6 DEF Stage
  <2>2. target_gone(e) = s
    BY <1>1, <1>6 DEF target_gone
  <2>6. r.shut \/ (r.sock = "Connected" /\ a)
    BY <1>6, Zenon
  <2>7. OpenInv(r, Owns(o)) /\ Owns(o) \in BOOLEAN
    BY <1>0
  <2>8. OpenInv([r EXCEPT !.sock = "Disconnected", !.shut = FALSE, !.abnormal = a, !.posts = @ \cup {"close"}], Owns(o))
    BY <2>6, <2>7, <1>6, CommittedTargetGone, Zenon
  <2>9. s = [r EXCEPT !.sock = "Disconnected", !.shut = FALSE, !.abnormal = a, !.posts = @ \cup {"close"}]
    BY <1>0 DEF OpenType, Fields
  <2>3. OpenInv(s, Owns(o))
    BY <2>8, <2>9, Zenon
  <2> HIDE DEF e
  <2>4. s.m = e.m /\ s.gate = e.gate
    BY <1>1 DEF OpenType, Fields
  <2>5. Moved(o, s)
    BY <1>0, <1>1, <1>2, <2>1, <2>2, <2>3, <2>4 DEF Moved, Set
  <2> QED BY <2>5
<1>7. CASE r.gate = "Abandoned"
  <2>1. r.hooked
    BY <1>0, <1>7 DEF Stage
  <2>2. target_gone(e) = e
    BY <1>1, <1>7 DEF target_gone
  <2>3. OpenInv(e, Owns(o))
    BY <1>0, <1>7, AbandonedTargetGone
  <2>4. Moved(o, e)
    BY <1>0, <1>1, <1>2, <2>1, <2>2, <2>3 DEF Moved, Set
  <2> QED BY <2>4
<1> QED BY <1>0, <1>3, <1>4, <1>5, <1>6, <1>7 DEF Stage, OpenType

\* The target's FIN.
LEMMA EofMoves ==
  ASSUME NEW o, OpenInv(op[o], Owns(o)), on_tcp_read_eof(o)
  PROVE  \E s : Moved(o, s)
<1> DEFINE r == op[o]
           d == [r EXCEPT !.eof = TRUE]
<1>0. /\ OpenType(r) /\ Owns(o) \in BOOLEAN /\ r.sock = "Connected" /\ r.gate = "Committed"
      /\ reg' = reg
  BY OwnsBool DEF OpenInv, on_tcp_read_eof
<1>1. OpenType(d) /\ d.m = r.m /\ d.gate = r.gate /\ d.tun = r.tun /\ d.peerClosed = r.peerClosed
  BY <1>0 DEF OpenType, Fields
<1>2. OpenInv(d, Owns(o))
  BY <1>0, EofRead
<1>3. CASE r.tun /= "Connected"
  <2>1. Set(o, d)
    BY <1>1, <1>3 DEF on_tcp_read_eof
  <2>2. Moved(o, d)
    BY <1>0, <1>1, <1>2, <2>1 DEF Moved, Set
  <2> QED BY <2>2
<1>4. CASE r.tun = "Connected" /\ r.peerClosed
  <2> DEFINE s == Terminate(d, "Closed")
  <2>1. Set(o, s)
    BY <1>1, <1>4 DEF on_tcp_read_eof
  <2> HIDE DEF d
  <2>2. OpenInv(s, Owns(o)) /\ s.m = d.m /\ s.gate = d.gate
    <3>1. "Closed" \in Terminal
      BY DEF Terminal
    <3>2. OpenInv(s, Owns(o))
      BY <1>0, <1>2, <3>1, TerminateKeeps
    <3> QED BY <1>1, <3>1, <3>2, TerminateFacts DEF Kept
  <2>3. Moved(o, s)
    BY <1>0, <1>1, <2>1, <2>2 DEF Moved, Set
  <2> QED BY <2>3
<1>5. CASE r.tun = "Connected" /\ ~r.peerClosed
  <2> DEFINE s == [d EXCEPT !.tun = "Disconnecting"]
  <2>1. Set(o, s)
    BY <1>1, <1>5 DEF on_tcp_read_eof
  <2>2. OpenInv(s, Owns(o))
    BY <1>0, <1>5, EofHalf
  <2> HIDE DEF d
  <2>3. s.m = d.m /\ s.gate = d.gate
    BY <1>1 DEF OpenType, Fields
  <2>4. Moved(o, s)
    BY <1>0, <1>1, <2>1, <2>2, <2>3 DEF Moved, Set
  <2> QED BY <2>4
<1> QED BY <1>3, <1>4, <1>5

\* The friend's CLOSE or ERROR reaches the tunnel.
LEMMA PeerEndMoves ==
  ASSUME NEW o, OpenInv(op[o], Owns(o)),
         handle_tunnel_close_frame(o) \/ handle_tunnel_error_frame(o)
  PROVE  \E s : Moved(o, s)
<1> DEFINE r == op[o]
           c == [r EXCEPT !.peerClosed = TRUE, !.byPeer = TRUE]
           e == [r EXCEPT !.byPeer = TRUE]
<1>0. OpenType(r) /\ Owns(o) \in BOOLEAN /\ "Closed" \in Terminal /\ "Error" \in Terminal
  BY OwnsBool DEF OpenInv, Terminal
<1>1. OpenType(c) /\ c.m = r.m /\ c.gate = r.gate
  BY <1>0 DEF OpenType, Fields
<1>2. OpenType(e) /\ e.m = r.m /\ e.gate = r.gate
  BY <1>0 DEF OpenType, Fields
<1>3. OpenInv(c, Owns(o)) /\ OpenInv(e, Owns(o))
  BY <1>0, PeerCloses, PeerErrs
<1>4. CASE handle_tunnel_close_frame(o)
  <2>1. reg' = reg /\ (Set(o, c) \/ Set(o, Terminate(c, "Closed")))
    BY <1>4 DEF handle_tunnel_close_frame
  <2> HIDE DEF c
  <2>2. OpenInv(Terminate(c, "Closed"), Owns(o))
    BY <1>0, <1>3, TerminateKeeps
  <2>3. Terminate(c, "Closed").m = c.m /\ Terminate(c, "Closed").gate = c.gate
    BY <1>0, <1>1, TerminateFacts DEF Kept
  <2>4. Moved(o, c) \/ Moved(o, Terminate(c, "Closed"))
    BY <1>1, <1>3, <2>1, <2>2, <2>3 DEF Moved, Set
  <2> QED BY <2>4
<1>5. CASE handle_tunnel_error_frame(o)
  <2>1. reg' = reg /\ Set(o, Terminate(e, "Error"))
    BY <1>5 DEF handle_tunnel_error_frame
  <2> HIDE DEF e
  <2>2. OpenInv(Terminate(e, "Error"), Owns(o))
    BY <1>0, <1>3, TerminateKeeps
  <2>3. Terminate(e, "Error").m = e.m /\ Terminate(e, "Error").gate = e.gate
    BY <1>0, <1>2, TerminateFacts DEF Kept
  <2>4. Moved(o, Terminate(e, "Error"))
    BY <1>2, <2>1, <2>2, <2>3 DEF Moved, Set
  <2> QED BY <2>4
<1> QED BY <1>4, <1>5

\* Every step of an OPEN's own threads.
LEMMA OpenMoves ==
  ASSUME NEW o, OpenInv(op[o], Owns(o)), OpenSteps(o) \/ OpenEvents(o)
  PROVE  \E s : Moved(o, s)
<1>1. CASE \E good \in BOOLEAN : ResolveEnds(o, good) \/ ConnectEnds(o, good)
  BY <1>1, ResolveMoves, ConnectMoves
<1>2. CASE WireStarts(o) \/ WireLapsed(o) \/ InstallHooks(o) \/ Recheck(o)
  BY <1>2, WireMoves, HookMoves, RecheckMoves
<1>3. CASE \E timer \in BOOLEAN : Attempt(o, timer)
  BY <1>3, AttemptMoves
<1>4. CASE \E out \in {"Sent", "SendqFull", "PermanentFail"} : SendAck(o, out)
  BY <1>4, SendMoves
<1>5. CASE Verdict(o) \/ CommitOwned(o) \/ CommitClaim(o) \/ CommitVerify(o)
  BY <1>5, VerdictMoves, CommitMoves
<1>6. CASE CommitPublish(o) \/ CommitCount(o) \/ Settle(o)
  BY <1>6, PublishMoves
<1>7. CASE CommitAbort(o) \/ abandon_open_ack(o)
  BY <1>7, AbortMoves
<1>8. CASE CloseRuns(o) \/ RemoveRuns(o) \/ NotifyClose(o)
  BY <1>8, CloseMoves, RemoveMoves, NotifyMoves
<1>9. CASE ShutRuns(o)
  BY <1>9, SocketMoves DEF ShutRuns
<1>10. CASE \E abnormal \in BOOLEAN : TargetDies(o, abnormal)
  BY <1>10, SocketMoves DEF TargetDies
<1>11. CASE on_tcp_read_eof(o)
  BY <1>11, EofMoves
<1> QED
  BY <1>1, <1>2, <1>3, <1>4, <1>5, <1>6, <1>7, <1>8, <1>9, <1>10, <1>11 DEF OpenSteps, OpenEvents

----------------------------------------------------------------------------
(* The managers. *)

\* Every OPEN's record is as it should be.
OpensGood == \A o \in Opens : OpenInv(op[o], Owns(o))

\* close_all() of a manager that serves the friend or is held.
LEMMA CloseAllKeeps ==
  ASSUME Table, OpensGood, NEW g \in Managers, man[g].st \in {"current", "held"},
         man' = [man EXCEPT ![g].st = "gone"], CloseAll(g)
  PROVE  Table' /\ OpensGood'
<1>1. /\ \A h \in Managers \ {g} : man'[h] = man[h]
      /\ man' \in [Managers -> ManRecord] /\ man'[g].st = "gone"
  BY DEF Table, ManRecord
<1>2. \A h \in Managers : reg'[h] = IF h = g THEN {} ELSE reg[h]
  BY DEF CloseAll, Table
<1>3. \A o \in Opens : op'[o] = IF o \in reg[g] THEN ForceClose(op[o]) ELSE op[o]
  BY DEF CloseAll
<1>4. \A o \in Opens : op'[o].m = op[o].m
  <2> SUFFICES ASSUME NEW o \in Opens PROVE op'[o].m = op[o].m
    OBVIOUS
  <2>1. OpenType(op[o])
    BY DEF OpensGood, OpenInv
  <2>2. ForceClose(op[o]).m = op[o].m
    BY <2>1, ForceCloseFacts DEF Kept
  <2> QED BY <1>3, <2>2
<1>5. \A o \in Opens : OpenInv(op'[o], Owns(o)')
  <2> SUFFICES ASSUME NEW o \in Opens PROVE OpenInv(op'[o], Owns(o)')
    OBVIOUS
  <2>1. CASE o \in reg[g]
    <3>1. op[o].m = g /\ Owns(o) = TRUE
      BY <2>1 DEF Table, Owns, Alive
    <3>2. Owns(o)' = FALSE
      BY <1>2, <1>4, <3>1 DEF Owns
    <3>3. OpenInv(ForceClose(op[o]), FALSE)
      BY <3>1, ForceCloseKeeps DEF OpensGood
    <3> QED BY <1>3, <2>1, <3>2, <3>3
  <2>2. CASE o \notin reg[g]
    <3>1. Owns(o)' = Owns(o)
      BY <1>1, <1>2, <1>4, <2>2 DEF Owns, Alive
    <3> QED BY <1>3, <2>2, <3>1 DEF OpensGood
  <2> QED BY <2>1, <2>2
<1>6. Table'
  <2>1. reg' \in [Managers -> SUBSET Opens]
    BY DEF Table, CloseAll
  <2>2. DOMAIN op' = Opens
    BY DEF CloseAll
  <2> QED BY <1>1, <1>2, <1>4, <2>1, <2>2 DEF Table
<1> QED BY <1>5, <1>6 DEF OpensGood

\* Managers come and go, and no tunnel moves.
ManStep ==
  /\ man' \in [Managers -> ManRecord]
  /\ \A g \in Managers : /\ man[g].st \in {"current", "held"} => man'[g].st \in {"current", "held"}
                         /\ man'[g].st = "unused" => man[g].st = "unused"

\* The tunnels do not notice.
LEMMA ManStepKeeps ==
  ASSUME Table, OpensGood, UNCHANGED <<op, reg>>, ManStep
  PROVE  Table' /\ OpensGood' /\ \A o \in Opens : Owns(o)' = Owns(o)
<1>1. \A o \in Opens : Owns(o)' = Owns(o)
  BY DEF Table, Owns, Alive, ManStep
<1>2. Table'
  BY DEF Table, ManStep
<1> QED BY <1>1, <1>2 DEF OpensGood

\* The next unused manager exists.
LEMMA MinIn == ASSUME NEW T \in SUBSET Nat, T /= {} PROVE Min(T) \in T
<1>1. PICK x \in T : \A y \in T : ~ (<<y, x>> \in OpToRel(<, Nat))
  BY NatLessThanWellFounded, WFMin
<1>2. \A y \in T : ~ (y < x)
  BY <1>1 DEF OpToRel
<1>3. \A y \in T : x <= y
  BY <1>2
<1> QED BY <1>3 DEF Min

\* setup_tunnel_manager() keeps, resurrects or builds.
LEMMA SetupFacts ==
  ASSUME Table, SetupManager
  PROVE  /\ ManStep
         /\ \/ UNCHANGED man
            \/ /\ CurrentMgr = {}
               /\ \E g \in Managers :
                    /\ man[g].st \in {"held", "unused"} /\ man'[g].st = "current"
                    /\ man'[g].hold = man[g].hold
                    /\ \A h \in Managers \ {g} : man'[h] = man[h]
<1>1. CASE CurrentMgr /= {}
  BY <1>1 DEF SetupManager, ManStep, Table
<1>2. CASE CurrentMgr = {} /\ HeldMgr /= {} /\ Resume
  <2>1. PICK g \in HeldMgr : man' = [man EXCEPT ![g].st = "current", ![g].dead = FALSE]
    BY <1>2 DEF SetupManager
  <2>2. g \in Managers /\ man[g].st = "held"
    BY <2>1 DEF HeldMgr
  <2>3. /\ \A h \in Managers \ {g} : man'[h] = man[h]
        /\ man' \in [Managers -> ManRecord] /\ man'[g].st = "current" /\ man'[g].hold = man[g].hold
    <3> DEFINE e == [man[g] EXCEPT !.st = "current", !.dead = FALSE]
    <3>1. man[g] \in ManRecord /\ man \in [Managers -> ManRecord]
      BY <2>2 DEF Table
    <3>2. e \in ManRecord /\ e.st = "current" /\ e.hold = man[g].hold
      BY <3>1 DEF ManRecord
    <3>3. man' = [man EXCEPT ![g] = e]
      BY <2>1, Zenon
    <3> HIDE DEF e
    <3> QED BY <2>2, <3>1, <3>2, <3>3
  <2> QED BY <1>2, <2>2, <2>3 DEF ManStep
<1>3. CASE CurrentMgr = {} /\ ~(HeldMgr /= {} /\ Resume)
  <2> DEFINE g == Min(Unused)
  <2>1. Unused /= {} /\ man' = [man EXCEPT ![g].st = "current"]
    BY <1>3 DEF SetupManager
  <2>2. Unused \in SUBSET Nat
    BY OpenAssumption DEF Unused
  <2>3. g \in Unused
    BY <2>1, <2>2, MinIn
  <2> HIDE DEF g
  <2>4. g \in Managers /\ man[g].st = "unused"
    BY <2>3 DEF Unused
  <2>5. /\ \A h \in Managers \ {g} : man'[h] = man[h]
        /\ man' \in [Managers -> ManRecord] /\ man'[g].st = "current" /\ man'[g].hold = man[g].hold
    BY <2>1, <2>4 DEF Table, ManRecord
  <2> QED BY <1>3, <2>4, <2>5 DEF ManStep
<1> QED BY <1>1, <1>2, <1>3

\* teardown_tunnel_manager() and the prune handler: a manager is held, or goes.
Ends(g) == man' = [man EXCEPT ![g].st = "gone"] /\ CloseAll(g)
Holds(g) == /\ UNCHANGED <<op, reg, wire>> /\ \A h \in Managers \ {g} : man'[h] = man[h]
            /\ man'[g].st = "held" /\ man'[g].hold /= 0

\* teardown_tunnel_manager() holds or ends the current manager, if any.
LEMMA TeardownFacts ==
  ASSUME Table, holds.n \in Nat, Teardown
  PROVE  \/ CurrentMgr = {} /\ UNCHANGED <<man, op, reg, wire>>
         \/ \E g \in CurrentMgr : Ends(g) \/ (Holds(g) /\ ManStep)
<1>1. CASE CurrentMgr = {}
  BY <1>1 DEF Teardown
<1>2. CASE CurrentMgr /= {}
  <2>1. PICK g \in CurrentMgr :
          \/ /\ man' = [man EXCEPT ![g].st = "held", ![g].hold = holds.n + 1]
             /\ UNCHANGED <<op, reg, wire>>
          \/ Ends(g)
    BY <1>2 DEF Teardown, Ends
  <2>2. g \in Managers
    BY <2>1 DEF CurrentMgr
  <2>3. CASE man' = [man EXCEPT ![g].st = "held", ![g].hold = holds.n + 1] /\ UNCHANGED <<op, reg, wire>>
    <3> DEFINE e == [man[g] EXCEPT !.st = "held", !.hold = holds.n + 1]
    <3>1. man[g] \in ManRecord /\ man \in [Managers -> ManRecord]
      BY <2>2 DEF Table
    <3>2. holds.n + 1 \in Nat /\ holds.n + 1 /= 0
      OBVIOUS
    <3>6. e \in ManRecord /\ e.st = "held" /\ e.hold = holds.n + 1
      BY <3>1, <3>2 DEF ManRecord
    <3>3. man' = [man EXCEPT ![g] = e]
      BY <2>3, Zenon
    <3> HIDE DEF e
    <3>4. man' \in [Managers -> ManRecord] /\ man'[g] = e /\ \A h \in Managers \ {g} : man'[h] = man[h]
      BY <2>2, <3>1, <3>6, <3>3
    <3>5. Holds(g) /\ ManStep
      BY <2>3, <3>2, <3>4, <3>6 DEF Holds, ManStep
    <3> QED BY <3>5
  <2> QED BY <2>1, <2>3
<1> QED BY <1>1, <1>2

\* The prune handler ends a held manager, if any.
LEMMA PruneFacts ==
  ASSUME NEW h, Prune(h)
  PROVE  \/ UNCHANGED <<man, openVars>>
         \/ \E g \in HeldMgr : man[g].hold = h /\ Ends(g)
BY DEF Prune, Ends

\* handle_tunnel_open(): a new record, registered or not.
Opened(o, s) ==
  /\ op[o].phase = "None" /\ op' = [op EXCEPT ![o] = s]
  /\ \/ s.m \notin Managers /\ reg' = reg /\ OpenInv(s, FALSE)
     \/ /\ s.m \in CurrentMgr
        /\ \/ reg' = reg /\ OpenInv(s, FALSE)
           \/ reg' = [reg EXCEPT ![s.m] = @ \cup {o}] /\ OpenInv(s, TRUE)

\* A new OPEN disturbs no other.
LEMMA OpenedKeeps ==
  ASSUME Table, OpensGood, NEW o \in Opens, NEW s, Opened(o, s), UNCHANGED man
  PROVE  Table' /\ OpensGood' /\ \A p \in Opens \ {o} : op'[p] = op[p] /\ Owns(p)' = Owns(p)
<1>1. op'[o] = s /\ \A p \in Opens \ {o} : op'[p] = op[p]
  BY DEF Opened, Table
<1>2. \A g \in Managers : o \notin reg[g]
  BY DEF Opened, Table, OpensGood, OpenInv, Ending, Owns, Alive
<1>3. /\ reg' \in [Managers -> SUBSET Opens]
      /\ \A g \in Managers, p \in Opens \ {o} : p \in reg'[g] <=> p \in reg[g]
  <2>1. CASE reg' = reg
    BY <2>1 DEF Table
  <2>2. CASE s.m \in CurrentMgr /\ reg' = [reg EXCEPT ![s.m] = @ \cup {o}]
    <3>1. s.m \in Managers /\ reg \in [Managers -> SUBSET Opens]
      BY <2>2 DEF CurrentMgr, Table
    <3>2. \A g \in Managers : reg'[g] = IF g = s.m THEN reg[g] \cup {o} ELSE reg[g]
      BY <2>2, <3>1
    <3>3. reg' \in [Managers -> SUBSET Opens]
      BY <2>2, <3>1
    <3> QED BY <3>2, <3>3
  <2> QED BY <2>1, <2>2 DEF Opened
<1>4. \A p \in Opens \ {o} : Owns(p)' = Owns(p)
  BY <1>1, <1>3 DEF Owns, Alive
<1>5. \A g \in Managers : o \in reg'[g] =>
        s.m = g /\ man[g].st \in {"current", "held"} /\ OpenInv(s, TRUE)
  BY <1>2 DEF Opened, Table, CurrentMgr
<1>6. OpenInv(s, Owns(o)')
  <2>1. CASE s.m \in CurrentMgr /\ reg' = [reg EXCEPT ![s.m] = @ \cup {o}] /\ OpenInv(s, TRUE)
    <3>1. Owns(o)' = TRUE
      BY <1>1, <2>1 DEF Table, CurrentMgr, Owns, Alive
    <3> QED BY <2>1, <3>1
  <2>2. CASE reg' = reg /\ OpenInv(s, FALSE)
    <3>1. Owns(o)' = FALSE
      BY <1>1, <1>2, <2>2 DEF Owns, Alive
    <3> QED BY <2>2, <3>1
  <2> QED BY <2>1, <2>2 DEF Opened
<1>7. Table'
  <2>1. DOMAIN op' = Opens
    BY DEF Opened, Table
  <2>2. s.m \in Managers => man[s.m].st /= "unused"
    BY DEF Opened, CurrentMgr
  <2>3. \A g \in Managers, p \in Opens : p \in reg'[g] =>
          op'[p].m = g /\ man[g].st \in {"current", "held"}
    <3> SUFFICES ASSUME NEW g \in Managers, NEW p \in Opens, p \in reg'[g]
                 PROVE  op'[p].m = g /\ man[g].st \in {"current", "held"}
      OBVIOUS
    <3>1. CASE p = o
      BY <1>1, <1>5, <3>1
    <3>2. CASE p /= o
      <4>1. p \in reg[g] /\ op'[p] = op[p]
        BY <1>1, <1>3, <3>2
      <4> QED BY <4>1 DEF Table
    <3> QED BY <3>1, <3>2
  <2>4. \A p \in Opens : op'[p].m \in Managers => man[op'[p].m].st /= "unused"
    BY <1>1, <2>2 DEF Table
  <2> QED BY <1>3, <2>1, <2>3, <2>4 DEF Table
<1> QED BY <1>1, <1>4, <1>6, <1>7 DEF OpensGood

----------------------------------------------------------------------------
(* What is said on the wire. *)

WireRecord == [o : Opens, kind : Words]

\* The frames ks about OPEN o are sent, if c; Tells(o, ks) asks for its manager
\* and the link.
Sends(o, ks, c) == wire' = IF c THEN wire \o Frames(o, ks) ELSE wire

\* The same by the set of the words; an ACK comes alone.
Said(o, K, c) ==
  /\ wire' \in Seq(WireRecord) /\ Len(wire) <= Len(wire')
  /\ \A i \in 1 .. Len(wire) : wire'[i] = wire[i]
  /\ \A i \in Len(wire) + 1 .. Len(wire') : wire'[i].o = o /\ wire'[i].kind \in K
  /\ c => \A k \in K : \E i \in 1 .. Len(wire') : wire'[i] = [o |-> o, kind |-> k]
  /\ "ACK" \in K => Len(wire') <= Len(wire) + 1

\* Nothing sent.
LEMMA SaidNothing ==
  ASSUME wire \in Seq(WireRecord), wire' = wire, NEW o, NEW c PROVE Said(o, {}, c)
BY DEF Said

\* One frame at the end of the wire.
LEMMA PlusOne ==
  ASSUME NEW S, NEW a \in Seq(S), NEW t \in S
  PROVE  /\ a \o <<t>> \in Seq(S) /\ Len(a \o <<t>>) = Len(a) + 1
         /\ \A i \in 1 .. Len(a) : (a \o <<t>>)[i] = a[i]
         /\ (a \o <<t>>)[Len(a) + 1] = t
OBVIOUS

\* Two frames at the end of the wire.
LEMMA PlusTwo ==
  ASSUME NEW S, NEW a \in Seq(S), NEW t \in S, NEW u \in S
  PROVE  /\ a \o <<t, u>> \in Seq(S) /\ Len(a \o <<t, u>>) = Len(a) + 2
         /\ \A i \in 1 .. Len(a) : (a \o <<t, u>>)[i] = a[i]
         /\ (a \o <<t, u>>)[Len(a) + 1] = t /\ (a \o <<t, u>>)[Len(a) + 2] = u
OBVIOUS

\* One word sent.
LEMMA SaidOne ==
  ASSUME wire \in Seq(WireRecord), NEW o \in Opens, NEW k \in Words, NEW c, Sends(o, <<k>>, c)
  PROVE  Said(o, {k}, c)
<1> DEFINE t == [o |-> o, kind |-> k]
<1>1. t \in WireRecord
  BY DEF WireRecord
<1>2. Frames(o, <<k>>) = <<t>>
  BY DEF Frames
<1> HIDE DEF t
<1>3. CASE c
  <2>1. wire' = wire \o <<t>>
    BY <1>2, <1>3, Zenon DEF Sends
  <2>2. /\ wire' \in Seq(WireRecord) /\ Len(wire') = Len(wire) + 1
        /\ \A i \in 1 .. Len(wire) : wire'[i] = wire[i]
        /\ wire'[Len(wire) + 1] = t
    BY <1>1, <2>1, PlusOne
  <2>3. t.o = o /\ t.kind = k
    BY DEF t
  <2>4. Len(wire) \in Nat
    OBVIOUS
  <2>5. \A i \in Len(wire) + 1 .. Len(wire') : wire'[i].o = o /\ wire'[i].kind \in {k}
    BY <2>2, <2>3, <2>4
  <2>6. \A x \in {k} : \E i \in 1 .. Len(wire') : wire'[i] = [o |-> o, kind |-> x]
    BY <2>2, <2>4 DEF t
  <2> QED BY <2>2, <2>4, <2>5, <2>6 DEF Said
<1>4. CASE ~c
  BY <1>4 DEF Said, Sends
<1> QED BY <1>3, <1>4

\* An ERROR and the CLOSE behind it.
LEMMA SaidTwo ==
  ASSUME wire \in Seq(WireRecord), NEW o \in Opens, NEW c, Sends(o, <<"ERROR", "CLOSE">>, c)
  PROVE  Said(o, {"ERROR", "CLOSE"}, c)
<1> DEFINE t == [o |-> o, kind |-> "ERROR"]
           u == [o |-> o, kind |-> "CLOSE"]
<1>1. t \in WireRecord /\ u \in WireRecord
  BY DEF WireRecord, Words
<1>2. Frames(o, <<"ERROR", "CLOSE">>) = <<t, u>>
  BY DEF Frames
<1>3. t.o = o /\ u.o = o /\ t.kind = "ERROR" /\ u.kind = "CLOSE"
  OBVIOUS
<1> HIDE DEF t, u
<1>4. CASE c
  <2>1. wire' = wire \o <<t, u>>
    BY <1>2, <1>4, Zenon DEF Sends
  <2>2. /\ wire' \in Seq(WireRecord) /\ Len(wire') = Len(wire) + 2
        /\ \A i \in 1 .. Len(wire) : wire'[i] = wire[i]
        /\ wire'[Len(wire) + 1] = t /\ wire'[Len(wire) + 2] = u
    BY <1>1, <2>1, PlusTwo
  <2>3. Len(wire) \in Nat
    OBVIOUS
  <2>4. \A i \in Len(wire) + 1 .. Len(wire') : wire'[i].o = o /\ wire'[i].kind \in {"ERROR", "CLOSE"}
    <3> SUFFICES ASSUME NEW i \in Len(wire) + 1 .. Len(wire')
                 PROVE  wire'[i].o = o /\ wire'[i].kind \in {"ERROR", "CLOSE"}
      OBVIOUS
    <3>1. i = Len(wire) + 1 \/ i = Len(wire) + 2
      BY <2>2, <2>3
    <3>2. wire'[i] = t \/ wire'[i] = u
      BY <2>2, <3>1
    <3> QED BY <1>3, <3>2
  <2>5. \A x \in {"ERROR", "CLOSE"} : \E i \in 1 .. Len(wire') : wire'[i] = [o |-> o, kind |-> x]
    <3>1. Len(wire) + 1 \in 1 .. Len(wire') /\ Len(wire) + 2 \in 1 .. Len(wire')
      BY <2>2, <2>3
    <3>2. t = [o |-> o, kind |-> "ERROR"] /\ u = [o |-> o, kind |-> "CLOSE"]
      BY DEF t, u
    <3> QED BY <2>2, <3>1, <3>2
  <2> QED BY <2>2, <2>3, <2>4, <2>5 DEF Said
<1>5. CASE ~c
  BY <1>5 DEF Said, Sends
<1> QED BY <1>4, <1>5

InOrder == \A i, j \in DOMAIN wire : i < j /\ wire[i].o = wire[j].o => wire[j].kind /= "ACK"

\* What the friend was told afterwards.
LEMMA SaidTold ==
  ASSUME wire \in Seq(WireRecord), NEW o \in Opens, NEW K \in SUBSET Words, NEW c, Said(o, K, c)
  PROVE  /\ \A p \in Opens \ {o}, k \in Words : Told(p, k)' = Told(p, k)
         /\ \A k \in Words : Told(o, k) => Told(o, k)'
         /\ \A k \in Words : Told(o, k)' => Told(o, k) \/ k \in K
         /\ \A k \in K : c => Told(o, k)'
         /\ InOrder /\ ("ACK" \in K => \A k \in Words : ~Told(o, k)) => InOrder'
<1>1. \A p, k : Told(p, k) <=> \E i \in 1 .. Len(wire) : wire[i] = [o |-> p, kind |-> k]
  BY DEF Told, ToSet
<1>2. \A p, k : Told(p, k)' <=> \E i \in 1 .. Len(wire') : wire'[i] = [o |-> p, kind |-> k]
  BY DEF Told, ToSet, Said
<1>3. Len(wire) \in Nat /\ Len(wire') \in Nat /\ Len(wire) <= Len(wire')
  BY DEF Said
<1>4. \A p, k : Told(p, k) => Told(p, k)'
  <2> SUFFICES ASSUME NEW p, NEW k, Told(p, k) PROVE Told(p, k)'
    OBVIOUS
  <2>1. PICK i \in 1 .. Len(wire) : wire[i] = [o |-> p, kind |-> k]
    BY <1>1
  <2>2. i \in 1 .. Len(wire') /\ wire'[i] = wire[i]
    BY <1>3, <2>1 DEF Said
  <2> QED BY <1>2, <2>1, <2>2
<1>5. \A p, k : Told(p, k)' => Told(p, k) \/ (p = o /\ k \in K)
  <2> SUFFICES ASSUME NEW p, NEW k, Told(p, k)', ~Told(p, k) PROVE p = o /\ k \in K
    OBVIOUS
  <2>1. PICK i \in 1 .. Len(wire') : wire'[i] = [o |-> p, kind |-> k]
    BY <1>2
  <2>2. i \in Len(wire) + 1 .. Len(wire')
    BY <1>1, <1>3, <2>1 DEF Said
  <2>3. wire'[i].o = o /\ wire'[i].kind \in K
    BY <2>2 DEF Said
  <2>4. wire'[i].o = p /\ wire'[i].kind = k
    BY <2>1
  <2> QED BY <2>3, <2>4
<1>6. \A p \in Opens \ {o}, k \in Words : Told(p, k)' = Told(p, k)
  <2> SUFFICES ASSUME NEW p \in Opens \ {o}, NEW k \in Words PROVE Told(p, k)' = Told(p, k)
    OBVIOUS
  <2>1. Told(p, k)' <=> Told(p, k)
    BY <1>4, <1>5
  <2> QED BY <2>1 DEF Told
<1>7. \A k \in K : c => Told(o, k)'
  BY <1>2 DEF Said
<1>8. ASSUME InOrder, "ACK" \in K => \A k \in Words : ~Told(o, k) PROVE InOrder'
  <2> SUFFICES ASSUME NEW i \in 1 .. Len(wire'), NEW j \in 1 .. Len(wire'), i < j,
                      wire'[i].o = wire'[j].o, wire'[j].kind = "ACK"
               PROVE  FALSE
    BY DEF InOrder, Said
  <2>1. CASE j <= Len(wire)
    <3>1. i \in 1 .. Len(wire) /\ j \in 1 .. Len(wire)
      BY <1>3, <2>1
    <3>2. wire'[i] = wire[i] /\ wire'[j] = wire[j]
      BY <3>1 DEF Said
    <3> QED BY <1>8, <3>1, <3>2 DEF InOrder
  <2>2. CASE j > Len(wire)
    <3>1. wire'[j].o = o /\ "ACK" \in K /\ Len(wire') <= Len(wire) + 1
      BY <1>3, <2>2 DEF Said
    <3>2. i \in 1 .. Len(wire)
      BY <1>3, <2>2, <3>1
    <3>3. wire[i].o = o /\ wire[i] \in WireRecord
      BY <3>1, <3>2 DEF Said
    <3>4. wire[i].kind \in Words /\ wire[i] = [o |-> o, kind |-> wire[i].kind]
      BY <3>3 DEF WireRecord
    <3>5. Told(o, wire[i].kind)
      BY <1>1, <3>2, <3>4
    <3> QED BY <1>8, <3>1, <3>4, <3>5
  <2> QED BY <1>3, <2>1, <2>2
<1> QED BY <1>4, <1>5, <1>6, <1>7, <1>8

----------------------------------------------------------------------------
(* What a step of one OPEN says. *)

\* What a step of an OPEN from r to s that says K may do to what the friend
\* knows; was and own: whether the tunnel is registered before and after.
Spoken(r, s, K, was, own) ==
  /\ s.phase /= "None" => r.phase /= "None"
  /\ r.byPeer = TRUE => s.byPeer = TRUE
  /\ r.notify /= "no" => s.notify /= "no"
  /\ "remove" \in s.posts => "remove" \in r.posts \/ s.notify /= "no"
  /\ s.tun \notin Terminal => r.tun \notin Terminal
  /\ "ACK" \in K => r.at = "sending"
  /\ Unheard(s) => Unheard(r) /\ K = {}
  /\ Promised(s) => Promised(r) \/ "ACK" \in K
  /\ "ERROR" \in K => s.tun \in Terminal \/ ~own
  /\ s.notify /= "no" \/ (was /\ ~own) =>
       r.notify /= "no" \/ s.byPeer = TRUE \/ "ERROR" \in K \/ "CLOSE" \in K

Speaks(o) ==
  \E K \in SUBSET Words : \E s :
    /\ op' = [op EXCEPT ![o] = s] /\ s.m = op[o].m
    /\ Said(o, K, Alive(o) /\ up) /\ ("ACK" \in K => Alive(o) /\ up)
    /\ \/ reg' = reg /\ Spoken(op[o], s, K, Owns(o), Owns(o))
       \/ Unregister(o) /\ Spoken(op[o], s, K, Owns(o), FALSE)

\* A step that says nothing and keeps the registration.
LEMMA Hushed ==
  ASSUME wire \in Seq(WireRecord), NEW o, NEW s, Set(o, s), UNCHANGED <<reg, wire>>,
         s.m = op[o].m, Spoken(op[o], s, {}, Owns(o), Owns(o))
  PROVE  Speaks(o)
<1>1. Said(o, {}, Alive(o) /\ up) /\ {} \in SUBSET Words /\ "ACK" \notin {}
  BY SaidNothing
<1> QED BY <1>1, Zenon DEF Speaks, Set

\* Records that differ in nothing the friend knows of.
LEMMA SameSpoken ==
  ASSUME NEW r, NEW s, NEW own, s.phase = r.phase, s.byPeer = r.byPeer, s.notify = r.notify,
         "remove" \in s.posts => "remove" \in r.posts, s.tun = r.tun,
         Unheard(s) => Unheard(r), Promised(s) => Promised(r)
  PROVE  Spoken(r, s, {}, own, own)
BY DEF Spoken

\* Wiring says nothing.
LEMMA WireHushed ==
  ASSUME wire \in Seq(WireRecord), NEW o, OpenInv(op[o], Owns(o)),
         WireStarts(o) \/ WireLapsed(o) \/ InstallHooks(o)
  PROVE  Speaks(o)
<1> DEFINE r == op[o]
<1>0. OpenType(r) /\ Stage(r) /\ r.at \in {"handed", "wiring"}
  BY DEF OpenInv, WireStarts, WireLapsed, InstallHooks, At
<1>1. r.gate = "none" /\ r.phase = "Handed" /\ Unheard(r)
  BY <1>0 DEF OpenType, Stage, Unheard, Committing
<1>2. CASE WireStarts(o) /\ Owns(o)
  <2> DEFINE s == [r EXCEPT !.at = "wiring"]
  <2>1. Set(o, s) /\ UNCHANGED <<reg, wire>>
    BY <1>2 DEF WireStarts, Go
  <2>2. Spoken(r, s, {}, Owns(o), Owns(o)) /\ s.m = r.m
    BY <1>0, <1>1, SameSpoken DEF OpenType, Fields, Promised
  <2> QED BY <2>1, <2>2, Hushed
<1>3. CASE WireStarts(o) /\ ~Owns(o)
  <2> DEFINE q == BookFailure(Shut(r))
             s == [q EXCEPT !.at = "idle"]
  <2>1. Set(o, s) /\ UNCHANGED <<reg, wire>>
    BY <1>3 DEF WireStarts, Go
  <2>2. /\ DOMAIN q = Fields /\ q.phase = r.phase /\ q.byPeer = r.byPeer /\ q.notify = r.notify
        /\ q.posts = r.posts /\ q.tun = r.tun /\ q.gate = r.gate /\ q.m = r.m
    BY <1>0 DEF OpenType, Fields, BookFailure, Shut
  <2> HIDE DEF q
  <2>3. Spoken(r, s, {}, Owns(o), Owns(o)) /\ s.m = r.m
    BY <1>0, <1>1, <2>2, SameSpoken DEF Fields, Promised
  <2> QED BY <2>1, <2>3, Hushed
<1>4. CASE WireLapsed(o)
  <2> DEFINE s == [Shut(r) EXCEPT !.at = "idle"]
  <2>1. Set(o, s) /\ UNCHANGED <<reg, wire>>
    BY <1>4 DEF WireLapsed, Go
  <2>2. Spoken(r, s, {}, Owns(o), Owns(o)) /\ s.m = r.m
    BY <1>0, <1>1, SameSpoken DEF OpenType, Fields, Promised, Shut
  <2> QED BY <2>1, <2>2, Hushed
<1>5. CASE InstallHooks(o)
  <2> DEFINE s == [[r EXCEPT !.hooked = TRUE, !.gate = "Pending"] EXCEPT !.at = "recheck"]
  <2>1. Set(o, s) /\ UNCHANGED <<reg, wire>>
    BY <1>5 DEF InstallHooks, Go
  <2>2. Spoken(r, s, {}, Owns(o), Owns(o)) /\ s.m = r.m
    BY <1>0, <1>1, SameSpoken DEF OpenType, Fields, Promised
  <2> QED BY <2>1, <2>2, Hushed
<1> QED BY <1>2, <1>3, <1>4, <1>5

\* Claiming the send says nothing yet.
LEMMA AttemptSpeaks ==
  ASSUME wire \in Seq(WireRecord), NEW o, OpenInv(op[o], Owns(o)), NEW timer \in BOOLEAN, Attempt(o, timer)
  PROVE  Speaks(o)
<1> DEFINE r == op[o]
           q == [r EXCEPT !.timer = FALSE, !.byTimer = timer]
<1>0. /\ OpenType(r) /\ Stage(r) /\ UNCHANGED <<reg, wire>>
      /\ r.at = "attempt" \/ (r.at = "idle" /\ r.timer)
  BY DEF OpenInv, Attempt, At
<1>1. /\ DOMAIN q = Fields /\ q.phase = r.phase /\ q.byPeer = r.byPeer /\ q.notify = r.notify
      /\ q.posts = r.posts /\ q.tun = r.tun /\ q.gate = r.gate /\ q.m = r.m
  BY <1>0 DEF OpenType, Fields
<1>2. CASE r.gate = "Pending"
  <2> DEFINE s == [[q EXCEPT !.gate = "Sending"] EXCEPT !.at = "sending"]
  <2>1. Set(o, s)
    BY <1>1, <1>2 DEF Attempt, Go
  <2>2. Unheard(r)
    BY <1>0, <1>2 DEF Stage, Unheard
  <2> HIDE DEF q
  <2>3. Spoken(r, s, {}, Owns(o), Owns(o)) /\ s.m = r.m
    BY <1>0, <1>1, <2>2, SameSpoken DEF Fields, Promised
  <2> QED BY <1>0, <2>1, <2>3, Hushed
<1>3. CASE r.gate /= "Pending"
  <2> DEFINE s == [q EXCEPT !.at = "idle"]
  <2>1. Set(o, s)
    BY <1>1, <1>3 DEF Attempt, Go
  <2> HIDE DEF q
  <2>2. Spoken(r, s, {}, Owns(o), Owns(o)) /\ s.m = r.m
    BY <1>0, <1>1, <1>3, SameSpoken DEF Fields, Promised, Unheard
  <2> QED BY <1>0, <2>1, <2>2, Hushed
<1> QED BY <1>2, <1>3

\* The send says ACK, or nothing.
LEMMA SendSpeaks ==
  ASSUME wire \in Seq(WireRecord), NEW o \in Opens, OpenInv(op[o], Owns(o)),
         NEW out \in {"Sent", "SendqFull", "PermanentFail"}, SendAck(o, out)
  PROVE  Speaks(o)
<1> DEFINE r == op[o]
           s == [[r EXCEPT !.out = out] EXCEPT !.at = "verdict"]
<1>0. OpenType(r) /\ Stage(r) /\ r.at = "sending" /\ Set(o, s) /\ reg' = reg
  BY DEF OpenInv, SendAck, At, Go
<1>1. /\ s.phase = r.phase /\ s.byPeer = r.byPeer /\ s.notify = r.notify /\ s.posts = r.posts
      /\ s.tun = r.tun /\ s.gate = r.gate /\ s.m = r.m /\ s.at = "verdict" /\ s.out = out
  BY <1>0 DEF OpenType, Fields
<1>2. r.gate = "Sending" /\ Unheard(r)
  BY <1>0 DEF Stage, Unheard
<1> HIDE DEF s
<1>3. CASE out = "Sent"
  <2>1. Alive(o) /\ up /\ Sends(o, <<"ACK">>, Alive(o) /\ up)
    BY <1>3 DEF SendAck, Tells, Sends
  <2>2. Said(o, {"ACK"}, Alive(o) /\ up)
    BY <2>1, SaidOne DEF Words
  <2>3. Spoken(r, s, {"ACK"}, Owns(o), Owns(o))
    BY <1>0, <1>1, <1>2, <1>3 DEF Spoken, Unheard, Promised
  <2>4. {"ACK"} \in SUBSET Words
    BY DEF Words
  <2> QED BY <1>0, <1>1, <2>1, <2>2, <2>3, <2>4, Zenon DEF Speaks, Set
<1>4. CASE out /= "Sent"
  <2>1. wire' = wire
    BY <1>4 DEF SendAck
  <2>2. Spoken(r, s, {}, Owns(o), Owns(o))
    BY <1>1, <1>2, <1>4, SameSpoken DEF Promised
  <2> QED BY <1>0, <1>1, <2>1, <2>2, Hushed
<1> QED BY <1>3, <1>4

\* A gate that commits has said ACK.
LEMMA VerdictSpeaks ==
  ASSUME wire \in Seq(WireRecord), NEW o, OpenInv(op[o], Owns(o)), Verdict(o)
  PROVE  Speaks(o)
<1> DEFINE r == op[o]
<1>0. OpenType(r) /\ Stage(r) /\ r.at = "verdict" /\ UNCHANGED <<reg, wire>>
  BY DEF OpenInv, Verdict, At
<1>1. CASE r.gone \/ r.out = "PermanentFail"
  <2> DEFINE s == [Abandoned(r) EXCEPT !.at = "idle"]
  <2>1. Set(o, s)
    BY <1>1 DEF Verdict, Go
  <2>2. Spoken(r, s, {}, Owns(o), Owns(o)) /\ s.m = r.m
    BY <1>0, SameSpoken DEF OpenType, Fields, Promised, Unheard, Abandoned
  <2> QED BY <1>0, <2>1, <2>2, Hushed
<1>2. CASE ~r.gone /\ r.out = "Sent"
  <2> DEFINE s == [[r EXCEPT !.gate = "Committing"] EXCEPT !.at = "owned"]
  <2>1. Set(o, s)
    BY <1>2 DEF Verdict, Go
  <2>2. Promised(r)
    BY <1>0, <1>2 DEF Promised
  <2>3. Spoken(r, s, {}, Owns(o), Owns(o)) /\ s.m = r.m
    BY <1>0, <2>2, SameSpoken DEF OpenType, Fields, Unheard
  <2> QED BY <1>0, <2>1, <2>3, Hushed
<1>3. CASE ~r.gone /\ r.out \notin {"Sent", "PermanentFail"}
  <2> DEFINE s == [[r EXCEPT !.gate = "Pending", !.timer = TRUE] EXCEPT !.at = "idle"]
  <2>1. Set(o, s)
    BY <1>3 DEF Verdict, Go
  <2>2. Unheard(r)
    BY <1>0, <1>3 DEF Unheard
  <2>3. Spoken(r, s, {}, Owns(o), Owns(o)) /\ s.m = r.m
    BY <1>0, <2>2, SameSpoken DEF OpenType, Fields, Promised
  <2> QED BY <1>0, <2>1, <2>3, Hushed
<1> QED BY <1>1, <1>2, <1>3

\* commit_open_ack() says nothing.
LEMMA CommitSpeaks ==
  ASSUME wire \in Seq(WireRecord), NEW o, OpenInv(op[o], Owns(o)),
         CommitOwned(o) \/ CommitClaim(o) \/ CommitVerify(o)
  PROVE  Speaks(o)
<1> DEFINE r == op[o]
<1>0. /\ OpenType(r) /\ Stage(r) /\ r.at \in {"owned", "claim", "verify"} /\ UNCHANGED <<reg, wire>>
  BY DEF OpenInv, CommitOwned, CommitClaim, CommitVerify, At
<1>1. r.gate = "Committing" /\ Promised(r)
  BY <1>0 DEF Stage, Committing, Promised
<1>2. ASSUME NEW c \in {"claim", "abort", "publish"}, Set(o, [r EXCEPT !.at = c]) PROVE Speaks(o)
  <2> DEFINE s == [r EXCEPT !.at = c]
  <2>1. Spoken(r, s, {}, Owns(o), Owns(o)) /\ s.m = r.m
    BY <1>0, <1>1, <1>2, SameSpoken DEF OpenType, Fields, Unheard
  <2> QED BY <1>0, <1>2, <2>1, Hushed
<1>3. CASE CommitOwned(o) \/ CommitVerify(o)
  <2>1. \E c \in {"claim", "abort", "publish"} : Set(o, [r EXCEPT !.at = c])
    BY <1>3, Zenon DEF CommitOwned, CommitVerify, Go
  <2> QED BY <1>2, <2>1
<1>4. CASE CommitClaim(o) /\ r.tun = "None"
  <2> DEFINE s == [[r EXCEPT !.tun = "Connected"] EXCEPT !.at = "verify"]
  <2>1. Set(o, s)
    BY <1>4 DEF CommitClaim, Go
  <2>2. Spoken(r, s, {}, Owns(o), Owns(o)) /\ s.m = r.m
    BY <1>0, <1>1, <1>4 DEF OpenType, Fields, Unheard, Spoken, Terminal
  <2> QED BY <1>0, <2>1, <2>2, Hushed
<1>5. CASE CommitClaim(o) /\ r.tun /= "None"
  <2>1. Set(o, [r EXCEPT !.at = "abort"])
    BY <1>5 DEF CommitClaim, Go
  <2> QED BY <1>2, <2>1
<1> QED BY <1>3, <1>4, <1>5

\* Nor does its end.
LEMMA PublishSpeaks ==
  ASSUME wire \in Seq(WireRecord), NEW o, OpenInv(op[o], Owns(o)),
         CommitPublish(o) \/ CommitCount(o) \/ Settle(o)
  PROVE  Speaks(o)
<1> DEFINE r == op[o]
<1>0. /\ OpenType(r) /\ Stage(r) /\ r.at \in {"publish", "count", "settle", "unsettle"}
      /\ UNCHANGED <<reg, wire>>
  BY DEF OpenInv, CommitPublish, CommitCount, Settle, At
<1>1. r.gate = "Committing" /\ Promised(r)
  BY <1>0 DEF Stage, Committing, Promised
<1>2. CASE CommitPublish(o)
  <2> DEFINE s == [[r EXCEPT !.ok = @ + 1] EXCEPT !.at = "count"]
  <2>1. Set(o, s)
    BY <1>2 DEF CommitPublish, Go
  <2>2. Spoken(r, s, {}, Owns(o), Owns(o)) /\ s.m = r.m
    BY <1>0, <1>1, SameSpoken DEF OpenType, Fields, Unheard
  <2> QED BY <1>0, <2>1, <2>2, Hushed
<1>3. CASE CommitCount(o)
  <2> DEFINE s == [active_gauge_count(r) EXCEPT !.at = "settle"]
  <2>1. Set(o, s)
    BY <1>3 DEF CommitCount, Go
  <2>2. Spoken(r, s, {}, Owns(o), Owns(o)) /\ s.m = r.m
    BY <1>0, <1>1, SameSpoken DEF OpenType, Fields, Unheard, active_gauge_count
  <2> QED BY <1>0, <2>1, <2>2, Hushed
<1>4. CASE Settle(o) /\ r.at = "settle"
  <2> DEFINE p == IF r.gone THEN r.posts \cup {"close"} ELSE r.posts
             s == [[r EXCEPT !.gate = "Committed", !.posts = p] EXCEPT !.at = "idle"]
  <2>1. Set(o, s)
    BY <1>4, Zenon DEF Settle, Go, At
  <2>2. "remove" \in p => "remove" \in r.posts
    OBVIOUS
  <2> HIDE DEF p
  <2>3. Spoken(r, s, {}, Owns(o), Owns(o)) /\ s.m = r.m
    BY <1>0, <1>1, <2>2, SameSpoken DEF OpenType, Fields, Unheard
  <2> QED BY <1>0, <2>1, <2>3, Hushed
<1>5. CASE Settle(o) /\ r.at = "unsettle"
  <2> DEFINE s == [[r EXCEPT !.gate = "Abandoned"] EXCEPT !.at = "idle"]
  <2>1. Set(o, s)
    BY <1>5 DEF Settle, Go, At
  <2>2. Spoken(r, s, {}, Owns(o), Owns(o)) /\ s.m = r.m
    BY <1>0, <1>1, SameSpoken DEF OpenType, Fields, Unheard
  <2> QED BY <1>0, <2>1, <2>2, Hushed
<1>6. Settle(o) => r.at \in {"settle", "unsettle"}
  BY DEF Settle, At
<1> QED BY <1>2, <1>3, <1>4, <1>5, <1>6

\* What the friend was promised does not depend on how the tunnel ends.
LEMMA KeptHeard ==
  ASSUME NEW r, NEW q, Kept(r, q)
  PROVE  (Unheard(q) <=> Unheard(r)) /\ (Promised(q) <=> Promised(r))
BY DEF Kept, Unheard, Promised

\* remove_tunnel_if().
LEMMA RemoveFacts ==
  ASSUME NEW o, NEW r, OpenType(r)
  PROVE  LET q == RemoveIf(o, r)
         IN  /\ OpenType(q) /\ Kept(r, q) /\ (~Owns(o) => q = r)
             /\ r.notify /= "no" => q.notify /= "no"
             /\ r.tun \in Terminal => q.tun \in Terminal /\ q.notify = r.notify
<1> DEFINE q == RemoveIf(o, r)
<1>1. CASE ~Owns(o)
  <2>1. q = r
    BY <1>1 DEF RemoveIf
  <2> QED BY <2>1 DEF Kept
<1>2. CASE Owns(o)
  <2>1. q = LetGo(r)
    BY <1>2 DEF RemoveIf
  <2>2. /\ OpenType(q) /\ Kept(r, q)
        /\ r.tun = "Connected" => q.tun = "Disconnecting" /\ q.notify = IF r.notify = "no" THEN "due" ELSE r.notify
        /\ r.tun /= "Connected" => q = ForceClose(r)
    BY <2>1, LetGoFacts
  <2> HIDE DEF q
  <2>3. /\ r.notify /= "no" => q.notify /= "no"
        /\ r.tun \in Terminal => q.tun \in Terminal /\ q.notify = r.notify
    BY <2>2, ForceCloseFacts DEF Terminal
  <2> QED BY <1>2, <2>2, <2>3 DEF q
<1> QED BY <1>1, <1>2

\* fail_prewire() says ERROR while the tunnel is registered.
LEMMA PrewireSpeaks ==
  ASSUME wire \in Seq(WireRecord), NEW o \in Opens, NEW r, OpenType(r), Kept([op[o] EXCEPT !.sock = r.sock], r),
         OpenType(op[o]), r.tun = op[o].tun, r.notify = op[o].notify,
         r.gate = "none", r.phase /= "None", r.at /= "sending", r.phase /= "Handed", fail_prewire(o, r)
  PROVE  Speaks(o)
<1>0. /\ r.phase = op[o].phase /\ r.byPeer = op[o].byPeer /\ r.posts = op[o].posts /\ r.gate = op[o].gate
      /\ r.m = op[o].m
  BY DEF Kept, OpenType, Fields
<1>1. CASE Cancellable(r)
  <2> DEFINE q == RemoveIf(o, r)
             b == BookFailure([q EXCEPT !.phase = "Resolved"])
             s == [b EXCEPT !.at = "idle"]
  <2>1. Set(o, s) /\ Unregister(o)
    BY <1>1 DEF fail_prewire, Go
  <2>2. /\ OpenType(q) /\ Kept(r, q) /\ (~Owns(o) => q = r)
        /\ r.notify /= "no" => q.notify /= "no"
        /\ r.tun \in Terminal => q.tun \in Terminal
    BY RemoveFacts
  <2> HIDE DEF q
  <2>3. /\ DOMAIN b = Fields /\ b.phase = "Resolved" /\ b.byPeer = q.byPeer /\ b.notify = q.notify
        /\ b.posts = q.posts /\ b.tun = q.tun /\ b.gate = q.gate /\ b.m = q.m
    BY <2>2 DEF OpenType, Fields, BookFailure
  <2> HIDE DEF b
  <2>4. /\ s.phase = "Resolved" /\ s.byPeer = q.byPeer /\ s.notify = q.notify /\ s.posts = q.posts
        /\ s.tun = q.tun /\ s.gate = q.gate /\ s.m = q.m /\ s.at = "idle"
    BY <2>3 DEF Fields
  <2> HIDE DEF s
  <2>5. /\ s.byPeer = op[o].byPeer /\ s.posts = op[o].posts /\ s.gate = "none" /\ s.m = op[o].m
    BY <1>0, <2>2, <2>4 DEF Kept
  <2>6. CASE Owns(o)
    <3>1. Sends(o, <<"ERROR">>, Alive(o) /\ up)
      BY <1>1, <2>6 DEF fail_prewire, Tells, Sends
    <3>2. Said(o, {"ERROR"}, Alive(o) /\ up)
      BY <3>1, SaidOne DEF Words
    <3>3. Spoken(op[o], s, {"ERROR"}, Owns(o), FALSE)
      BY <1>0, <2>2, <2>4, <2>5 DEF Spoken, Unheard, Promised
    <3>4. {"ERROR"} \in SUBSET Words /\ "ACK" \notin {"ERROR"}
      BY DEF Words
    <3> QED BY <2>1, <2>5, <3>2, <3>3, <3>4, Zenon DEF Speaks, Set
  <2>7. CASE ~Owns(o)
    <3>1. wire' = wire /\ reg' = reg
      BY <1>1, <2>1, <2>7 DEF fail_prewire, Unregister
    <3>2. Spoken(op[o], s, {}, Owns(o), Owns(o))
      BY <1>0, <2>2, <2>4, <2>5, <2>7 DEF Spoken, Unheard, Promised
    <3> QED BY <2>1, <2>5, <3>1, <3>2, Hushed
  <2> QED BY <2>6, <2>7
<1>2. CASE ~Cancellable(r)
  <2> DEFINE s == [r EXCEPT !.at = "idle"]
  <2>1. Set(o, s) /\ UNCHANGED <<reg, wire>>
    BY <1>2 DEF fail_prewire, Go
  <2>2. /\ s.phase = op[o].phase /\ s.byPeer = op[o].byPeer /\ s.posts = op[o].posts
        /\ s.gate = op[o].gate /\ s.m = op[o].m /\ s.tun = op[o].tun /\ s.notify = op[o].notify
        /\ s.at = "idle"
    BY <1>0 DEF OpenType, Fields
  <2>3. s.phase = "Resolved"
    BY <1>0, <1>2, <2>2 DEF OpenType, Cancellable
  <2>4. Spoken(op[o], s, {}, Owns(o), Owns(o))
    BY <1>0, <2>2, <2>3, SameSpoken DEF Unheard, Promised
  <2> QED BY <2>1, <2>2, <2>4, Hushed
<1> QED BY <1>1, <1>2

\* The resolver's answer.
LEMMA ResolveSpeaks ==
  ASSUME wire \in Seq(WireRecord), NEW o \in Opens, OpenInv(op[o], Owns(o)), NEW good \in BOOLEAN,
         ResolveEnds(o, good)
  PROVE  Speaks(o)
<1> DEFINE r == op[o]
<1>0. OpenType(r) /\ Stage(r) /\ r.at = "resolving"
  BY DEF OpenInv, ResolveEnds, At
<1>1. r.gate = "none" /\ r.phase \in {"Resolving", "Resolved"}
  BY <1>0 DEF OpenType, Stage
<1>2. CASE good /\ r.phase = "Resolving"
  <2> DEFINE s == [[r EXCEPT !.phase = "Connecting", !.sock = "Connecting"] EXCEPT !.at = "connecting"]
  <2>1. Set(o, s) /\ UNCHANGED <<reg, wire>>
    BY <1>2 DEF ResolveEnds, Go
  <2>2. Unheard(r)
    BY <1>1, <1>2 DEF Unheard
  <2>3. Spoken(r, s, {}, Owns(o), Owns(o)) /\ s.m = r.m
    BY <1>0, <1>1, <1>2, <2>2 DEF Spoken, Unheard, Promised, OpenType, Fields
  <2> QED BY <2>1, <2>3, Hushed
<1>3. CASE ~(good /\ r.phase = "Resolving")
  <2>1. fail_prewire(o, r)
    BY <1>3 DEF ResolveEnds
  <2>2. Kept([r EXCEPT !.sock = r.sock], r)
    BY <1>0 DEF Kept, OpenType, Fields
  <2> QED BY <1>0, <1>1, <2>1, <2>2, PrewireSpeaks
<1> QED BY <1>2, <1>3

\* The end of the connect.
LEMMA ConnectSpeaks ==
  ASSUME wire \in Seq(WireRecord), NEW o \in Opens, OpenInv(op[o], Owns(o)), NEW good \in BOOLEAN,
         ConnectEnds(o, good)
  PROVE  Speaks(o)
<1> DEFINE c == IF good /\ op[o].sock = "Connecting" THEN "Connected" ELSE "Disconnected"
           r == [op[o] EXCEPT !.sock = c]
<1>0. OpenType(op[o]) /\ Stage(op[o]) /\ op[o].at = "connecting" /\ c \in {"Connected", "Disconnected"}
  BY DEF OpenInv, ConnectEnds, At
<1>1. IF r.phase = "Connecting" /\ r.sock = "Connected"
      THEN Go(o, [r EXCEPT !.phase = "Handed"], "handed") /\ UNCHANGED <<reg, wire>>
      ELSE IF r.phase = "Resolved" THEN Go(o, Shut(r), "idle") /\ UNCHANGED <<reg, wire>>
      ELSE fail_prewire(o, r)
  BY Zenon DEF ConnectEnds
<1>2. op[o].gate = "none" /\ op[o].phase \in {"Connecting", "Resolved"}
  BY <1>0 DEF OpenType, Stage
<1> HIDE DEF c
<1>3. /\ OpenType(r) /\ r.phase = op[o].phase /\ r.m = op[o].m /\ r.gate = op[o].gate /\ r.sock = c
      /\ r.tun = op[o].tun /\ r.notify = op[o].notify /\ r.byPeer = op[o].byPeer
      /\ r.posts = op[o].posts /\ r.at = op[o].at /\ r.out = op[o].out
  BY <1>0 DEF OpenType, Fields
<1>4. Kept([op[o] EXCEPT !.sock = r.sock], r)
  BY <1>3 DEF Kept
<1> HIDE DEF r
<1>5. CASE r.phase = "Connecting" /\ r.sock = "Connected"
  <2> DEFINE s == [[r EXCEPT !.phase = "Handed"] EXCEPT !.at = "handed"]
  <2>1. Set(o, s) /\ UNCHANGED <<reg, wire>>
    BY <1>1, <1>5 DEF Go
  <2>2. Unheard(op[o])
    BY <1>2, <1>3, <1>5 DEF Unheard
  <2>3. Spoken(op[o], s, {}, Owns(o), Owns(o)) /\ s.m = op[o].m
    BY <1>2, <1>3, <2>2 DEF Spoken, Promised, OpenType, Fields
  <2> QED BY <2>1, <2>3, Hushed
<1>6. CASE ~(r.phase = "Connecting" /\ r.sock = "Connected") /\ r.phase = "Resolved"
  <2> DEFINE s == [Shut(r) EXCEPT !.at = "idle"]
  <2>1. Set(o, s) /\ UNCHANGED <<reg, wire>>
    BY <1>1, <1>6 DEF Go
  <2>2. Spoken(op[o], s, {}, Owns(o), Owns(o)) /\ s.m = op[o].m
    BY <1>2, <1>3, <1>6 DEF Spoken, Promised, Unheard, OpenType, Fields, Shut
  <2> QED BY <2>1, <2>2, Hushed
<1>7. CASE ~(r.phase = "Connecting" /\ r.sock = "Connected") /\ r.phase /= "Resolved"
  <2>1. fail_prewire(o, r)
    BY <1>1, <1>7
  <2> QED BY <1>0, <1>2, <1>3, <1>4, <2>1, PrewireSpeaks
<1> QED BY <1>5, <1>6, <1>7

\* A tunnel that had ended before its hooks were in is announced already.
LEMMA RecheckSpeaks ==
  ASSUME wire \in Seq(WireRecord), NEW o, OpenInv(op[o], Owns(o)), Recheck(o)
  PROVE  Speaks(o)
<1> DEFINE r == op[o]
<1>0. OpenType(r) /\ Stage(r) /\ Ending(r, Owns(o)) /\ r.at = "recheck" /\ wire' = wire
  BY DEF OpenInv, Recheck, At
<1>1. r.gate = "Pending" /\ r.phase = "Handed" /\ Unheard(r)
  BY <1>0 DEF Stage, Unheard
<1>2. CASE r.tun \notin Terminal
  <2> DEFINE s == [r EXCEPT !.at = "attempt"]
  <2>1. Set(o, s) /\ reg' = reg
    BY <1>2 DEF Recheck, Go
  <2>2. Spoken(r, s, {}, Owns(o), Owns(o)) /\ s.m = r.m
    BY <1>0, <1>1, SameSpoken DEF OpenType, Fields, Promised
  <2> QED BY <1>0, <2>1, <2>2, Hushed
<1>3. CASE r.tun \in Terminal
  <2> DEFINE d == active_gauge_release(Shut(r))
             p == [d EXCEPT !.gate = "Abandoned"]
             q == RemoveIf(o, p)
             s == [BookFailure(q) EXCEPT !.at = "idle"]
  <2>1. Set(o, s) /\ Unregister(o)
    BY <1>3, Zenon DEF Recheck, Go
  <2>2. OpenType(d) /\ Kept(r, d) /\ d.tun = r.tun /\ d.notify = r.notify
    BY <1>0, ShutFacts, ReleaseFacts, KeptTrans
  <2> HIDE DEF d
  <2>3. OpenType(p)
    BY <2>2 DEF OpenType, Fields
  <2>4. /\ p.m = r.m /\ p.gate = "Abandoned" /\ p.phase = r.phase /\ p.byPeer = r.byPeer
        /\ p.posts = r.posts /\ p.tun = r.tun /\ p.notify = r.notify
    BY <2>2 DEF OpenType, Fields, Kept
  <2> HIDE DEF p
  <2>5. OpenType(q) /\ Kept(p, q) /\ q.tun \in Terminal /\ q.notify = p.notify
    BY <1>3, <2>3, <2>4, RemoveFacts
  <2> HIDE DEF q
  <2>6. /\ s.m = q.m /\ s.gate = q.gate /\ s.at = "idle" /\ s.phase = q.phase /\ s.byPeer = q.byPeer
        /\ s.posts = q.posts /\ s.tun = q.tun /\ s.notify = q.notify
    BY <2>5 DEF BookFailure, OpenType, Fields
  <2> HIDE DEF s
  <2>7. /\ s.m = r.m /\ s.gate = "Abandoned" /\ s.phase = r.phase /\ s.byPeer = r.byPeer
        /\ s.posts = r.posts /\ s.tun \in Terminal /\ s.notify = r.notify /\ r.notify /= "no"
    BY <1>0, <1>3, <2>4, <2>5, <2>6 DEF Kept, Ending
  <2>8. Spoken(r, s, {}, Owns(o), FALSE)
    BY <1>3, <2>6, <2>7 DEF Spoken, Unheard, Promised
  <2>9. Said(o, {}, Alive(o) /\ up) /\ {} \in SUBSET Words /\ "ACK" \notin {}
    BY <1>0, SaidNothing
  <2> QED BY <2>1, <2>7, <2>8, <2>9, Zenon DEF Speaks, Set
<1> QED BY <1>2, <1>3

\* Two short sequences joined.
LEMMA Pair == ASSUME NEW S, NEW a \in S, NEW b \in S PROVE <<a>> \o <<b>> = <<a, b>> /\ <<a>> \o <<>> = <<a>>
<1> DEFINE x == <<a>> \o <<b>>
           y == <<a, b>>
<1>1. x \in Seq(S) /\ Len(x) = 2 /\ x[1] = a /\ x[2] = b
  OBVIOUS
<1>2. y \in Seq(S) /\ Len(y) = 2 /\ y[1] = a /\ y[2] = b
  OBVIOUS
<1>3. <<a>> \o <<>> = <<a>>
  OBVIOUS
<1> HIDE DEF x, y
<1>4. \A i \in 1 .. Len(x) : x[i] = y[i]
  <2>1. \A i \in 1 .. 2 : i = 1 \/ i = 2
    OBVIOUS
  <2> QED BY <1>1, <1>2, <2>1
<1>5. x = y
  BY <1>1, <1>2, <1>4, SeqEqual
<1> QED BY <1>3, <1>5 DEF x, y

\* The words of a cleanup.
LEMMA TwoWords == <<"ERROR">> \o <<"CLOSE">> = <<"ERROR", "CLOSE">> /\ <<"ERROR">> \o <<>> = <<"ERROR">>
<1>1. "ERROR" \in Words /\ "CLOSE" \in Words
  BY DEF Words
<1> QED BY <1>1, Pair, Zenon

\* An ERROR and the farewell of the tunnel.
LEMMA FarewellSaid ==
  ASSUME wire \in Seq(WireRecord), NEW o \in Opens, NEW r, Tells(o, <<"ERROR">> \o Farewell(r))
  PROVE  \E K \in {{"ERROR"}, {"ERROR", "CLOSE"}} : Said(o, K, Alive(o) /\ up)
<1>1. CASE r.tun = "Connected"
  <2>1. <<"ERROR">> \o Farewell(r) = <<"ERROR", "CLOSE">>
    <3>1. Farewell(r) = <<"CLOSE">>
      BY <1>1, Zenon DEF Farewell
    <3> QED BY <3>1, TwoWords, Zenon
  <2>2. Sends(o, <<"ERROR", "CLOSE">>, Alive(o) /\ up)
    BY <2>1, Zenon DEF Sends, Tells
  <2> QED BY <2>2, SaidTwo
<1>2. CASE r.tun /= "Connected"
  <2>1. <<"ERROR">> \o Farewell(r) = <<"ERROR">>
    <3>1. Farewell(r) = <<>>
      BY <1>2, Zenon DEF Farewell
    <3> QED BY <3>1, TwoWords, Zenon
  <2>2. Sends(o, <<"ERROR">>, Alive(o) /\ up)
    BY <2>1, Zenon DEF Sends, Tells
  <2>3. "ERROR" \in Words
    BY DEF Words
  <2> QED BY <2>2, <2>3, SaidOne
<1> QED BY <1>1, <1>2

\* The two cleanups say ERROR.
LEMMA AbortSpeaks ==
  ASSUME wire \in Seq(WireRecord), NEW o \in Opens, OpenInv(op[o], Owns(o)),
         CommitAbort(o) \/ abandon_open_ack(o)
  PROVE  Speaks(o)
<1> DEFINE r == op[o]
           q == Release(o, r)
<1>0. OpenType(r) /\ Stage(r) /\ Outcome(r)
  BY DEF OpenInv
<1>1. r.hooked /\ r.failed = 0 /\ r.gate \in {"Committing", "Abandoned"} /\ r.phase = "Handed"
      /\ (CommitAbort(o) => r.gate = "Committing") /\ (~CommitAbort(o) => r.gate = "Abandoned")
  BY <1>0 DEF Stage, Outcome, Booked, CommitAbort, abandon_open_ack, At, Committing
<1>2. /\ OpenType(q) /\ q.m = r.m /\ q.gate = r.gate /\ q.tun \in Terminal /\ q.notify /= "no"
      /\ q.byPeer = r.byPeer /\ q.posts = r.posts /\ q.phase = r.phase /\ q.at = r.at
  <2>1. OpenType(q) /\ Kept([r EXCEPT !.failed = 1], q) /\ q.tun \in Terminal /\ q.notify /= "no"
    BY <1>1, ReleaseEnds
  <2>2. LET f == [r EXCEPT !.failed = 1]
        IN  /\ f.m = r.m /\ f.gate = r.gate /\ f.byPeer = r.byPeer /\ f.posts = r.posts
            /\ f.phase = r.phase /\ f.at = r.at
    BY <1>0 DEF OpenType, Fields
  <2> QED BY <2>1, <2>2 DEF Kept
<1>3. PICK K \in {{"ERROR"}, {"ERROR", "CLOSE"}} : Said(o, K, Alive(o) /\ up)
  BY FarewellSaid DEF CommitAbort, abandon_open_ack
<1>4. K \in SUBSET Words /\ "ACK" \notin K /\ "ERROR" \in K
  BY <1>3 DEF Words
<1>5. ~Unheard(r)
  BY <1>0, <1>1 DEF Stage, Unheard
<1>6. ASSUME NEW s, s.gate = r.gate, s.tun \in Terminal, s.notify /= "no", s.byPeer = r.byPeer,
             "remove" \in s.posts => "remove" \in r.posts, s.phase = r.phase, s.at = "unsettle" \/ s.at = r.at,
             s.m = r.m, Set(o, s), Unregister(o)
      PROVE  Speaks(o)
  <2>1. ~Unheard(s) /\ (Promised(s) => Promised(r))
    BY <1>0, <1>1, <1>6 DEF Unheard, Promised, Stage
  <2>2. Spoken(r, s, K, Owns(o), FALSE)
    BY <1>4, <1>6, <2>1 DEF Spoken
  <2> QED BY <1>3, <1>4, <1>6, <2>2, Zenon DEF Speaks, Set
<1>7. CASE CommitAbort(o)
  <2> DEFINE s == [q EXCEPT !.at = "unsettle"]
  <2>1. Set(o, s) /\ Unregister(o)
    BY <1>7 DEF CommitAbort, Go
  <2> HIDE DEF q
  <2>2. /\ s.gate = r.gate /\ s.tun \in Terminal /\ s.notify /= "no" /\ s.byPeer = r.byPeer
        /\ s.posts = r.posts /\ s.phase = r.phase /\ s.at = "unsettle" /\ s.m = r.m
    BY <1>2 DEF OpenType, Fields
  <2> QED BY <1>6, <2>1, <2>2
<1>8. CASE abandon_open_ack(o)
  <2> DEFINE s == [q EXCEPT !.posts = @ \ {"abandon"}]
  <2>1. Set(o, s) /\ Unregister(o)
    BY <1>8 DEF abandon_open_ack
  <2> HIDE DEF q
  <2>2. /\ s.gate = r.gate /\ s.tun \in Terminal /\ s.notify /= "no" /\ s.byPeer = r.byPeer
        /\ s.phase = r.phase /\ s.at = r.at /\ s.m = r.m
        /\ s.posts = r.posts \ {"abandon"}
    BY <1>2 DEF OpenType, Fields
  <2> QED BY <1>6, <2>1, <2>2
<1> QED BY <1>7, <1>8

\* The end of the target socket says nothing itself.
LEMMA SocketSpeaks ==
  ASSUME wire \in Seq(WireRecord), NEW o, OpenInv(op[o], Owns(o)), NEW a \in BOOLEAN, SocketCloses(o, a)
  PROVE  Speaks(o)
<1> DEFINE r == op[o]
           d == [r EXCEPT !.sock = "Disconnected", !.shut = FALSE]
           e == [d EXCEPT !.abnormal = a]
           s == IF d.hooked THEN target_gone(e) ELSE d
<1>0. OpenType(r) /\ Stage(r) /\ Set(o, s) /\ UNCHANGED <<reg, wire>>
  BY DEF OpenInv, SocketCloses
<1>1. /\ DOMAIN d = Fields /\ d.m = r.m /\ d.gate = r.gate /\ d.phase = r.phase /\ d.byPeer = r.byPeer
      /\ d.posts = r.posts /\ d.tun = r.tun /\ d.notify = r.notify /\ d.at = r.at /\ d.out = r.out
  BY <1>0 DEF OpenType, Fields
<1> HIDE DEF d
<1>2. /\ DOMAIN e = Fields /\ e.m = r.m /\ e.gate = r.gate /\ e.phase = r.phase /\ e.byPeer = r.byPeer
      /\ e.posts = r.posts /\ e.tun = r.tun /\ e.notify = r.notify /\ e.at = r.at /\ e.out = r.out
  BY <1>1 DEF Fields
<1> HIDE DEF e
<1>3. s \in {d, e} \/ (s = Abandoned(e) /\ e.gate = "Pending")
      \/ s = [e EXCEPT !.gone = TRUE, !.timer = FALSE] \/ s = [e EXCEPT !.posts = @ \cup {"close"}]
  BY <1>0, <1>2 DEF target_gone, OpenType
<1> HIDE DEF s
<1>4. /\ s.m = r.m /\ s.phase = r.phase /\ s.byPeer = r.byPeer /\ s.tun = r.tun
      /\ s.notify = r.notify /\ s.at = r.at /\ s.out = r.out
      /\ "remove" \in s.posts => "remove" \in r.posts
      /\ s.gate = r.gate \/ (s.gate = "Abandoned" /\ r.gate = "Pending")
  <2>1. CASE s \in {d, e}
    BY <1>1, <1>2, <2>1
  <2>2. CASE s = Abandoned(e) /\ e.gate = "Pending"
    BY <1>2, <2>2 DEF Abandoned, Fields
  <2>3. CASE s = [e EXCEPT !.gone = TRUE, !.timer = FALSE]
    BY <1>2, <2>3 DEF Fields
  <2>4. CASE s = [e EXCEPT !.posts = @ \cup {"close"}]
    BY <1>2, <2>4 DEF Fields
  <2> QED BY <1>3, <2>1, <2>2, <2>3, <2>4
<1>5. Spoken(r, s, {}, Owns(o), Owns(o))
  <2>1. (Unheard(s) => Unheard(r)) /\ (Promised(s) => Promised(r))
    BY <1>4 DEF Unheard, Promised
  <2> QED BY <1>4, <2>1, SameSpoken
<1> QED BY <1>0, <1>4, <1>5, Hushed

\* A published tunnel has been heard of.
LEMMA EstablishedHeard ==
  ASSUME NEW r, NEW own, OpenInv(r, own), r.tun \in Established
  PROVE  ~Unheard(r)
BY DEF OpenInv, Ending, Stage, Unheard, OpenType

\* A step that says K, with the registration kept.
LEMMA Telling ==
  ASSUME NEW o, NEW s, NEW K \in SUBSET Words, Set(o, s), reg' = reg, s.m = op[o].m,
         Said(o, K, Alive(o) /\ up), "ACK" \notin K, Spoken(op[o], s, K, Owns(o), Owns(o))
  PROVE  Speaks(o)
BY Zenon DEF Speaks, Set

\* An ERROR or a CLOSE.
LEMMA SaidWord ==
  ASSUME wire \in Seq(WireRecord), NEW o \in Opens, NEW k \in {"ERROR", "CLOSE"}, Tells(o, <<k>>)
  PROVE  Said(o, {k}, Alive(o) /\ up) /\ {k} \in SUBSET Words /\ "ACK" \notin {k}
<1>1. k \in Words /\ Sends(o, <<k>>, Alive(o) /\ up)
  BY Zenon DEF Words, Tells, Sends
<1> QED BY <1>1, SaidOne

\* The target's FIN says CLOSE.
LEMMA EofSpeaks ==
  ASSUME wire \in Seq(WireRecord), NEW o \in Opens, OpenInv(op[o], Owns(o)), on_tcp_read_eof(o)
  PROVE  Speaks(o)
<1> DEFINE r == op[o]
           d == [r EXCEPT !.eof = TRUE]
<1>0. OpenType(r) /\ r.gate = "Committed" /\ reg' = reg
  BY DEF OpenInv, on_tcp_read_eof
<1>1. OpenType(d)
  BY <1>0 DEF OpenType, Fields
<1>2. /\ d.m = r.m /\ d.gate = r.gate /\ d.tun = r.tun /\ d.peerClosed = r.peerClosed
      /\ d.phase = r.phase /\ d.byPeer = r.byPeer /\ d.posts = r.posts /\ d.notify = r.notify
      /\ d.at = r.at /\ d.out = r.out
  BY <1>0 DEF OpenType, Fields
<1>3. CASE r.tun /= "Connected"
  <2>1. Set(o, d) /\ wire' = wire
    BY <1>2, <1>3 DEF on_tcp_read_eof
  <2> HIDE DEF d
  <2>2. Spoken(r, d, {}, Owns(o), Owns(o))
    BY <1>2, SameSpoken DEF Unheard, Promised
  <2> QED BY <1>0, <1>2, <2>1, <2>2, Hushed
<1>4. CASE r.tun = "Connected"
  <2>1. ~Unheard(r)
    BY <1>4, EstablishedHeard DEF Established
  <2>2. Said(o, {"CLOSE"}, Alive(o) /\ up) /\ {"CLOSE"} \in SUBSET Words /\ "ACK" \notin {"CLOSE"}
    BY <1>2, <1>4, SaidWord DEF on_tcp_read_eof
  <2>3. CASE r.peerClosed
    <3> DEFINE s == Terminate(d, "Closed")
    <3>1. Set(o, s)
      BY <1>2, <1>4, <2>3 DEF on_tcp_read_eof
    <3> HIDE DEF d
    <3>2. OpenType(s) /\ Kept(d, s) /\ s.tun = "Closed" /\ "Closed" \in Terminal
          /\ s.notify = (IF d.notify = "no" THEN "due" ELSE d.notify)
      BY <1>1, <1>2, <1>4, TerminateFacts DEF Terminal
    <3> HIDE DEF s
    <3>3. s.m = r.m /\ Spoken(r, s, {"CLOSE"}, Owns(o), Owns(o))
      BY <1>2, <1>4, <2>1, <3>2 DEF Spoken, Kept, Unheard, Promised
    <3> QED BY <1>0, <2>2, <3>1, <3>3, Telling
  <2>4. CASE ~r.peerClosed
    <3> DEFINE s == [d EXCEPT !.tun = "Disconnecting"]
    <3>1. Set(o, s)
      BY <1>2, <1>4, <2>4 DEF on_tcp_read_eof
    <3> HIDE DEF d
    <3>2. s.m = r.m /\ Spoken(r, s, {"CLOSE"}, Owns(o), Owns(o))
      BY <1>1, <1>2, <1>4, <2>1 DEF OpenType, Fields, Spoken, Unheard, Promised, Terminal
    <3> QED BY <1>0, <2>2, <3>1, <3>2, Telling
  <2> QED BY <2>3, <2>4
<1> QED BY <1>3, <1>4

\* The posted close says ERROR or CLOSE.
LEMMA CloseSpeaks ==
  ASSUME wire \in Seq(WireRecord), NEW o \in Opens, OpenInv(op[o], Owns(o)), CloseRuns(o)
  PROVE  Speaks(o)
<1> DEFINE r == op[o]
           p == [r EXCEPT !.posts = @ \ {"close"}]
<1>0. OpenType(r) /\ reg' = reg
  BY DEF OpenInv, CloseRuns
<1>1. OpenType(p)
  BY <1>0 DEF OpenType, Fields
<1>2. /\ p.m = r.m /\ p.gate = r.gate /\ p.tun = r.tun /\ p.abnormal = r.abnormal
      /\ p.phase = r.phase /\ p.byPeer = r.byPeer /\ p.notify = r.notify
      /\ p.at = r.at /\ p.out = r.out /\ ("remove" \in p.posts => "remove" \in r.posts)
  BY <1>0 DEF OpenType, Fields
<1>3. CASE Owns(o) /\ r.abnormal /\ r.tun \in Established
  <2> DEFINE s == Terminate(p, "Error")
  <2>1. Set(o, s) /\ Tells(o, <<"ERROR">>)
    BY <1>2, <1>3 DEF CloseRuns
  <2>2. ~Unheard(r)
    BY <1>3, EstablishedHeard
  <2>3. Said(o, {"ERROR"}, Alive(o) /\ up) /\ {"ERROR"} \in SUBSET Words /\ "ACK" \notin {"ERROR"}
    BY <2>1, SaidWord
  <2> HIDE DEF p
  <2>4. OpenType(s) /\ Kept(p, s) /\ s.tun = "Error" /\ "Error" \in Terminal
        /\ s.notify = (IF p.notify = "no" THEN "due" ELSE p.notify)
    BY <1>1, <1>2, <1>3, TerminateFacts DEF Terminal, Established
  <2> HIDE DEF s
  <2>5. s.m = r.m /\ Spoken(r, s, {"ERROR"}, Owns(o), Owns(o))
    BY <1>2, <1>3, <2>2, <2>4 DEF Spoken, Kept, Unheard, Promised
  <2> QED BY <1>0, <2>1, <2>3, <2>5, Telling
<1>4. CASE Owns(o) /\ ~(r.abnormal /\ r.tun \in Established)
  <2> DEFINE s == Close(p)
  <2>1. Set(o, s) /\ Tells(o, Farewell(p))
    BY <1>2, <1>4 DEF CloseRuns
  <2> HIDE DEF p
  <2>2. CASE r.tun = "Connected"
    <3>1. ~Unheard(r)
      BY <2>2, EstablishedHeard DEF Established
    <3>2. Farewell(p) = <<"CLOSE">>
      BY <1>2, <2>2, Zenon DEF Farewell
    <3>3. Said(o, {"CLOSE"}, Alive(o) /\ up) /\ {"CLOSE"} \in SUBSET Words /\ "ACK" \notin {"CLOSE"}
      BY <2>1, <3>2, SaidWord
    <3>4. Kept(p, s) /\ s.tun = "Disconnecting" /\ s.notify /= "no"
      BY <1>1, <1>2, <2>2, CloseFacts
    <3> HIDE DEF s
    <3>5. s.m = r.m /\ Spoken(r, s, {"CLOSE"}, Owns(o), Owns(o))
      BY <1>2, <2>2, <3>1, <3>4 DEF Spoken, Kept, Unheard, Promised, Terminal
    <3> QED BY <1>0, <2>1, <3>3, <3>5, Telling
  <2>3. CASE r.tun /= "Connected"
    <3>1. s = p
      BY <1>2, <2>3 DEF Close
    <3>2. Farewell(p) = <<>>
      BY <1>2, <2>3, Zenon DEF Farewell
    <3>3. wire' = wire
      <4>1. Frames(o, <<>>) = <<>>
        BY DEF Frames
      <4>2. wire \o <<>> = wire
        BY ConcatEmptySeq
      <4> QED BY <2>1, <3>2, <4>1, <4>2, Zenon DEF Tells
    <3>4. Spoken(r, p, {}, Owns(o), Owns(o))
      BY <1>2, SameSpoken DEF Unheard, Promised
    <3> QED BY <1>0, <1>2, <2>1, <3>1, <3>3, <3>4, Hushed
  <2> QED BY <2>2, <2>3
<1>5. CASE ~Owns(o)
  <2>1. Set(o, p) /\ wire' = wire
    BY <1>5 DEF CloseRuns
  <2> HIDE DEF p
  <2>2. Spoken(r, p, {}, Owns(o), Owns(o))
    BY <1>2, SameSpoken DEF Unheard, Promised
  <2> QED BY <1>0, <1>2, <2>1, <2>2, Hushed
<1> QED BY <1>3, <1>4, <1>5

\* A step that says nothing and takes the tunnel out of the table.
LEMMA Dropping ==
  ASSUME wire \in Seq(WireRecord), NEW o, NEW s, Set(o, s), Unregister(o), wire' = wire,
         s.m = op[o].m, Spoken(op[o], s, {}, Owns(o), FALSE)
  PROVE  Speaks(o)
<1>1. Said(o, {}, Alive(o) /\ up) /\ {} \in SUBSET Words /\ "ACK" \notin {}
  BY SaidNothing
<1> QED BY <1>1, Zenon DEF Speaks, Set

\* The close notification says nothing new.
LEMMA NotifySpeaks ==
  ASSUME wire \in Seq(WireRecord), NEW o, OpenInv(op[o], Owns(o)), NotifyClose(o)
  PROVE  Speaks(o)
<1> DEFINE r == op[o]
           p == [r EXCEPT !.notify = "done"]
<1>0. OpenType(r) /\ Stage(r) /\ r.notify = "due" /\ wire' = wire
  BY DEF OpenInv, NotifyClose
<1>1. OpenType(p)
  BY <1>0 DEF OpenType, Fields
<1>2. /\ p.m = r.m /\ p.gate = r.gate /\ p.tun = r.tun /\ p.notify = "done" /\ p.hooked = r.hooked
      /\ p.phase = r.phase /\ p.byPeer = r.byPeer /\ p.posts = r.posts /\ p.at = r.at /\ p.out = r.out
  BY <1>0 DEF OpenType, Fields
<1>3. CASE r.hooked
  <2> DEFINE d == active_gauge_release(Shut(p))
             s == [d EXCEPT !.posts = @ \cup {"remove"}]
  <2>1. Set(o, s) /\ reg' = reg
    BY <1>2, <1>3 DEF NotifyClose
  <2> HIDE DEF p
  <2>2. OpenType(d) /\ Kept(p, d) /\ d.tun = p.tun /\ d.notify = p.notify
    BY <1>1, ShutFacts, ReleaseFacts, KeptTrans
  <2> HIDE DEF d
  <2>3. /\ s.m = d.m /\ s.gate = d.gate /\ s.tun = d.tun /\ s.notify = d.notify
        /\ s.phase = d.phase /\ s.byPeer = d.byPeer /\ s.at = d.at /\ s.out = d.out
    BY <2>2 DEF OpenType, Fields
  <2> HIDE DEF s
  <2>4. s.m = r.m /\ Spoken(r, s, {}, Owns(o), Owns(o))
    BY <1>0, <1>2, <2>2, <2>3 DEF Spoken, Kept, Unheard, Promised
  <2> QED BY <1>0, <2>1, <2>4, Hushed
<1>4. CASE ~r.hooked /\ Cancellable(r)
  <2> DEFINE q == RemoveIf(o, p)
             d == [q EXCEPT !.phase = "Resolved"]
             s == BookFailure(Shut(d))
  <2>1. Set(o, s) /\ Unregister(o)
    BY <1>2, <1>4 DEF NotifyClose, Cancellable
  <2> HIDE DEF p
  <2>2. OpenType(q) /\ Kept(p, q) /\ q.notify /= "no" /\ (p.tun \in Terminal => q.tun \in Terminal)
    BY <1>1, <1>2, RemoveFacts
  <2> HIDE DEF q
  <2>3. OpenType(d)
    BY <2>2 DEF OpenType, Fields
  <2>4. /\ d.m = q.m /\ d.gate = q.gate /\ d.tun = q.tun /\ d.notify = q.notify /\ d.posts = q.posts
        /\ d.phase = "Resolved" /\ d.byPeer = q.byPeer /\ d.at = q.at /\ d.out = q.out
    BY <2>2 DEF OpenType, Fields
  <2> HIDE DEF d
  <2>5. /\ s.m = d.m /\ s.gate = d.gate /\ s.tun = d.tun /\ s.notify = d.notify /\ s.posts = d.posts
        /\ s.phase = d.phase /\ s.byPeer = d.byPeer /\ s.at = d.at /\ s.out = d.out
    BY <2>3 DEF OpenType, Fields, BookFailure, Shut
  <2> HIDE DEF s
  <2>6. r.gate = "none" /\ r.phase /= "None"
    BY <1>0, <1>4 DEF Stage, OpenType, Cancellable
  <2>7. r.at \notin {"sending", "verdict"}
    BY <1>0, <2>6 DEF Stage
  <2>8. s.m = r.m /\ Spoken(r, s, {}, Owns(o), FALSE)
    BY <1>0, <1>2, <2>2, <2>4, <2>5, <2>6, <2>7 DEF Spoken, Kept, Unheard, Promised
  <2> QED BY <1>0, <2>1, <2>8, Dropping
<1>5. CASE ~r.hooked /\ ~Cancellable(r)
  <2>1. Set(o, p) /\ reg' = reg
    BY <1>2, <1>5 DEF NotifyClose, Cancellable
  <2> HIDE DEF p
  <2>2. Spoken(r, p, {}, Owns(o), Owns(o))
    BY <1>0, <1>2 DEF Spoken, Unheard, Promised
  <2> QED BY <1>0, <1>2, <2>1, <2>2, Hushed
<1> QED BY <1>3, <1>4, <1>5

\* The posted removal follows a notification.
LEMMA RemoveSpeaks ==
  ASSUME wire \in Seq(WireRecord), NEW o, OpenInv(op[o], Owns(o)), op[o].notify /= "no", RemoveRuns(o)
  PROVE  Speaks(o)
<1> DEFINE r == op[o]
           q == RemoveIf(o, r)
           s == [q EXCEPT !.posts = @ \ {"remove"}]
<1>1. Set(o, s) /\ Unregister(o) /\ wire' = wire
  BY DEF RemoveRuns
<1>2. OpenType(q) /\ Kept(r, q) /\ q.notify /= "no" /\ (r.tun \in Terminal => q.tun \in Terminal)
  BY RemoveFacts DEF OpenInv
<1> HIDE DEF q
<1>3. /\ s.m = q.m /\ s.gate = q.gate /\ s.tun = q.tun /\ s.notify = q.notify
      /\ s.phase = q.phase /\ s.byPeer = q.byPeer /\ s.at = q.at /\ s.out = q.out
  BY <1>2 DEF OpenType, Fields
<1> HIDE DEF s
<1>4. s.m = r.m /\ Spoken(r, s, {}, Owns(o), FALSE)
  BY <1>2, <1>3 DEF Spoken, Kept, Unheard, Promised
<1> QED BY <1>1, <1>4, Dropping

\* The friend's own CLOSE and ERROR need no answer.
LEMMA PeerEndSpeaks ==
  ASSUME wire \in Seq(WireRecord), NEW o, OpenInv(op[o], Owns(o)),
         handle_tunnel_close_frame(o) \/ handle_tunnel_error_frame(o)
  PROVE  Speaks(o)
<1> DEFINE r == op[o]
           c == [r EXCEPT !.peerClosed = TRUE, !.byPeer = TRUE]
           e == [r EXCEPT !.byPeer = TRUE]
<1>0. OpenType(r) /\ "Closed" \in Terminal /\ "Error" \in Terminal
  BY DEF OpenInv, Terminal
<1>1. OpenType(c) /\ OpenType(e)
  BY <1>0 DEF OpenType, Fields
<1>2. /\ c.m = r.m /\ c.gate = r.gate /\ c.tun = r.tun /\ c.notify = r.notify /\ c.posts = r.posts
      /\ c.phase = r.phase /\ c.byPeer = TRUE /\ c.at = r.at /\ c.out = r.out
  BY <1>0 DEF OpenType, Fields
<1>3. /\ e.m = r.m /\ e.gate = r.gate /\ e.tun = r.tun /\ e.notify = r.notify /\ e.posts = r.posts
      /\ e.phase = r.phase /\ e.byPeer = TRUE /\ e.at = r.at /\ e.out = r.out
  BY <1>0 DEF OpenType, Fields
<1>4. UNCHANGED <<reg, wire>> /\ (Set(o, c) \/ Set(o, Terminate(c, "Closed")) \/ Set(o, Terminate(e, "Error")))
  BY DEF handle_tunnel_close_frame, handle_tunnel_error_frame
<1> HIDE DEF c, e
<1>5. CASE Set(o, c)
  <2>1. Spoken(r, c, {}, Owns(o), Owns(o))
    BY <1>2 DEF Spoken, Unheard, Promised
  <2> QED BY <1>2, <1>4, <1>5, <2>1, Hushed
<1>6. CASE Set(o, Terminate(c, "Closed"))
  <2> DEFINE s == Terminate(c, "Closed")
  <2>1. Kept(c, s) /\ (c.notify /= "no" => s.notify /= "no") /\ s.tun \in Terminal
    BY <1>0, <1>1, TerminateFacts
  <2> HIDE DEF s
  <2>2. s.m = r.m /\ Spoken(r, s, {}, Owns(o), Owns(o))
    BY <1>2, <2>1 DEF Spoken, Kept, Unheard, Promised
  <2> QED BY <1>4, <1>6, <2>2, Hushed DEF s
<1>7. CASE Set(o, Terminate(e, "Error"))
  <2> DEFINE s == Terminate(e, "Error")
  <2>1. Kept(e, s) /\ (e.notify /= "no" => s.notify /= "no") /\ s.tun \in Terminal
    BY <1>0, <1>1, TerminateFacts
  <2> HIDE DEF s
  <2>2. s.m = r.m /\ Spoken(r, s, {}, Owns(o), Owns(o))
    BY <1>3, <2>1 DEF Spoken, Kept, Unheard, Promised
  <2> QED BY <1>4, <1>7, <2>2, Hushed DEF s
<1> QED BY <1>4, <1>5, <1>6, <1>7

\* Every step of an OPEN's own threads.
LEMMA OpenSpeaks ==
  ASSUME wire \in Seq(WireRecord), NEW o \in Opens, OpenInv(op[o], Owns(o)), Speech(o),
         OpenSteps(o) \/ OpenEvents(o)
  PROVE  Speaks(o)
<1>1. CASE \E good \in BOOLEAN : ResolveEnds(o, good) \/ ConnectEnds(o, good)
  BY <1>1, ResolveSpeaks, ConnectSpeaks
<1>2. CASE WireStarts(o) \/ WireLapsed(o) \/ InstallHooks(o) \/ Recheck(o)
  BY <1>2, WireHushed, RecheckSpeaks
<1>3. CASE \E timer \in BOOLEAN : Attempt(o, timer)
  BY <1>3, AttemptSpeaks
<1>4. CASE \E out \in {"Sent", "SendqFull", "PermanentFail"} : SendAck(o, out)
  BY <1>4, SendSpeaks
<1>5. CASE Verdict(o) \/ CommitOwned(o) \/ CommitClaim(o) \/ CommitVerify(o)
  BY <1>5, VerdictSpeaks, CommitSpeaks
<1>6. CASE CommitPublish(o) \/ CommitCount(o) \/ Settle(o)
  BY <1>6, PublishSpeaks
<1>7. CASE CommitAbort(o) \/ abandon_open_ack(o)
  BY <1>7, AbortSpeaks
<1>8. CASE CloseRuns(o) \/ NotifyClose(o)
  BY <1>8, CloseSpeaks, NotifySpeaks
<1>9. CASE RemoveRuns(o)
  BY <1>9, RemoveSpeaks DEF RemoveRuns, Speech
<1>10. CASE ShutRuns(o) \/ \E abnormal \in BOOLEAN : TargetDies(o, abnormal)
  BY <1>10, SocketSpeaks DEF ShutRuns, TargetDies
<1>11. CASE on_tcp_read_eof(o)
  BY <1>11, EofSpeaks
<1> QED
  BY <1>1, <1>2, <1>3, <1>4, <1>5, <1>6, <1>7, <1>8, <1>9, <1>10, <1>11 DEF OpenSteps, OpenEvents

----------------------------------------------------------------------------
(* The wire after a step of one OPEN. *)

\* A step of one OPEN: the registration of every OPEN afterwards.
LEMMA OwnsAfter ==
  ASSUME Table, NEW o \in Opens, NEW s, op' = [op EXCEPT ![o] = s], s.m = op[o].m, UNCHANGED man,
         reg' = reg \/ Unregister(o)
  PROVE  /\ op'[o] = s /\ \A p \in Opens \ {o} : op'[p] = op[p] /\ Owns(p)' = Owns(p)
         /\ reg' = reg => Owns(o)' = Owns(o)
         /\ Unregister(o) => Owns(o)' = FALSE
<1>1. op'[o] = s /\ \A p \in Opens \ {o} : op'[p] = op[p]
  BY DEF Table
<1>2. \A g \in Managers, p \in Opens \ {o} : p \in reg'[g] <=> p \in reg[g]
  <2>1. CASE reg' = reg
    BY <2>1 DEF Table
  <2>2. CASE op[o].m \in Managers /\ reg' = [reg EXCEPT ![op[o].m] = @ \ {o}]
    BY <2>2 DEF Table
  <2> QED BY <2>1, <2>2 DEF Unregister, Owns, Alive
<1>3. \A p \in Opens \ {o} : Owns(p)' = Owns(p)
  BY <1>1, <1>2 DEF Owns, Alive
<1>4. reg' = reg => Owns(o)' = Owns(o)
  BY <1>1 DEF Owns, Alive
<1>5. Unregister(o) => Owns(o)' = FALSE
  BY <1>1 DEF Owns, Alive, Unregister, Table
<1> QED BY <1>1, <1>3, <1>4, <1>5

\* Whoever misses a word has lost the link, or is about to.
LEMMA MissedIsCut ==
  ASSUME LinkInv, NEW o \in Opens, ~(Alive(o) /\ up), op[o].m \in Managers
  PROVE  Cut(op[o].m)
BY DEF LinkInv, BrokenLink, Alive, Cut, CurrentMgr

\* What a step of one OPEN says keeps the account of what was said.
LEMMA SpeaksKeeps ==
  ASSUME Table, LinkInv, WireInv, NEW o \in Opens, OpenInv(op[o], Owns(o)), Speaks(o),
         UNCHANGED <<man, up, lane>>, op'[o].gate = "none" => op[o].gate = "none"
  PROVE  WireInv'
<1>1. PICK K \in SUBSET Words : \E s :
         /\ op' = [op EXCEPT ![o] = s] /\ s.m = op[o].m
         /\ Said(o, K, Alive(o) /\ up) /\ ("ACK" \in K => Alive(o) /\ up)
         /\ \/ reg' = reg /\ Spoken(op[o], s, K, Owns(o), Owns(o))
            \/ Unregister(o) /\ Spoken(op[o], s, K, Owns(o), FALSE)
  BY Zenon DEF Speaks
<1>2. PICK s :
         /\ op' = [op EXCEPT ![o] = s] /\ s.m = op[o].m
         /\ Said(o, K, Alive(o) /\ up) /\ ("ACK" \in K => Alive(o) /\ up)
         /\ \/ reg' = reg /\ Spoken(op[o], s, K, Owns(o), Owns(o))
            \/ Unregister(o) /\ Spoken(op[o], s, K, Owns(o), FALSE)
  BY <1>1, Zenon
<1> DEFINE r == op[o]
<1>3. /\ op'[o] = s /\ \A p \in Opens \ {o} : op'[p] = op[p] /\ Owns(p)' = Owns(p)
      /\ reg' = reg => Owns(o)' = Owns(o)
      /\ Unregister(o) => Owns(o)' = FALSE
  BY <1>2, OwnsAfter
<1>4. Owns(o)' \in BOOLEAN /\ Owns(o) \in BOOLEAN
  BY OwnsBool DEF Owns, Alive
<1>5. Spoken(r, s, K, Owns(o), Owns(o)') /\ (Owns(o)' => Owns(o))
  BY <1>2, <1>3, <1>4
<1>6. wire \in Seq(WireRecord) /\ InOrder /\ \A p \in Opens : Speech(p)
  BY DEF WireInv, WireRecord, InOrder
<1>7. r.at = "sending" => Unheard(r) /\ r.gate /= "none"
  BY DEF OpenInv, Stage, Unheard
<1>8. "ACK" \in K => \A k \in Words : ~Told(o, k)
  BY <1>5, <1>6, <1>7 DEF Spoken, Speech
<1>9. /\ \A p \in Opens \ {o}, k \in Words : Told(p, k)' = Told(p, k)
      /\ \A k \in Words : Told(o, k) => Told(o, k)'
      /\ \A k \in Words : Told(o, k)' => Told(o, k) \/ k \in K
      /\ \A k \in K : Alive(o) /\ up => Told(o, k)'
      /\ InOrder'
  BY <1>2, <1>6, <1>8, SaidTold
<1>10. "ACK" \in Words /\ "ERROR" \in Words /\ "CLOSE" \in Words
  BY DEF Words
<1>11. \A g : Cut(g)' = Cut(g)
  BY DEF Cut, DownPosted, DownBehind
<1>12. \A p \in Opens \ {o} : Speech(p)'
  <2> SUFFICES ASSUME NEW p \in Opens \ {o} PROVE Speech(p)'
    OBVIOUS
  <2>1. op'[p] = op[p] /\ Owns(p)' = Owns(p) /\ \A k \in Words : Told(p, k)' = Told(p, k)
    BY <1>3, <1>9
  <2>2. Speech(p)
    BY <1>6
  <2>3. Heard(p) => Heard(p)'
    BY <1>10, <1>11, <2>1 DEF Heard
  <2> QED BY <1>10, <2>1, <2>2, <2>3 DEF Speech
<1>13. Speech(o)
  BY <1>6
<1>14. Heard(o) => Heard(o)'
  BY <1>2, <1>3, <1>5, <1>9, <1>10, <1>11 DEF Heard, Spoken
<1>15. "ERROR" \in K \/ "CLOSE" \in K => Heard(o)'
  BY <1>2, <1>3, <1>9, <1>11, MissedIsCut DEF Heard
<1>16. s.byPeer = TRUE => Heard(o)'
  BY <1>3 DEF Heard
<1>17. s.notify /= "no" \/ (~Owns(o)' /\ s.phase /= "None") => Heard(o)'
  <2>1. CASE r.notify /= "no" \/ (~Owns(o) /\ r.phase /= "None")
    BY <1>13, <1>14, <2>1 DEF Speech
  <2>2. CASE r.notify = "no" /\ (Owns(o) \/ r.phase = "None")
    BY <1>4, <1>5, <1>15, <1>16, <2>2 DEF Spoken
  <2> QED BY <2>1, <2>2
<1>18. Told(o, "ACK")' => s.gate /= "none"
  BY <1>3, <1>5, <1>7, <1>9, <1>10, <1>13 DEF Speech, Spoken
<1>19. Unheard(s) => \A k \in Words : ~Told(o, k)'
  BY <1>5, <1>9, <1>13 DEF Speech, Spoken
<1>20. Promised(s) => Told(o, "ACK")'
  BY <1>2, <1>5, <1>9, <1>10, <1>13 DEF Speech, Spoken
<1>21. Told(o, "ERROR")' => s.tun \in Terminal \/ ~Owns(o)'
  BY <1>5, <1>9, <1>10, <1>13 DEF Speech, Spoken
<1>22. "remove" \in s.posts => s.notify /= "no"
  BY <1>5, <1>13 DEF Speech, Spoken
<1>23. Speech(o)'
  BY <1>3, <1>17, <1>18, <1>19, <1>20, <1>21, <1>22 DEF Speech
<1>24. wire' \in Seq(WireRecord)
  BY <1>2 DEF Said
<1> QED BY <1>9, <1>12, <1>23, <1>24 DEF WireInv, InOrder, WireRecord

----------------------------------------------------------------------------
(* The strand's queue, and the managers that lost the friend. *)

\* A teardown on its way, when the strand takes an entry or one is posted.
LEMMA TakenDown ==
  ASSUME lane \in Seq(Message), lane /= <<>>, lane' = Tail(lane)
  PROVE  /\ \A i \in Nat : DownBehind(i)' <=> DownBehind(i + 1)
         /\ DownPosted' <=> DownBehind(1)
         /\ DownPosted /\ Head(lane) /= Task("down") => DownPosted'
         /\ \A i \in 1 .. Len(lane') : i + 1 \in 1 .. Len(lane) /\ lane'[i] = lane[i + 1]
         /\ 1 \in 1 .. Len(lane) /\ lane[1] = Head(lane) /\ Head(lane) \in Message
<1>1. /\ Len(lane) \in Nat \ {0} /\ Len(lane') = Len(lane) - 1 /\ Len(lane') \in Nat
      /\ \A i \in 1 .. Len(lane') : lane'[i] = lane[i + 1]
      /\ lane[1] = Head(lane) /\ Head(lane) \in Message
  OBVIOUS
<1>2. \A i \in Nat : DownBehind(i)' <=> DownBehind(i + 1)
  <2> SUFFICES ASSUME NEW i \in Nat PROVE DownBehind(i)' <=> DownBehind(i + 1)
    OBVIOUS
  <2>1. ASSUME NEW j \in i + 1 .. Len(lane'), lane'[j] = Task("down") PROVE DownBehind(i + 1)
    <3>1. j + 1 \in (i + 1) + 1 .. Len(lane) /\ lane[j + 1] = Task("down")
      BY <1>1, <2>1
    <3> QED BY <3>1 DEF DownBehind
  <2>2. ASSUME NEW j \in (i + 1) + 1 .. Len(lane), lane[j] = Task("down") PROVE DownBehind(i)'
    <3>1. j - 1 \in i + 1 .. Len(lane') /\ lane'[j - 1] = lane[(j - 1) + 1] /\ (j - 1) + 1 = j
      BY <1>1, <2>2
    <3>2. lane'[j - 1] = Task("down")
      BY <2>2, <3>1
    <3>3. Task("down")' = Task("down")
      BY DEF Task
    <3> QED BY <3>1, <3>2, <3>3 DEF DownBehind
  <2>3. Task("down")' = Task("down")
    BY DEF Task
  <2> QED BY <2>1, <2>2, <2>3 DEF DownBehind
<1>3. DownPosted' <=> DownBehind(1)
  BY <1>2 DEF DownPosted
<1>4. ASSUME DownPosted, Head(lane) /= Task("down") PROVE DownBehind(1)
  <2>1. PICK j \in 0 + 1 .. Len(lane) : lane[j] = Task("down")
    BY <1>4 DEF DownPosted, DownBehind
  <2>2. j \in 1 + 1 .. Len(lane)
    BY <1>1, <1>4, <2>1
  <2> QED BY <2>1, <2>2 DEF DownBehind
<1> QED BY <1>1, <1>2, <1>3, <1>4

\* Posting takes nothing away.
LEMMA PostedDown ==
  ASSUME lane \in Seq(Message), NEW t \in Message, Post(t)
  PROVE  /\ \A i \in Nat : DownBehind(i) => DownBehind(i)'
         /\ DownPosted => DownPosted'
         /\ t = Task("down") => \A i \in 0 .. Len(lane) : DownBehind(i)'
         /\ Len(lane) \in Nat /\ Len(lane') = Len(lane) + 1 /\ lane'[Len(lane) + 1] = t
         /\ \A i \in 1 .. Len(lane) : lane'[i] = lane[i]
         /\ lane' \in Seq(Message)
<1>1. /\ Len(lane) \in Nat /\ Len(lane') = Len(lane) + 1 /\ lane'[Len(lane) + 1] = t
      /\ \A i \in 1 .. Len(lane) : lane'[i] = lane[i]
      /\ lane' \in Seq(Message)
  BY AppendProperties DEF Post
<1>2. \A i \in Nat : DownBehind(i) => DownBehind(i)'
  <2> SUFFICES ASSUME NEW i \in Nat, NEW j \in i + 1 .. Len(lane), lane[j] = Task("down")
               PROVE  DownBehind(i)'
    BY DEF DownBehind
  <2>1. j \in i + 1 .. Len(lane') /\ lane'[j] = Task("down")
    BY <1>1
  <2>2. Task("down")' = Task("down")
    BY DEF Task
  <2> QED BY <2>1, <2>2 DEF DownBehind
<1>3. DownPosted => DownPosted'
  BY <1>2 DEF DownPosted
<1>4. ASSUME t = Task("down"), NEW i \in 0 .. Len(lane) PROVE DownBehind(i)'
  <2>1. Len(lane) + 1 \in i + 1 .. Len(lane') /\ lane'[Len(lane) + 1] = Task("down")
    BY <1>1, <1>4
  <2>2. Task("down")' = Task("down")
    BY DEF Task
  <2> QED BY <2>1, <2>2 DEF DownBehind
<1> QED BY <1>1, <1>2, <1>3, <1>4

\* A manager that lost the friend does not get it back as if nothing was.
CutStays == \A g \in Managers : man[g].st /= "unused" /\ Cut(g) => Cut(g)'

\* Steps of the friend: tunnels stay as they are, or are closed with a manager
\* that is lost.
LEMMA SpeechStays ==
  ASSUME Table, WireInv, OpensGood, wire' = wire, CutStays,
         \A o \in Opens : \/ op'[o] = op[o] /\ Owns(o)' = Owns(o)
                          \/ /\ op'[o] = ForceClose(op[o]) /\ Owns(o)' = FALSE
                             /\ op[o].m \in Managers => Cut(op[o].m)'
  PROVE  WireInv'
<1> SUFFICES ASSUME NEW o \in Opens PROVE Speech(o)'
  BY DEF WireInv
<1>0. Speech(o) /\ OpenType(op[o]) /\ \A k : Told(o, k)' = Told(o, k)
  BY DEF WireInv, OpensGood, OpenInv, Told
<1>1. CASE op'[o] = op[o] /\ Owns(o)' = Owns(o)
  <2>1. Heard(o) => Heard(o)'
    BY <1>0, <1>1 DEF Heard, CutStays, Table
  <2> QED BY <1>0, <1>1, <2>1 DEF Speech
<1>2. CASE op'[o] = ForceClose(op[o]) /\ Owns(o)' = FALSE /\ (op[o].m \in Managers => Cut(op[o].m)')
  <2> DEFINE s == ForceClose(op[o])
  <2>1. Kept(op[o], s) /\ s.tun \in Terminal
        /\ s.notify = (IF op[o].tun \in Terminal \/ op[o].notify /= "no" THEN op[o].notify ELSE "due")
    BY <1>0, ForceCloseFacts
  <2>2. op'[o] = s
    BY <1>2
  <2> HIDE DEF s
  <2>3. op'[o].m = op[o].m
    BY <2>1, <2>2 DEF Kept
  <2>4. Heard(o)'
    BY <1>2, <2>3 DEF Heard
  <2>5. (Unheard(s) <=> Unheard(op[o])) /\ (Promised(s) <=> Promised(op[o]))
    BY <2>1, KeptHeard
  <2>6. "remove" \in s.posts => s.notify /= "no"
    BY <1>0, <2>1 DEF Speech, Kept
  <2>7. Told(o, "ACK") => s.gate /= "none"
    BY <1>0, <2>1 DEF Speech, Kept
  <2> QED BY <1>0, <1>2, <2>1, <2>2, <2>4, <2>5, <2>6, <2>7 DEF Speech
<1> QED BY <1>1, <1>2

SameHomes == \A o \in Opens : op'[o].m = op[o].m
SameClient == cl'.o = cl.o /\ cl'.resume = cl.resume

\* An OPEN whose manager lost the friend stays so.
LEMMA HomesStayCut ==
  ASSUME Table, CutStays, NEW o \in Opens, op'[o].m = op[o].m, HomeCut(o)
  PROVE  HomeCut(o)'
BY DEF HomeCut, CutStays, Table

\* An entry of the strand's queue after its head is gone.
LEMMA TakenEntry ==
  ASSUME lane \in Seq(Message), lane /= <<>>, lane' = Tail(lane), NEW i \in 1 .. Len(lane')
  PROVE  /\ i + 1 \in 1 .. Len(lane) /\ lane'[i] = lane[i + 1]
         /\ DownBehind(i + 1) => DownBehind(i)'
<1>1. i \in Nat
  OBVIOUS
<1> QED BY <1>1, TakenDown

\* Taking an entry makes no tunnel a resumed one.
LEMMA TakenResuming ==
  ASSUME lane \in Seq(Message), lane /= <<>>, lane' = Tail(lane), UNCHANGED up, SameClient,
         Undispatched' \subseteq Undispatched \cup {Head(lane)}, NEW o \in Opens, Resuming(o)'
  PROVE  Resuming(o)
<1>0. 1 \in 1 .. Len(lane) /\ lane[1] = Head(lane)
  BY TakenDown
<1>1. CASE cl'.o = o /\ (~up' \/ cl'.resume)
  BY <1>1 DEF Resuming, SameClient
<1>2. CASE Dispatched("RESUME", o)'
  BY <1>0, <1>2 DEF Resuming, Dispatched
<1>3. CASE \E i \in 1 .. Len(lane') : lane'[i].kind = "RESUME" /\ lane'[i].o = o
  BY <1>3, TakenEntry DEF Resuming
<1> QED BY <1>1, <1>2, <1>3 DEF Resuming

\* The strand takes an entry that is no teardown.
LEMMA TakenKeeps ==
  ASSUME LaneInv, BrokenLink, ResumeInv, Table, lane /= <<>>, lane' = Tail(lane),
         Head(lane) /= Task("down"), Undispatched' \subseteq Undispatched \cup {Head(lane)},
         UNCHANGED up, SameClient, SameHomes, CutStays,
         CurrentMgr' /= {} => CurrentMgr /= {} \/ Head(lane).kind = "up"
  PROVE  BrokenLink' /\ ResumeInv'
<1>0. /\ DownBehind(1) => DownPosted' 
      /\ DownPosted => DownPosted'
      /\ 1 \in 1 .. Len(lane) /\ lane[1] = Head(lane) /\ lane \in Seq(Message)
  BY TakenDown DEF LaneInv
<1>1. BrokenLink'
  <2> SUFFICES ASSUME ~up
               PROVE  /\ \A i \in 1 .. Len(lane') : lane'[i].kind \in {"up", "OPEN"} => DownBehind(i)'
                      /\ CurrentMgr' /= {} \/ (\E f \in Undispatched' : f.kind = "OPEN") => DownPosted'
    BY DEF BrokenLink
  <2>1. ASSUME NEW i \in 1 .. Len(lane'), lane'[i].kind \in {"up", "OPEN"} PROVE DownBehind(i)'
    BY <1>0, <2>1, TakenEntry DEF BrokenLink
  <2>2. Head(lane).kind \in {"up", "OPEN"} => DownPosted'
    BY <1>0 DEF BrokenLink
  <2>3. CurrentMgr' /= {} => DownPosted'
    BY <1>0, <2>2 DEF BrokenLink
  <2>4. (\E f \in Undispatched' : f.kind = "OPEN") => DownPosted'
    BY <1>0, <2>2 DEF BrokenLink
  <2> QED BY <2>1, <2>3, <2>4
<1>2. ASSUME NEW o \in Opens, Resuming(o)' PROVE Stale(o)'
  <2>1. Stale(o)
    BY <1>0, <1>2, TakenResuming DEF ResumeInv
  <2>2. ASSUME NEW i \in 1 .. Len(lane'), lane'[i].kind = "OPEN", lane'[i].o = o PROVE DownBehind(i)'
    BY <1>0, <2>1, <2>2, TakenEntry DEF Stale
  <2>3. Dispatched("OPEN", o)' => DownPosted'
    BY <1>0, <2>1 DEF Stale, Dispatched
  <2>4. HomeCut(o)'
    BY <2>1, HomesStayCut DEF Stale, SameHomes
  <2> QED BY <2>2, <2>3, <2>4 DEF Stale
<1> QED BY <1>1, <1>2 DEF ResumeInv

\* The teardown of a broken link runs.
LEMMA TeardownKeeps ==
  ASSUME LaneInv, BrokenLink, ResumeInv, lane /= <<>>, lane' = Tail(lane),
         Undispatched' = {}, CurrentMgr' = {}, UNCHANGED up, SameClient, SameHomes
  PROVE  BrokenLink' /\ ResumeInv'
<1>0. lane \in Seq(Message)
  BY DEF LaneInv
<1>1. BrokenLink'
  <2> SUFFICES ASSUME ~up, NEW i \in 1 .. Len(lane'), lane'[i].kind \in {"up", "OPEN"}
               PROVE  DownBehind(i)'
    BY DEF BrokenLink
  <2> QED BY <1>0, TakenEntry DEF BrokenLink
<1>2. ASSUME NEW o \in Opens, Resuming(o)' PROVE Stale(o)'
  <2>1. Stale(o)
    BY <1>0, <1>2, TakenResuming DEF ResumeInv
  <2>2. ASSUME NEW i \in 1 .. Len(lane'), lane'[i].kind = "OPEN", lane'[i].o = o PROVE DownBehind(i)'
    BY <1>0, <2>1, <2>2, TakenEntry DEF Stale
  <2>3. ~Dispatched("OPEN", o)'
    BY DEF Dispatched
  <2>4. HomeCut(o)'
    BY DEF HomeCut, Cut, CurrentMgr
  <2> QED BY <2>2, <2>3, <2>4 DEF Stale
<1> QED BY <1>1, <1>2 DEF ResumeInv

\* A frame is dispatched; an OPEN may give its record a manager.
LEMMA DispatchKeeps ==
  ASSUME Table, BrokenLink, ResumeInv, UNCHANGED <<lane, up>>, Undispatched' \subseteq Undispatched,
         CutStays,
         CurrentMgr' /= {} => CurrentMgr /= {} \/ \E f \in Undispatched : f.kind = "OPEN",
         cl'.o \in {cl.o, NoOpen}, cl'.resume = cl.resume,
         \A o \in Opens : op'[o].m = op[o].m \/ Dispatched("OPEN", o)
  PROVE  BrokenLink' /\ ResumeInv'
<1>0. (\A i : DownBehind(i)' = DownBehind(i)) /\ DownPosted' = DownPosted
  BY DEF DownBehind, DownPosted, Task
<1>1. BrokenLink'
  BY <1>0 DEF BrokenLink
<1>2. ASSUME NEW o \in Opens, Resuming(o)' PROVE Stale(o)'
  <2>1. Resuming(o)
    BY <1>2, OpenAssumption DEF Resuming, Dispatched
  <2>2. Stale(o)
    BY <2>1 DEF ResumeInv
  <2>3. HomeCut(o)'
    <3>1. CASE op'[o].m = op[o].m
      BY <2>2, <3>1, HomesStayCut DEF Stale
    <3>2. CASE Dispatched("OPEN", o)
      BY <1>0, <2>2, <3>2 DEF Stale, HomeCut, Cut
    <3> QED BY <3>1, <3>2
  <2> QED BY <1>0, <2>2, <2>3 DEF Stale, Dispatched
<1> QED BY <1>1, <1>2 DEF ResumeInv

\* The managers stay what they are, except for the keepalive's opinion of them.
SameMen ==
  /\ man' \in [Managers -> ManRecord]
  /\ \A g \in Managers : man'[g].st = man[g].st /\ man'[g].hold = man[g].hold

\* What that leaves alone.
LEMMA SameMenFacts ==
  ASSUME SameMen
  PROVE  /\ ManStep /\ CurrentMgr' = CurrentMgr /\ (OneManager => OneManager')
         /\ (DownPosted => DownPosted') => CutStays
<1>1. ManStep /\ CurrentMgr' = CurrentMgr /\ (OneManager => OneManager')
  BY DEF SameMen, ManStep, CurrentMgr, OneManager
<1>2. (DownPosted => DownPosted') => CutStays
  BY DEF SameMen, CutStays, Cut
<1> QED BY <1>1, <1>2

\* What was posted before an entry is still there behind it.
LEMMA PostedKeeps ==
  ASSUME LaneInv, BrokenLink, ResumeInv, Table, NEW t \in Message, Post(t),
         Undispatched' = Undispatched, SameHomes, CutStays, CurrentMgr' = CurrentMgr,
         t = Task("down") \/ (~up' => ~up /\ t.kind \notin {"up", "OPEN"}),
         t = Task("down") \/ \A o \in Opens : Resuming(o)' => Resuming(o) /\ ~(t.kind = "OPEN" /\ t.o = o)
  PROVE  BrokenLink' /\ ResumeInv'
<1>0. /\ \A i \in Nat : DownBehind(i) => DownBehind(i)'
      /\ DownPosted => DownPosted'
      /\ t = Task("down") => \A i \in 0 .. Len(lane) : DownBehind(i)'
      /\ Len(lane) \in Nat /\ Len(lane') = Len(lane) + 1 /\ lane'[Len(lane) + 1] = t
      /\ \A i \in 1 .. Len(lane) : lane'[i] = lane[i]
  BY PostedDown DEF LaneInv
<1>1. CASE t = Task("down")
  <2>1. DownPosted'
    BY <1>0, <1>1 DEF DownPosted
  <2>2. ASSUME NEW i \in 1 .. Len(lane'), lane'[i].kind \in {"up", "OPEN"} PROVE DownBehind(i)'
    <3>1. CASE i = Len(lane) + 1
      BY <1>0, <1>1, <2>2, <3>1 DEF Task
    <3>2. CASE i /= Len(lane) + 1
      <4>1. i \in 0 .. Len(lane)
        BY <1>0, <3>2
      <4> QED BY <1>0, <1>1, <4>1
    <3> QED BY <3>1, <3>2
  <2>3. BrokenLink'
    BY <2>1, <2>2 DEF BrokenLink
  <2>4. \A o \in Opens : HomeCut(o)'
    BY <2>1 DEF HomeCut, Cut
  <2> QED BY <2>1, <2>2, <2>3, <2>4 DEF ResumeInv, Stale
<1>2. CASE t /= Task("down")
  <2>1. ASSUME ~up', NEW i \in 1 .. Len(lane'), lane'[i].kind \in {"up", "OPEN"} PROVE DownBehind(i)'
    <3>1. i \in 1 .. Len(lane) /\ i \in Nat
      BY <1>0, <1>2, <2>1
    <3> QED BY <1>0, <1>2, <2>1, <3>1 DEF BrokenLink
  <2>2. BrokenLink'
    BY <1>0, <1>2, <2>1 DEF BrokenLink
  <2>3. ASSUME NEW o \in Opens, Resuming(o)' PROVE Stale(o)'
    <3>1. Stale(o) /\ ~(t.kind = "OPEN" /\ t.o = o)
      BY <1>2, <2>3 DEF ResumeInv
    <3>2. ASSUME NEW i \in 1 .. Len(lane'), lane'[i].kind = "OPEN", lane'[i].o = o PROVE DownBehind(i)'
      <4>1. i \in 1 .. Len(lane) /\ i \in Nat
        BY <1>0, <3>1, <3>2
      <4> QED BY <1>0, <3>1, <3>2, <4>1 DEF Stale
    <3>3. HomeCut(o)'
      BY <3>1, HomesStayCut DEF Stale, SameHomes
    <3>4. Dispatched("OPEN", o)' => DownPosted'
      BY <1>0, <3>1 DEF Stale, Dispatched
    <3> QED BY <3>2, <3>3, <3>4 DEF Stale
  <2> QED BY <2>2, <2>3 DEF ResumeInv
<1> QED BY <1>1, <1>2

\* The types, when something is posted.
LEMMA PostedLane ==
  ASSUME LaneInv, NEW t \in Message, Post(t), UNCHANGED <<due, slot>>,
         holds' \in HoldRecord, cl' \in ClientRecord, holds.expired \subseteq holds'.expired,
         t.kind = "prune" => t.n \in holds'.expired
  PROVE  LaneInv'
<1>1. /\ Len(lane) \in Nat /\ Len(lane') = Len(lane) + 1 /\ lane'[Len(lane) + 1] = t
      /\ \A i \in 1 .. Len(lane) : lane'[i] = lane[i]
      /\ lane' \in Seq(Message)
  BY PostedDown DEF LaneInv
<1>2. ASSUME NEW i \in 1 .. Len(lane'), lane'[i].kind = "prune" PROVE lane'[i].n \in holds'.expired
  <2>1. CASE i = Len(lane) + 1
    BY <1>1, <1>2, <2>1
  <2>2. CASE i /= Len(lane) + 1
    <3>1. i \in 1 .. Len(lane)
      BY <1>1, <2>2
    <3> QED BY <1>1, <1>2, <3>1 DEF LaneInv
  <2> QED BY <2>1, <2>2
<1> QED BY <1>1, <1>2 DEF LaneInv

\* A step that only posts: the tunnels stay as they are.
LEMMA PostedStep ==
  ASSUME ServerInv, NEW t \in Message, Post(t), UNCHANGED <<openVars, due, slot>>, SameMen, LaneInv',
         t = Task("down") \/ (~up' => ~up /\ t.kind \notin {"up", "OPEN"}),
         t = Task("down") \/ \A o \in Opens : Resuming(o)' => Resuming(o) /\ ~(t.kind = "OPEN" /\ t.o = o)
  PROVE  ServerInv'
<1>1. Table /\ LaneInv /\ OpensGood /\ OneManager /\ BrokenLink /\ ResumeInv /\ WireInv
  BY DEF ServerInv, OpensInv, OpensGood, LinkInv
<1>2. UNCHANGED <<op, reg, wire>>
  BY DEF openVars
<1>3. DownPosted => DownPosted'
  BY <1>1, PostedDown DEF LaneInv
<1>4. ManStep /\ CurrentMgr' = CurrentMgr /\ OneManager' /\ CutStays
  BY <1>1, <1>3, SameMenFacts
<1>5. Table' /\ OpensGood' /\ \A o \in Opens : Owns(o)' = Owns(o)
  BY <1>1, <1>2, <1>4, ManStepKeeps
<1>6. Undispatched' = Undispatched /\ SameHomes
  BY <1>2 DEF Undispatched, SameHomes
<1>7. BrokenLink' /\ ResumeInv'
  BY <1>1, <1>4, <1>6, PostedKeeps
<1>8. WireInv'
  BY <1>1, <1>2, <1>4, <1>5, SpeechStays
<1> QED BY <1>4, <1>5, <1>7, <1>8 DEF ServerInv, OpensInv, OpensGood, LinkInv

----------------------------------------------------------------------------
(* Timers, link and client. *)

\* The frames of two queues are in their concatenation.
LEMMA JoinedSet ==
  ASSUME NEW S, NEW a \in Seq(S), NEW b \in Seq(S) PROVE ToSet(a) \cup ToSet(b) \subseteq ToSet(a \o b)
<1>1. ASSUME NEW i \in DOMAIN a PROVE a[i] \in ToSet(a \o b)
  <2>1. i \in DOMAIN (a \o b) /\ (a \o b)[i] = a[i]
    OBVIOUS
  <2> QED BY <2>1, Zenon DEF ToSet
<1>2. ASSUME NEW i \in DOMAIN b PROVE b[i] \in ToSet(a \o b)
  <2>1. Len(a) + i \in DOMAIN (a \o b) /\ (a \o b)[Len(a) + i] = b[i]
    OBVIOUS
  <2> QED BY <2>1, Zenon DEF ToSet
<1> QED BY <1>1, <1>2 DEF ToSet

\* The same for three.
LEMMA Gathered ==
  ASSUME NEW S, NEW a \in Seq(S), NEW b \in Seq(S), NEW c \in Seq(S)
  PROVE  ToSet(a) \subseteq ToSet(a \o b \o c) /\ ToSet(b) \cup ToSet(c) \subseteq ToSet(a \o b \o c)
<1>1. a \o b \in Seq(S)
  OBVIOUS
<1> QED BY <1>1, JoinedSet

\* Posting makes a tunnel a resumed one only by a RESUME or the link.
LEMMA PostedResuming ==
  ASSUME lane \in Seq(Message), NEW t \in Message, Post(t), UNCHANGED <<due, slot>>,
         NEW o \in Opens, Resuming(o)',
         cl'.o = o /\ (~up' \/ cl'.resume) => Resuming(o),
         t.kind = "RESUME" /\ t.o = o => Resuming(o)
  PROVE  Resuming(o)
<1>0. /\ Len(lane) \in Nat /\ Len(lane') = Len(lane) + 1 /\ lane'[Len(lane) + 1] = t
      /\ \A i \in 1 .. Len(lane) : lane'[i] = lane[i]
  BY PostedDown
<1>1. CASE Dispatched("RESUME", o)'
  BY <1>1 DEF Resuming, Dispatched, Undispatched
<1>2. ASSUME NEW i \in 1 .. Len(lane'), lane'[i].kind = "RESUME", lane'[i].o = o PROVE Resuming(o)
  <2>1. CASE i = Len(lane) + 1
    BY <1>0, <1>2, <2>1
  <2>2. CASE i /= Len(lane) + 1
    <3>1. i \in 1 .. Len(lane)
      BY <1>0, <2>2
    <3> QED BY <1>0, <1>2, <3>1 DEF Resuming
  <2> QED BY <2>1, <2>2
<1> QED BY <1>1, <1>2 DEF Resuming

\* A timer posts its handler's work: a throttle retry, a verdict, a prune.
LEMMA TimerPosts ==
  ASSUME ServerInv, NEW t \in Message, t.kind \in {"retry", "verdict", "prune", "PING"}, Post(t),
         UNCHANGED <<openVars, due, slot, cl, up>>, SameMen,
         holds' \in HoldRecord, holds.expired \subseteq holds'.expired,
         t.kind = "prune" => t.n \in holds'.expired
  PROVE  ServerInv'
<1>1. LaneInv
  BY DEF ServerInv, OpensInv
<1>2. LaneInv'
  BY <1>1, PostedLane DEF LaneInv
<1>3. ASSUME NEW o \in Opens, Resuming(o)' PROVE Resuming(o)
  BY <1>1, <1>3, PostedResuming DEF Resuming, LaneInv
<1> QED BY <1>2, <1>3, PostedStep

\* In particular when nothing happens to the managers.
LEMMA UnchangedMen == ASSUME Table, UNCHANGED man PROVE SameMen
BY DEF Table, SameMen

\* The throttle's timer fires.
LEMMA RetryKeeps == ASSUME ServerInv, RetryFires PROVE ServerInv'
<1>1. Task("retry") \in Message /\ Task("retry").kind = "retry"
  BY OpenAssumption DEF Task, Message, Kinds
<1>2. SameMen /\ holds \in HoldRecord
  BY UnchangedMen DEF RetryFires, ServerInv, OpensInv, LaneInv
<1> QED BY <1>1, <1>2, TimerPosts DEF RetryFires

\* The keepalive gives the friend up.
LEMMA VerdictKeeps ==
  ASSUME ServerInv, NEW g \in Managers, KeepaliveVerdict(g) PROVE ServerInv'
<1> DEFINE t == [kind |-> "verdict", o |-> NoOpen, n |-> g]
<1>1. t \in Message /\ t.kind = "verdict"
  BY OpenAssumption DEF Message, Kinds
<1>2. SameMen
  <2>1. man \in [Managers -> ManRecord] /\ man' = [man EXCEPT ![g].dead = TRUE]
    BY DEF KeepaliveVerdict, ServerInv, OpensInv, Table
  <2>2. [man[g] EXCEPT !.dead = TRUE] \in ManRecord
    BY <2>1 DEF ManRecord
  <2>3. man' = [man EXCEPT ![g] = [man[g] EXCEPT !.dead = TRUE]]
    BY <2>1, Zenon
  <2>4. man' \in [Managers -> ManRecord]
    BY <2>1, <2>2, <2>3
  <2>5. \A x \in Managers : man'[x].st = man[x].st /\ man'[x].hold = man[x].hold
    BY <2>1 DEF ManRecord
  <2> QED BY <2>4, <2>5 DEF SameMen
<1>3. holds \in HoldRecord
  BY DEF ServerInv, OpensInv, LaneInv
<1>4. Post(t) /\ UNCHANGED <<openVars, due, slot, holds, cl, up>>
  BY DEF KeepaliveVerdict
<1> HIDE DEF t
<1> QED BY <1>1, <1>2, <1>3, <1>4, TimerPosts

\* A hold's timer fires.
LEMMA ExpiryKeeps ==
  ASSUME ServerInv, NEW h \in holds.pending, HoldExpires(h) PROVE ServerInv'
<1> DEFINE t == [kind |-> "prune", o |-> NoOpen, n |-> h]
<1>0. holds \in HoldRecord /\ h \in Nat
  BY DEF ServerInv, OpensInv, LaneInv, HoldRecord
<1>1. t \in Message /\ t.kind = "prune" /\ t.n = h
  BY <1>0, OpenAssumption DEF Message, Kinds
<1>2. SameMen
  BY UnchangedMen DEF HoldExpires, ServerInv, OpensInv
<1>3. holds' \in HoldRecord /\ holds'.expired = holds.expired \cup {h}
  BY <1>0 DEF HoldExpires, HoldRecord
<1>4. Post(t) /\ UNCHANGED <<openVars, due, slot, cl, up>>
  BY DEF HoldExpires
<1> HIDE DEF t
<1> QED BY <1>1, <1>2, <1>3, <1>4, TimerPosts

\* The link comes up: what the client was streaming is to be resumed.
LEMMA LinkUpKeeps == ASSUME ServerInv, LinkUp PROVE ServerInv'
<1> DEFINE t == Task("up")
<1>1. t \in Message /\ t.kind = "up"
  BY OpenAssumption DEF Task, Message, Kinds
<1>2. Post(t) /\ UNCHANGED <<openVars, due, slot, holds>> /\ SameMen /\ up' /\ ~up
  BY UnchangedMen DEF LinkUp, ServerInv, OpensInv
<1>3. LaneInv
  BY DEF ServerInv, OpensInv
<1>4. cl' \in ClientRecord /\ cl'.o = cl.o
  BY <1>3 DEF LinkUp, LaneInv, ClientRecord
<1> HIDE DEF t
<1>5. LaneInv'
  BY <1>1, <1>2, <1>3, <1>4, PostedLane DEF LaneInv
<1>6. ASSUME NEW o \in Opens, Resuming(o)' PROVE Resuming(o)
  <2>1. cl'.o = o => Resuming(o)
    BY <1>2, <1>4 DEF Resuming
  <2> QED BY <1>1, <1>2, <1>3, <1>6, <2>1, PostedResuming DEF LaneInv
<1> QED BY <1>1, <1>2, <1>5, <1>6, PostedStep

\* The link breaks: the teardown is behind everything that is queued.
LEMMA LinkDownKeeps == ASSUME ServerInv, NEW k \in 0 .. 1, LinkDown(k) PROVE ServerInv'
<1>1. Task("down") \in Message /\ Task("down").kind = "down"
  BY OpenAssumption DEF Task, Message, Kinds
<1>2. Post(Task("down")) /\ UNCHANGED <<openVars, due, slot, holds>> /\ SameMen
  BY UnchangedMen DEF LinkDown, ServerInv, OpensInv
<1>3. LaneInv
  BY DEF ServerInv, OpensInv
<1>4. cl' \in ClientRecord
  <2>1. (IF cl.o = NoOpen THEN cl.sent ELSE cl.sent + k) \in Nat
    BY <1>3 DEF LaneInv, ClientRecord
  <2>2. cl' = [cl EXCEPT !.sent = IF cl.o = NoOpen THEN cl.sent ELSE cl.sent + k]
    BY Zenon DEF LinkDown
  <2> QED BY <1>3, <2>1, <2>2 DEF LaneInv, ClientRecord
<1>5. LaneInv'
  BY <1>1, <1>2, <1>3, <1>4, PostedLane DEF LaneInv
<1> QED BY <1>1, <1>2, <1>5, PostedStep

\* The client speaks only while the link carries its frames.
LEMMA ClientPosts ==
  ASSUME ServerInv, NEW t \in Message, t.kind \in {"OPEN", "DATA", "CLOSE", "ERROR", "RESUME", "PING"},
         Post(t), UNCHANGED <<openVars, due, slot, holds, man, up>>, up,
         cl' \in ClientRecord, cl'.resume = FALSE,
         t.kind = "OPEN" => t.o \in UnusedOpens,
         t.kind = "RESUME" => cl.o = t.o /\ cl.resume
  PROVE  ServerInv'
<1>1. Table /\ LaneInv
  BY DEF ServerInv, OpensInv
<1>2. LaneInv'
  BY <1>1, PostedLane DEF LaneInv
<1>3. ASSUME NEW o \in Opens, Resuming(o)' PROVE Resuming(o) /\ ~(t.kind = "OPEN" /\ t.o = o)
  <2>1. t.kind = "RESUME" /\ t.o = o => Resuming(o)
    BY DEF Resuming
  <2>2. Resuming(o)
    BY <1>1, <1>3, <2>1, PostedResuming DEF LaneInv
  <2>3. t.kind = "OPEN" /\ t.o = o => FALSE
    <3> SUFFICES ASSUME t.kind = "OPEN", t.o = o PROVE FALSE
      OBVIOUS
    <3>1. \A f \in ToSet(lane \o due \o slot.backlog) : f.o /= o
      BY DEF UnusedOpens
    <3>2. (\E f \in Undispatched' : f.o = o) \/ \E i \in 1 .. Len(lane') : lane'[i].kind = "RESUME" /\ lane'[i].o = o
      BY <1>3 DEF Resuming, Dispatched
    <3>3. \A f \in Undispatched' : f.o /= o
      BY <1>1, <3>1, Gathered DEF Undispatched, LaneInv, SlotRecord
    <3>4. ASSUME NEW i \in 1 .. Len(lane') PROVE ~(lane'[i].kind = "RESUME" /\ lane'[i].o = o)
      <4>1. CASE i = Len(lane) + 1
        BY <1>1, <4>1, PostedDown DEF LaneInv
      <4>2. CASE i /= Len(lane) + 1
        <5>1. i \in 1 .. Len(lane) /\ lane'[i] = lane[i]
          BY <1>1, <4>2, PostedDown DEF LaneInv
        <5>2. lane[i] \in ToSet(lane) /\ lane[i].o /= o
          BY <1>1, <3>1, <5>1, Gathered DEF ToSet, LaneInv, SlotRecord
        <5> QED BY <5>1, <5>2
      <4> QED BY <4>1, <4>2
    <3> QED BY <3>2, <3>3, <3>4
  <2> QED BY <2>2, <2>3
<1>4. SameMen
  BY <1>1, UnchangedMen
<1> QED BY <1>2, <1>3, <1>4, PostedStep

\* The client opens, streams, ends, resumes or pings.
LEMMA ClientKeeps ==
  ASSUME ServerInv, NEW k \in {"OPEN", "DATA", "CLOSE", "ERROR", "RESUME", "PING"}, ClientSends(k)
  PROVE  ServerInv'
<1>0. LaneInv /\ cl \in ClientRecord /\ up /\ (cl.resume <=> k = "RESUME")
      /\ UNCHANGED <<openVars, due, slot, holds, man, up>>
  BY DEF ServerInv, OpensInv, LaneInv, ClientSends, ClientRecord
<1>1. CASE k = "OPEN"
  <2> DEFINE o == CHOOSE x \in UnusedOpens : TRUE
             t == Frame(k, o, 0)
  <2>1. o \in UnusedOpens /\ o \in Opens
    BY <1>1 DEF ClientSends, UnusedOpens
  <2>2. Post(t) /\ cl' = IF cl.o = NoOpen THEN [cl EXCEPT !.o = o, !.sent = 0] ELSE cl
    BY <1>1 DEF ClientSends
  <2> HIDE DEF o
  <2>3. t \in Message /\ t.kind = "OPEN" /\ t.o = o
    BY <1>1, <2>1 DEF Frame, Message, Kinds
  <2>4. cl' \in ClientRecord /\ cl'.resume = FALSE
    BY <1>0, <1>1, <2>1, <2>2 DEF ClientRecord
  <2> HIDE DEF t
  <2> QED BY <1>0, <2>1, <2>2, <2>3, <2>4, ClientPosts
<1>2. CASE k = "DATA"
  <2> DEFINE t == Frame(k, cl.o, cl.sent + 1)
  <2>1. Post(t) /\ cl' = [cl EXCEPT !.sent = @ + 1]
    BY <1>2 DEF ClientSends
  <2>2. t \in Message /\ t.kind = "DATA"
    BY <1>0, <1>2 DEF Frame, Message, Kinds, ClientRecord
  <2>3. cl' \in ClientRecord /\ cl'.resume = FALSE
    BY <1>0, <1>2, <2>1 DEF ClientRecord
  <2> HIDE DEF t
  <2> QED BY <1>0, <2>1, <2>2, <2>3, ClientPosts
<1>3. CASE k \in {"CLOSE", "ERROR"}
  <2> DEFINE t == Frame(k, cl.o, 0)
  <2>1. Post(t) /\ cl' = [cl EXCEPT !.o = NoOpen]
    BY <1>3 DEF ClientSends
  <2>2. t \in Message /\ t.kind \in {"CLOSE", "ERROR"}
    BY <1>0, <1>3 DEF Frame, Message, Kinds, ClientRecord
  <2>3. cl' \in ClientRecord /\ cl'.resume = FALSE
    BY <1>0, <1>3, <2>1 DEF ClientRecord
  <2> HIDE DEF t
  <2> QED BY <1>0, <2>1, <2>2, <2>3, ClientPosts
<1>4. CASE k = "RESUME"
  <2> DEFINE t == Frame(k, cl.o, cl.sent)
  <2>1. Post(t) /\ cl' = [cl EXCEPT !.resume = FALSE]
    BY <1>4 DEF ClientSends
  <2>2. t \in Message /\ t.kind = "RESUME" /\ t.o = cl.o
    BY <1>0, <1>4 DEF Frame, Message, Kinds, ClientRecord
  <2>3. cl' \in ClientRecord /\ cl'.resume = FALSE
    BY <1>0, <2>1 DEF ClientRecord
  <2> HIDE DEF t
  <2> QED BY <1>0, <1>4, <2>1, <2>2, <2>3, ClientPosts
<1>5. CASE k = "PING"
  <2> DEFINE t == Task(k)
  <2>1. Post(t) /\ cl' = cl
    BY <1>5 DEF ClientSends
  <2>2. t \in Message /\ t.kind = "PING"
    BY <1>5, OpenAssumption DEF Task, Message, Kinds
  <2>3. cl' \in ClientRecord /\ cl'.resume = FALSE
    BY <1>0, <1>5, <2>1 DEF ClientRecord
  <2> HIDE DEF t
  <2> QED BY <1>0, <2>1, <2>2, <2>3, ClientPosts
<1> QED BY <1>1, <1>2, <1>3, <1>4, <1>5

----------------------------------------------------------------------------
(* The strand runs what is posted. *)

\* A manager that was held once, or is not the current one, stays so.
Lost(g) == man[g].st /= "current" \/ man[g].hold /= 0
LostStays == \A g \in Managers : man[g].st /= "unused" /\ Lost(g) => Lost(g)'

\* With the teardown still on its way, a lost manager stays lost.
LEMMA LostIsCut == ASSUME LostStays, DownPosted => DownPosted' PROVE CutStays
BY DEF LostStays, Lost, CutStays, Cut

\* A change of opinion loses nobody.
LEMMA SameMenLost == ASSUME SameMen PROVE LostStays
BY DEF SameMen, LostStays, Lost

\* setup_tunnel_manager() leaves one manager, marked if it was held.
LEMMA SetupKeeps ==
  ASSUME Table, OneManager, holds \in HoldRecord, SetupManager
  PROVE  ManStep /\ OneManager' /\ LostStays /\ holds' \in HoldRecord /\ holds'.expired = holds.expired
<1>1. ManStep
  BY SetupFacts
<1>2. ASSUME UNCHANGED man PROVE OneManager' /\ LostStays
  BY <1>2 DEF OneManager, LostStays, Lost
<1>3. ASSUME CurrentMgr = {}, NEW g \in Managers,
             man[g].st \in {"held", "unused"}, man'[g].st = "current", man'[g].hold = man[g].hold,
             \A h \in Managers \ {g} : man'[h] = man[h]
      PROVE  OneManager' /\ LostStays
  <2>1. OneManager'
    BY <1>3 DEF OneManager, CurrentMgr
  <2>2. LostStays
    BY <1>3 DEF OneManager, LostStays, Lost
  <2> QED BY <2>1, <2>2
<1>4. OneManager' /\ LostStays
  BY <1>2, <1>3, SetupFacts
<1>5. holds' \in HoldRecord /\ holds'.expired = holds.expired
  <2>1. CASE UNCHANGED holds
    BY <2>1
  <2>2. ASSUME NEW g \in Managers, holds' = [holds EXCEPT !.pending = @ \ {man[g].hold}]
        PROVE  holds' \in HoldRecord /\ holds'.expired = holds.expired
    BY <2>2 DEF HoldRecord
  <2> QED BY <2>1, <2>2 DEF SetupManager, HeldMgr
<1> QED BY <1>1, <1>4, <1>5

\* setup_tunnel_manager() keeps what is parked.
LEMMA SlotKept == ASSUME slot \in SlotRecord, SetupSlot PROVE slot' \in SlotRecord /\ slot'.backlog = slot.backlog
BY DEF SetupSlot, SlotRecord

\* The types, when the strand takes an entry.
LEMMA TakenLane ==
  ASSUME LaneInv, lane /= <<>>, lane' = Tail(lane), due' \in Seq(Message), slot' \in SlotRecord,
         holds' \in HoldRecord, holds.expired \subseteq holds'.expired, cl' \in ClientRecord
  PROVE  LaneInv'
<1>1. lane' \in Seq(Message) /\ lane \in Seq(Message)
  BY DEF LaneInv
<1>2. ASSUME NEW i \in 1 .. Len(lane'), lane'[i].kind = "prune" PROVE lane'[i].n \in holds'.expired
  BY <1>1, <1>2, TakenEntry DEF LaneInv
<1> QED BY <1>1, <1>2 DEF LaneInv

\* The strand runs an entry that ends no manager.
LEMMA TakenStep ==
  ASSUME ServerInv, lane /= <<>>, lane' = Tail(lane), Head(lane) /= Task("down"), LaneInv',
         Undispatched' \subseteq Undispatched \cup {Head(lane)}, UNCHANGED <<openVars, up>>, SameClient,
         ManStep, OneManager', LostStays,
         CurrentMgr' /= {} => CurrentMgr /= {} \/ Head(lane).kind = "up"
  PROVE  ServerInv'
<1>1. Table /\ LaneInv /\ OpensGood /\ OneManager /\ BrokenLink /\ ResumeInv /\ WireInv
  BY DEF ServerInv, OpensInv, OpensGood, LinkInv
<1>2. UNCHANGED <<op, reg, wire>> /\ SameHomes
  BY DEF openVars, SameHomes
<1>3. CutStays
  BY <1>1, TakenDown, LostIsCut DEF LaneInv
<1>4. Table' /\ OpensGood' /\ \A o \in Opens : Owns(o)' = Owns(o)
  BY <1>1, <1>2, ManStepKeeps
<1>5. BrokenLink' /\ ResumeInv'
  BY <1>1, <1>2, <1>3, TakenKeeps
<1>6. WireInv'
  BY <1>1, <1>2, <1>3, <1>4, SpeechStays
<1> QED BY <1>4, <1>5, <1>6 DEF ServerInv, OpensInv, OpensGood, LinkInv

\* The friend is online.
LEMMA UpKeeps ==
  ASSUME ServerInv, Next1, UNCHANGED <<due, up>>, Head(lane).kind = "up",
         SetupManager, SetupSlot, UNCHANGED <<openVars, cl>>
  PROVE  ServerInv'
<1>1. Table /\ LaneInv /\ OneManager
  BY DEF ServerInv, OpensInv, LinkInv
<1>2. lane /= <<>> /\ lane' = Tail(lane) /\ Head(lane) /= Task("down")
  BY DEF Next1, Task
<1>3. ManStep /\ OneManager' /\ LostStays /\ holds' \in HoldRecord /\ holds'.expired = holds.expired
  BY <1>1, SetupKeeps DEF LaneInv
<1>4. slot' \in SlotRecord /\ slot'.backlog = slot.backlog
  BY <1>1, SlotKept DEF LaneInv
<1>5. LaneInv'
  BY <1>1, <1>2, <1>3, <1>4, TakenLane DEF LaneInv
<1>6. Undispatched' = Undispatched /\ SameClient
  BY <1>4 DEF Undispatched, SameClient
<1> QED BY <1>2, <1>3, <1>5, <1>6, TakenStep

\* close_all(): a registered tunnel is closed with its manager.
LEMMA EndsClose ==
  ASSUME Table, OpensGood, NEW g \in Managers, man[g].st \in {"current", "held"}, Ends(g)
  PROVE  /\ SameHomes /\ wire' = wire /\ man'[g].st = "gone" /\ \A h \in Managers \ {g} : man'[h] = man[h]
         /\ \A o \in Opens : \/ op'[o] = op[o] /\ Owns(o)' = Owns(o)
                             \/ /\ op'[o] = ForceClose(op[o]) /\ Owns(o)' = FALSE /\ op[o].m = g
<1>1. /\ \A h \in Managers \ {g} : man'[h] = man[h]
      /\ man'[g].st = "gone"
  BY DEF Table, ManRecord, Ends
<1>2. \A h \in Managers : reg'[h] = IF h = g THEN {} ELSE reg[h]
  BY DEF CloseAll, Table, Ends
<1>3. \A o \in Opens : op'[o] = IF o \in reg[g] THEN ForceClose(op[o]) ELSE op[o]
  BY DEF CloseAll, Ends
<1>4. SameHomes
  <2> SUFFICES ASSUME NEW o \in Opens PROVE op'[o].m = op[o].m
    BY DEF SameHomes
  <2>1. OpenType(op[o])
    BY DEF OpensGood, OpenInv
  <2>2. ForceClose(op[o]).m = op[o].m
    BY <2>1, ForceCloseFacts DEF Kept
  <2> QED BY <1>3, <2>2
<1>5. ASSUME NEW o \in Opens
      PROVE  \/ op'[o] = op[o] /\ Owns(o)' = Owns(o)
             \/ /\ op'[o] = ForceClose(op[o]) /\ Owns(o)' = FALSE /\ op[o].m = g
  <2>1. CASE o \in reg[g]
    <3>1. op[o].m = g
      BY <2>1 DEF Table
    <3>2. Owns(o)' = FALSE
      BY <1>2, <1>4, <3>1 DEF Owns, Alive, SameHomes
    <3> QED BY <1>3, <2>1, <3>1, <3>2
  <2>2. CASE o \notin reg[g]
    <3>1. Owns(o)' = Owns(o)
      BY <1>1, <1>2, <1>4, <2>2 DEF Owns, Alive, SameHomes
    <3> QED BY <1>3, <2>2, <3>1
  <2> QED BY <2>1, <2>2
<1>6. wire' = wire
  BY DEF Ends, CloseAll
<1> QED BY <1>1, <1>4, <1>5, <1>6

\* teardown_tunnel_manager() drops what is parked.
LEMMA TeardownLane ==
  ASSUME LaneInv, Teardown
  PROVE  /\ slot' \in SlotRecord /\ slot'.backlog = <<>>
         /\ holds' \in HoldRecord /\ holds'.expired = holds.expired
<1>1. slot' \in SlotRecord /\ slot'.backlog = <<>>
  BY DEF Teardown, SlotRecord
<1>2. holds \in HoldRecord
  BY DEF LaneInv
<1>3. CASE UNCHANGED holds
  BY <1>1, <1>2, <1>3
<1>4. CASE holds' = [holds EXCEPT !.n = @ + 1, !.pending = @ \cup {holds.n + 1}]
  <2>1. holds.n \in Nat /\ holds.n + 1 \in Nat /\ holds.pending \in SUBSET Nat
    BY <1>2 DEF HoldRecord
  <2>2. holds' = [holds EXCEPT !.n = holds.n + 1, !.pending = holds.pending \cup {holds.n + 1}]
    BY <1>4, Zenon
  <2> QED BY <1>1, <1>2, <2>1, <2>2 DEF HoldRecord
<1> QED BY <1>3, <1>4 DEF Teardown

\* What a teardown leaves: nobody serves the friend.
Severed ==
  /\ CurrentMgr' = {} /\ OneManager' /\ SameHomes /\ Table' /\ OpensGood' /\ wire' = wire
  /\ \A o \in Opens : \/ op'[o] = op[o] /\ Owns(o)' = Owns(o)
                      \/ op'[o] = ForceClose(op[o]) /\ Owns(o)' = FALSE

\* A teardown runs, for a broken link or after a verdict.
LEMMA TeardownStep ==
  ASSUME ServerInv, Next1, UNCHANGED <<due, up>>, Teardown, cl' \in ClientRecord, SameClient
  PROVE  ServerInv'
<1>1. Table /\ LaneInv /\ OpensGood /\ OneManager /\ BrokenLink /\ ResumeInv /\ WireInv
  BY DEF ServerInv, OpensInv, OpensGood, LinkInv
<1>2. lane /= <<>> /\ lane' = Tail(lane) /\ due = <<>> /\ due' = <<>>
  BY DEF Next1
<1>3. /\ slot' \in SlotRecord /\ slot'.backlog = <<>>
      /\ holds' \in HoldRecord /\ holds'.expired = holds.expired
  BY <1>1, TeardownLane
<1>4. LaneInv'
  BY <1>1, <1>2, <1>3, TakenLane DEF LaneInv
<1>5. Undispatched' = {}
  BY <1>2, <1>3 DEF Undispatched, ToSet
<1>6. Severed
  <2>1. CASE CurrentMgr = {} /\ UNCHANGED <<man, op, reg, wire>>
    <3>1. ManStep
      BY <1>1, <2>1 DEF ManStep, Table
    <3> QED BY <1>1, <2>1, <3>1, ManStepKeeps DEF Severed, SameHomes, OneManager, CurrentMgr
  <2>2. ASSUME NEW g \in CurrentMgr, Ends(g)
        PROVE  Severed
    <3>1. g \in Managers /\ man[g].st = "current"
      BY <2>2 DEF CurrentMgr
    <3>2. Table' /\ OpensGood'
      BY <1>1, <2>2, <3>1, CloseAllKeeps DEF Ends
    <3>3. /\ SameHomes /\ wire' = wire /\ man'[g].st = "gone" /\ \A h \in Managers \ {g} : man'[h] = man[h]
          /\ \A o \in Opens : \/ op'[o] = op[o] /\ Owns(o)' = Owns(o)
                              \/ op'[o] = ForceClose(op[o]) /\ Owns(o)' = FALSE
      BY <1>1, <2>2, <3>1, EndsClose
    <3>4. CurrentMgr' = {} /\ OneManager'
      BY <1>1, <3>1, <3>3 DEF CurrentMgr, OneManager
    <3> QED BY <3>2, <3>3, <3>4 DEF Severed
  <2>3. ASSUME NEW g \in CurrentMgr, Holds(g), ManStep
        PROVE  Severed
    <3>1. g \in Managers /\ man[g].st = "current"
      BY <2>3 DEF CurrentMgr
    <3>2. UNCHANGED <<op, reg, wire>> /\ SameHomes
      BY <2>3 DEF Holds, SameHomes
    <3>3. Table' /\ OpensGood' /\ \A o \in Opens : Owns(o)' = Owns(o)
      BY <1>1, <2>3, <3>2, ManStepKeeps
    <3>4. CurrentMgr' = {} /\ OneManager'
      BY <1>1, <2>3, <3>1 DEF CurrentMgr, OneManager, Holds
    <3> QED BY <3>2, <3>3, <3>4 DEF Severed
  <2>4. holds.n \in Nat
    BY <1>1 DEF LaneInv, HoldRecord
  <2> QED BY <1>1, <2>1, <2>2, <2>3, <2>4, TeardownFacts
<1>7. BrokenLink' /\ ResumeInv'
  BY <1>1, <1>2, <1>5, <1>6, TeardownKeeps DEF Severed
<1>8. \A g \in Managers : Cut(g)'
  BY <1>6 DEF CurrentMgr, Cut, Severed
<1>9. CutStays /\ \A o \in Opens : op[o].m \in Managers => Cut(op[o].m)'
  BY <1>6, <1>8 DEF CutStays, Severed, SameHomes
<1>10. WireInv'
  BY <1>1, <1>6, <1>9, SpeechStays DEF Severed
<1> QED BY <1>4, <1>6, <1>7, <1>10 DEF Severed, ServerInv, OpensInv, OpensGood, LinkInv

\* The frames of a queue and one more.
LEMMA AppendSet == ASSUME NEW S, NEW a \in Seq(S), NEW x \in S PROVE ToSet(Append(a, x)) \subseteq ToSet(a) \cup {x}
<1> SUFFICES ASSUME NEW i \in DOMAIN Append(a, x) PROVE Append(a, x)[i] \in ToSet(a) \cup {x}
  BY DEF ToSet
<1>1. CASE i = Len(a) + 1
  BY <1>1
<1>2. CASE i /= Len(a) + 1
  <2>1. i \in DOMAIN a /\ Append(a, x)[i] = a[i]
    BY <1>2
  <2> QED BY <2>1, Zenon DEF ToSet
<1> QED BY <1>1, <1>2

\* The frames of a part of a queue.
LEMMA PartSet ==
  ASSUME NEW S, NEW a \in Seq(S), NEW m \in Nat \ {0}, NEW n \in 0 .. Len(a)
  PROVE  SubSeq(a, m, n) \in Seq(S) /\ ToSet(SubSeq(a, m, n)) \subseteq ToSet(a)
<1> DEFINE b == SubSeq(a, m, n)
<1>1. b \in Seq(S) /\ \A i \in DOMAIN b : m + i - 1 \in DOMAIN a /\ b[i] = a[m + i - 1]
  <2>1. Len(a) \in Nat /\ \A j \in m .. n : j \in DOMAIN a /\ a[j] \in S
    OBVIOUS
  <2>2. b = [i \in 1 .. (IF n < m THEN 0 ELSE n - m + 1) |-> a[m + i - 1]]
    OBVIOUS
  <2>3. \A i \in 1 .. (IF n < m THEN 0 ELSE n - m + 1) : m + i - 1 \in m .. n
    OBVIOUS
  <2> HIDE DEF b
  <2> QED BY <2>1, <2>2, <2>3
<1> HIDE DEF b
<1>2. ToSet(b) \subseteq ToSet(a)
  <2> SUFFICES ASSUME NEW i \in DOMAIN b PROVE b[i] \in ToSet(a)
    BY DEF ToSet
  <2>1. m + i - 1 \in DOMAIN a /\ b[i] = a[m + i - 1]
    BY <1>1
  <2> QED BY <2>1, Zenon DEF ToSet
<1> QED BY <1>1, <1>2 DEF b

\* The frames of a queue without its head.
LEMMA TailSet ==
  ASSUME NEW S, NEW a \in Seq(S), a /= <<>>
  PROVE  /\ Tail(a) \in Seq(S) /\ Head(a) \in S
         /\ ToSet(Tail(a)) \subseteq ToSet(a) /\ Head(a) \in ToSet(a)
<1>1. Tail(a) \in Seq(S) /\ Head(a) \in S /\ 1 \in DOMAIN a /\ Head(a) = a[1]
      /\ \A i \in DOMAIN Tail(a) : i + 1 \in DOMAIN a /\ Tail(a)[i] = a[i + 1]
  OBVIOUS
<1>2. ASSUME NEW i \in DOMAIN Tail(a) PROVE Tail(a)[i] \in ToSet(a)
  <2>1. i + 1 \in DOMAIN a /\ Tail(a)[i] = a[i + 1]
    BY <1>1
  <2> QED BY <2>1, Zenon DEF ToSet
<1>3. Head(a) \in ToSet(a)
  BY <1>1, Zenon DEF ToSet
<1> QED BY <1>1, <1>2, <1>3 DEF ToSet

\* drain_inbound_backlog() moves frames and loses none.
LEMMA DrainKeeps ==
  ASSUME ServerInv, NEW k \in 0 .. Len(slot.backlog), RunRetry(k) PROVE ServerInv'
<1>1. Table /\ LaneInv /\ OneManager
  BY DEF ServerInv, OpensInv, LinkInv
<1>2. lane /= <<>> /\ lane' = Tail(lane) /\ Head(lane) /= Task("down") /\ due = <<>>
  BY DEF RunRetry, Next1, Task
<1>3. slot \in SlotRecord /\ slot.backlog \in Seq(Message) /\ Len(slot.backlog) \in Nat
  BY <1>1 DEF LaneInv, SlotRecord
<1>4. /\ due' \in Seq(Message) /\ ToSet(due') \subseteq ToSet(slot.backlog)
      /\ SubSeq(slot.backlog, k + 1, Len(slot.backlog)) \in Seq(Message)
      /\ ToSet(SubSeq(slot.backlog, k + 1, Len(slot.backlog))) \subseteq ToSet(slot.backlog)
  <2>1. 1 \in Nat \ {0} /\ k + 1 \in Nat \ {0} /\ Len(slot.backlog) \in 0 .. Len(slot.backlog)
    BY <1>3
  <2>2. due' = SubSeq(slot.backlog, 1, k)
    BY DEF RunRetry, Drain
  <2> QED BY <1>3, <2>1, <2>2, PartSet
<1>5. slot' \in SlotRecord /\ slot'.backlog = SubSeq(slot.backlog, k + 1, Len(slot.backlog))
  <2> DEFINE rest == SubSeq(slot.backlog, k + 1, Len(slot.backlog))
             more == k < Len(slot.backlog)
  <2>1. rest \in Seq(Message) /\ more \in BOOLEAN
    BY <1>4
  <2>2. slot' = [slot EXCEPT !.backlog = rest, !.armed = more]
    BY Zenon DEF RunRetry, Drain
  <2> HIDE DEF rest, more
  <2>3. slot' \in SlotRecord /\ slot'.backlog = rest
    BY <1>3, <2>1, <2>2 DEF SlotRecord
  <2> QED BY <2>3 DEF rest
<1>6. UNCHANGED <<openVars, man, holds, cl, up>>
  BY DEF RunRetry
<1>7. Undispatched' \subseteq Undispatched \cup {Head(lane)}
  BY <1>4, <1>5 DEF Undispatched
<1>8. LaneInv'
  BY <1>1, <1>2, <1>4, <1>5, <1>6, TakenLane DEF LaneInv
<1>9. SameMen
  BY <1>1, <1>6, UnchangedMen
<1>10. ManStep /\ OneManager' /\ LostStays /\ CurrentMgr' = CurrentMgr /\ SameClient
  BY <1>1, <1>6, <1>9, SameMenFacts, SameMenLost DEF SameClient
<1> QED BY <1>2, <1>6, <1>7, <1>8, <1>10, TakenStep

\* admit() parks or passes on the frame, and drops nothing.
LEMMA AdmitKeeps ==
  ASSUME LaneInv, due = <<>>, NEW f \in Message, Admit(f)
  PROVE  due' \in Seq(Message) /\ slot' \in SlotRecord /\ Undispatched' \subseteq Undispatched \cup {f}
<1>1. slot \in SlotRecord /\ slot.backlog \in Seq(Message) /\ Append(slot.backlog, f) \in Seq(Message)
  BY DEF LaneInv, SlotRecord
<1>2. ToSet(Append(slot.backlog, f)) \subseteq ToSet(slot.backlog) \cup {f} /\ ToSet(<<>>) = {} /\ ToSet(<<f>>) = {f}
  BY <1>1, AppendSet DEF ToSet
<1>3. CASE due' = <<f>> /\ UNCHANGED slot
  BY <1>1, <1>2, <1>3 DEF Undispatched
<1>4. CASE due' = <<>> /\ slot' = [slot EXCEPT !.backlog = Append(@, f), !.armed = TRUE]
  <2>1. slot' \in SlotRecord /\ slot'.backlog = Append(slot.backlog, f)
    BY <1>1, <1>4 DEF SlotRecord
  <2> QED BY <1>2, <1>4, <2>1 DEF Undispatched
<1>5. CASE due' = Append(slot.backlog, f) /\ slot' = [slot EXCEPT !.backlog = <<>>, !.armed = FALSE]
  <2>1. <<>> \in Seq(Message)
    OBVIOUS
  <2>2. slot' = [slot EXCEPT !.backlog = <<>>, !.armed = FALSE]
    BY <1>5
  <2>3. slot' \in SlotRecord /\ slot'.backlog = <<>>
    BY <1>1, <2>1, <2>2 DEF SlotRecord
  <2> QED BY <1>1, <1>2, <1>5, <2>3 DEF Undispatched
<1> QED BY <1>3, <1>4, <1>5 DEF Admit

\* on_lossless_packet().
LEMMA FrameKeeps == ASSUME ServerInv, RunFrame PROVE ServerInv'
<1>1. Table /\ LaneInv /\ OneManager
  BY DEF ServerInv, OpensInv, LinkInv
<1>2. lane /= <<>> /\ lane' = Tail(lane) /\ Head(lane) /= Task("down") /\ due = <<>>
  BY DEF RunFrame, Next1, Task
<1>3. Head(lane) \in Message
  BY <1>1, <1>2, TakenDown DEF LaneInv
<1>4. due' \in Seq(Message) /\ slot' \in SlotRecord /\ Undispatched' \subseteq Undispatched \cup {Head(lane)}
  BY <1>1, <1>2, <1>3, AdmitKeeps DEF RunFrame
<1>5. UNCHANGED <<openVars, holds, cl, up>>
  BY DEF RunFrame
<1>6. LaneInv'
  BY <1>1, <1>2, <1>4, <1>5, TakenLane DEF LaneInv
<1>7. SameMen
  <2> DEFINE e(g) == IF man[g].st = "current" THEN [man[g] EXCEPT !.dead = FALSE] ELSE man[g]
  <2>1. \A g \in Managers : e(g) \in ManRecord /\ e(g).st = man[g].st /\ e(g).hold = man[g].hold
    <3> SUFFICES ASSUME NEW g \in Managers
                 PROVE  e(g) \in ManRecord /\ e(g).st = man[g].st /\ e(g).hold = man[g].hold
      OBVIOUS
    <3>1. man[g] \in ManRecord
      BY <1>1 DEF Table
    <3>2. [man[g] EXCEPT !.dead = FALSE] \in ManRecord
      BY <3>1 DEF ManRecord
    <3> QED BY <3>1, <3>2 DEF ManRecord
  <2>2. man' = [g \in Managers |-> e(g)]
    BY DEF RunFrame
  <2> HIDE DEF e
  <2> QED BY <2>1, <2>2 DEF SameMen
<1>8. ManStep /\ OneManager' /\ LostStays /\ CurrentMgr' = CurrentMgr /\ SameClient
  BY <1>1, <1>5, <1>7, SameMenFacts, SameMenLost DEF SameClient
<1> QED BY <1>2, <1>4, <1>5, <1>6, <1>8, TakenStep

\* The prune handler closes the hold of its own timer.
LEMMA PruneKeeps ==
  ASSUME ServerInv, Next1, UNCHANGED <<due, up, holds, slot, cl>>, Head(lane).kind = "prune", Prune(Head(lane).n)
  PROVE  ServerInv'
<1>1. Table /\ LaneInv /\ OpensGood /\ OneManager /\ BrokenLink /\ ResumeInv /\ WireInv
  BY DEF ServerInv, OpensInv, OpensGood, LinkInv
<1>2. lane /= <<>> /\ lane' = Tail(lane) /\ Head(lane) /= Task("down")
  BY DEF Next1, Task
<1>3. LaneInv' /\ Undispatched' = Undispatched /\ SameClient
  BY <1>1, <1>2, TakenLane DEF LaneInv, Undispatched, SameClient
<1>4. CASE UNCHANGED <<man, openVars>>
  <2>1. ManStep /\ OneManager' /\ LostStays /\ CurrentMgr' = CurrentMgr
    BY <1>1, <1>4, UnchangedMen, SameMenFacts, SameMenLost
  <2> QED BY <1>2, <1>3, <1>4, <2>1, TakenStep
<1>5. ASSUME NEW g \in HeldMgr, Ends(g) PROVE ServerInv'
  <2>1. g \in Managers /\ man[g].st = "held"
    BY DEF HeldMgr
  <2>2. Table' /\ OpensGood'
    BY <1>1, <1>5, <2>1, CloseAllKeeps DEF Ends
  <2>3. /\ SameHomes /\ wire' = wire /\ man'[g].st = "gone" /\ \A h \in Managers \ {g} : man'[h] = man[h]
        /\ \A o \in Opens : \/ op'[o] = op[o] /\ Owns(o)' = Owns(o)
                            \/ op'[o] = ForceClose(op[o]) /\ Owns(o)' = FALSE /\ op[o].m = g
    BY <1>1, <1>5, <2>1, EndsClose
  <2>4. OneManager' /\ LostStays /\ CurrentMgr' = CurrentMgr /\ Cut(g)'
    BY <1>1, <2>1, <2>3 DEF OneManager, LostStays, Lost, CurrentMgr, Cut
  <2>5. CutStays
    BY <1>1, <1>2, <2>4, TakenDown, LostIsCut DEF LaneInv
  <2>6. BrokenLink' /\ ResumeInv'
    BY <1>1, <1>2, <1>3, <2>3, <2>4, <2>5, TakenKeeps
  <2>7. \A o \in Opens : op[o].m = g => Cut(op[o].m)'
    BY <2>3, <2>4 DEF SameHomes
  <2>8. WireInv'
    BY <1>1, <2>3, <2>5, <2>7, SpeechStays
  <2> QED BY <1>3, <2>2, <2>4, <2>6, <2>8 DEF ServerInv, OpensInv, OpensGood, LinkInv
<1> QED BY <1>4, <1>5, PruneFacts

\* on_friend_connection() and the handlers of the timers.
LEMMA EventKeeps == ASSUME ServerInv, RunEvent PROVE ServerInv'
<1>1. Table /\ LaneInv /\ OneManager
  BY DEF ServerInv, OpensInv, LinkInv
<1>2. Next1 /\ UNCHANGED <<due, up>> /\ lane /= <<>> /\ lane' = Tail(lane)
  BY DEF RunEvent, Next1
<1>3. CASE Head(lane).kind = "up" /\ SetupManager /\ SetupSlot /\ UNCHANGED <<openVars, cl>>
  BY <1>2, <1>3, UpKeeps
<1>4. CASE Head(lane).kind = "down" /\ Teardown /\ UNCHANGED cl
  BY <1>1, <1>2, <1>4, TeardownStep DEF LaneInv, SameClient
<1>5. CASE /\ Head(lane).kind = "verdict" /\ Verdict_(Head(lane).n) /\ Teardown
           /\ cl' = [cl EXCEPT !.judged = @ \cup reg[Head(lane).n]]
  <2>1. Head(lane) \in Message
    BY <1>1, <1>2, TakenDown DEF LaneInv
  <2>2. reg[Head(lane).n] \subseteq Opens
    BY <1>1, <1>5, <2>1 DEF Message, Table
  <2>3. cl' \in ClientRecord /\ SameClient
    BY <1>1, <1>5, <2>2 DEF LaneInv, ClientRecord, SameClient
  <2> QED BY <1>2, <1>5, <2>3, TeardownStep
<1>6. CASE Head(lane).kind = "verdict" /\ UNCHANGED <<openVars, man, holds, slot, cl>>
  <2>1. LaneInv' /\ Undispatched' = Undispatched /\ SameClient
    BY <1>1, <1>2, <1>6, TakenLane DEF LaneInv, Undispatched, SameClient
  <2>2. ManStep /\ OneManager' /\ LostStays /\ CurrentMgr' = CurrentMgr
    BY <1>1, <1>6, UnchangedMen, SameMenFacts, SameMenLost
  <2>3. Head(lane) /= Task("down")
    BY <1>6 DEF Task
  <2> QED BY <1>2, <1>6, <2>1, <2>2, <2>3, TakenStep
<1>7. CASE Head(lane).kind = "prune" /\ Prune(Head(lane).n) /\ UNCHANGED <<holds, slot, cl>>
  BY <1>2, <1>7, PruneKeeps
<1> QED BY <1>3, <1>4, <1>5, <1>6, <1>7 DEF RunEvent

----------------------------------------------------------------------------
(* Frames are dispatched. *)

\* The dispatcher takes the next frame.
LEMMA DispatchFacts ==
  ASSUME LaneInv, NEW k, Dispatching(k), UNCHANGED slot
  PROVE  /\ due' \in Seq(Message) /\ Head(due) \in Message /\ Head(due).kind = k
         /\ Head(due) \in Undispatched /\ Undispatched' \subseteq Undispatched
<1>1. due \in Seq(Message) /\ due /= <<>> /\ due' = Tail(due) /\ Head(due).kind = k
  BY DEF LaneInv, Dispatching
<1>2. due' \in Seq(Message) /\ Head(due) \in Message /\ ToSet(due') \subseteq ToSet(due) /\ Head(due) \in ToSet(due)
  BY <1>1, TailSet
<1> QED BY <1>1, <1>2 DEF Undispatched

\* The types, when a frame is dispatched.
LEMMA DispatchLane ==
  ASSUME LaneInv, UNCHANGED lane, due' \in Seq(Message), slot' \in SlotRecord,
         holds' \in HoldRecord, holds'.expired = holds.expired, cl' \in ClientRecord
  PROVE  LaneInv'
BY DEF LaneInv

\* A step of one OPEN, on the strand or beside it.
LEMMA MovedStep ==
  ASSUME ServerInv, NEW o \in Opens, NEW s, Moved(o, s), WireInv', UNCHANGED <<man, up, lane>>, LaneInv',
         Undispatched' \subseteq Undispatched, cl'.o \in {cl.o, NoOpen}, cl'.resume = cl.resume
  PROVE  ServerInv'
<1>1. Table /\ OpensGood /\ OneManager /\ BrokenLink /\ ResumeInv
  BY DEF ServerInv, OpensInv, OpensGood, LinkInv
<1>2. Table' /\ (\A p \in Opens : OpenInv(op[p], Owns(p)))'
  BY <1>1, MovedKeeps DEF OpensGood
<1>3. SameMen /\ (DownPosted => DownPosted')
  BY <1>1, UnchangedMen DEF DownPosted, DownBehind, Task
<1>4. CurrentMgr' = CurrentMgr /\ OneManager' /\ CutStays
  BY <1>1, <1>3, SameMenFacts
<1>5. \A p \in Opens : op'[p].m = op[p].m
  BY <1>1 DEF Moved, Table
<1>6. BrokenLink' /\ ResumeInv'
  BY <1>1, <1>4, <1>5, DispatchKeeps
<1> QED BY <1>2, <1>4, <1>6 DEF ServerInv, OpensInv, LinkInv

\* The same, for a step that says what it must.
LEMMA SpeaksStep ==
  ASSUME ServerInv, NEW o \in Opens, NEW s, Moved(o, s), Speaks(o), UNCHANGED <<man, up, lane>>, LaneInv',
         Undispatched' \subseteq Undispatched, cl'.o \in {cl.o, NoOpen}, cl'.resume = cl.resume
  PROVE  ServerInv'
<1>1. Table /\ LinkInv /\ WireInv /\ \A p \in Opens : OpenInv(op[p], Owns(p))
  BY DEF ServerInv, OpensInv
<1>2. op'[o].gate = "none" => op[o].gate = "none"
  BY <1>1, MovedKeeps
<1>3. WireInv'
  BY <1>1, <1>2, SpeaksKeeps
<1> QED BY <1>3, MovedStep

\* The chain of one OPEN, its cleanups and its target.
LEMMA OpenStepKeeps ==
  ASSUME ServerInv, NEW o \in Opens, OpenSteps(o) \/ OpenEvents(o), UNCHANGED <<friendVars, up>>
  PROVE  ServerInv'
<1>1. OpenInv(op[o], Owns(o)) /\ LaneInv /\ wire \in Seq(WireRecord) /\ Speech(o)
  BY DEF ServerInv, OpensInv, WireInv, WireRecord
<1>2. PICK s : Moved(o, s)
  BY <1>1, OpenMoves
<1>3. Speaks(o)
  BY <1>1, OpenSpeaks
<1>4. UNCHANGED <<lane, due, slot, holds, cl, man, up>>
  BY DEF friendVars
<1>5. LaneInv' /\ Undispatched' = Undispatched
  BY <1>1, <1>4 DEF LaneInv, Undispatched
<1> QED BY <1>2, <1>3, <1>4, <1>5, SpeaksStep

\* Nothing of the tunnels moves.
LEMMA StillStep ==
  ASSUME ServerInv, UNCHANGED <<openVars, up, lane>>, LaneInv', Undispatched' \subseteq Undispatched,
         cl'.o \in {cl.o, NoOpen}, cl'.resume = cl.resume, ManStep, OneManager', LostStays,
         CurrentMgr' /= {} => CurrentMgr /= {} \/ \E f \in Undispatched : f.kind = "OPEN"
  PROVE  ServerInv'
<1>1. Table /\ OpensGood /\ OneManager /\ BrokenLink /\ ResumeInv /\ WireInv
  BY DEF ServerInv, OpensInv, OpensGood, LinkInv
<1>2. UNCHANGED <<op, reg, wire>>
  BY DEF openVars
<1>3. DownPosted => DownPosted'
  BY DEF DownPosted, DownBehind, Task
<1>4. CutStays
  BY <1>3, LostIsCut
<1>5. Table' /\ OpensGood' /\ \A o \in Opens : Owns(o)' = Owns(o)
  BY <1>1, <1>2, ManStepKeeps
<1>6. BrokenLink' /\ ResumeInv'
  BY <1>1, <1>2, <1>4, DispatchKeeps
<1>7. WireInv'
  BY <1>1, <1>2, <1>4, <1>5, SpeechStays
<1> QED BY <1>5, <1>6, <1>7 DEF ServerInv, OpensInv, OpensGood, LinkInv

\* An OPEN that finds no manager has one built.
LEMMA RebuildKeeps == ASSUME ServerInv, Rebuild PROVE ServerInv'
<1>1. Table /\ LaneInv /\ OneManager
  BY DEF ServerInv, OpensInv, LinkInv
<1>2. due /= <<>> /\ Head(due).kind = "OPEN" /\ SetupManager /\ SetupSlot
      /\ UNCHANGED <<openVars, lane, due, cl, up>>
  BY DEF Rebuild
<1>3. ManStep /\ OneManager' /\ LostStays /\ holds' \in HoldRecord /\ holds'.expired = holds.expired
  BY <1>1, <1>2, SetupKeeps DEF LaneInv
<1>4. slot' \in SlotRecord /\ slot'.backlog = slot.backlog
  BY <1>1, <1>2, SlotKept DEF LaneInv
<1>5. LaneInv'
  BY <1>1, <1>2, <1>3, <1>4, DispatchLane DEF LaneInv
<1>6. Undispatched' = Undispatched
  BY <1>2, <1>4 DEF Undispatched
<1>7. Head(due) \in Undispatched
  BY <1>1, <1>2, TailSet DEF Undispatched, LaneInv
<1> QED BY <1>2, <1>3, <1>5, <1>6, <1>7, StillStep

\* A dispatched frame that reaches no tunnel, or only brings it data.
LEMMA FrameIgnored ==
  ASSUME ServerInv, NEW k, Dispatching(k), UNCHANGED <<openVars, lane, slot, holds, man, up>>,
         cl' \in ClientRecord, cl'.o \in {cl.o, NoOpen}, cl'.resume = cl.resume
  PROVE  ServerInv'
<1>1. Table /\ LaneInv /\ OneManager
  BY DEF ServerInv, OpensInv, LinkInv
<1>2. due' \in Seq(Message) /\ Undispatched' \subseteq Undispatched
  BY <1>1, DispatchFacts
<1>3. LaneInv'
  BY <1>1, <1>2, DispatchLane DEF LaneInv
<1>4. ManStep /\ OneManager' /\ LostStays /\ CurrentMgr' = CurrentMgr
  BY <1>1, UnchangedMen, SameMenFacts, SameMenLost
<1> QED BY <1>2, <1>3, <1>4, StillStep

\* The friend's CLOSE, ERROR and PING.
LEMMA RouteEndKeeps == ASSUME ServerInv, RouteEnd PROVE ServerInv'
<1>1. LaneInv /\ wire \in Seq(WireRecord) /\ \A p \in Opens : OpenInv(op[p], Owns(p))
  BY DEF ServerInv, OpensInv, WireInv, WireRecord
<1>2. UNCHANGED <<lane, slot, holds, cl, man, up>> /\ cl \in ClientRecord
  BY <1>1 DEF RouteEnd, LaneInv
<1>3. PICK k \in {"CLOSE", "ERROR", "PING"} :
        /\ Dispatching(k)
        /\ \/ UNCHANGED openVars
           \/ /\ Routed(Head(due)) /= {}
              /\ handle_tunnel_close_frame(Head(due).o) \/ handle_tunnel_error_frame(Head(due).o)
  BY DEF RouteEnd
<1>4. CASE UNCHANGED openVars
  BY <1>2, <1>3, <1>4, FrameIgnored
<1>5. CASE /\ Routed(Head(due)) /= {}
           /\ handle_tunnel_close_frame(Head(due).o) \/ handle_tunnel_error_frame(Head(due).o)
  <2>1. PICK o \in Opens : o = Head(due).o
    BY <1>5 DEF Routed
  <2>2. due' \in Seq(Message) /\ Undispatched' \subseteq Undispatched
    BY <1>1, <1>2, <1>3, DispatchFacts
  <2>3. LaneInv'
    BY <1>1, <1>2, <2>2, DispatchLane DEF LaneInv
  <2>4. handle_tunnel_close_frame(o) \/ handle_tunnel_error_frame(o)
    BY <1>5, <2>1
  <2>5. PICK s : Moved(o, s)
    BY <1>1, <2>1, <2>4, PeerEndMoves
  <2>6. Speaks(o)
    BY <1>1, <2>1, <2>4, PeerEndSpeaks
  <2> QED BY <1>2, <2>1, <2>2, <2>3, <2>5, <2>6, SpeaksStep
<1> QED BY <1>3, <1>4, <1>5

\* The friend's DATA.
LEMMA RouteDataKeeps == ASSUME ServerInv, RouteData PROVE ServerInv'
<1>1. Dispatching("DATA") /\ UNCHANGED <<openVars, lane, slot, holds, cl, man, up>> /\ cl \in ClientRecord
  BY DEF RouteData, ServerInv, OpensInv, LaneInv
<1> QED BY <1>1, FrameIgnored

\* The removal of a tunnel the server cannot resume.
LEMMA GapMoves ==
  ASSUME NEW o, OpenInv(op[o], Owns(o)), Set(o, RemoveIf(o, op[o])), Unregister(o)
  PROVE  Moved(o, RemoveIf(o, op[o]))
<1> DEFINE s == RemoveIf(o, op[o])
<1>1. OpenInv(s, FALSE) /\ Kept(op[o], s)
  BY RemoveKeeps
<1>2. op' = [op EXCEPT ![o] = s]
  BY DEF Set
<1> HIDE DEF s
<1>3. Moved(o, s)
  BY <1>1, <1>2 DEF Moved, Kept
<1> QED BY <1>3 DEF s

\* A published tunnel that is removed says CLOSE.
LEMMA GapSpeaks ==
  ASSUME wire \in Seq(WireRecord), NEW o \in Opens, OpenInv(op[o], Owns(o)), Owns(o), op[o].tun = "Connected",
         Set(o, RemoveIf(o, op[o])), Unregister(o), Tells(o, Farewell(op[o]))
  PROVE  Speaks(o)
<1> DEFINE r == op[o]
           s == RemoveIf(o, r)
           K == {"CLOSE"}
<1>1. Said(o, K, Alive(o) /\ up) /\ K \in SUBSET Words /\ "ACK" \notin K
  <2>1. Farewell(r) = <<"CLOSE">>
    BY Zenon DEF Farewell
  <2> QED BY <2>1, SaidWord
<1>2. Kept(r, s) /\ s.tun = "Disconnecting" /\ s.notify /= "no"
  <2>1. OpenType(r) /\ s = LetGo(r)
    BY DEF OpenInv, RemoveIf
  <2> QED BY <2>1, LetGoFacts
<1>3. ~Unheard(r)
  BY EstablishedHeard DEF Established
<1>4. op' = [op EXCEPT ![o] = s]
  BY DEF Set
<1> HIDE DEF s
<1>5. s.m = r.m /\ Spoken(r, s, K, Owns(o), FALSE)
  BY <1>2, <1>3 DEF Spoken, Kept, Unheard, Promised, Terminal
<1> HIDE DEF K
<1> QED BY <1>1, <1>4, <1>5, Zenon DEF Speaks

\* handle_resume_request(): one removed without a word had lost the link.
LEMMA ResumeKeeps == ASSUME ServerInv, handle_resume_request PROVE ServerInv'
<1> DEFINE f == Head(due)
<1>1. Table /\ LaneInv /\ ResumeInv /\ WireInv /\ OpensGood /\ wire \in Seq(WireRecord)
  BY DEF ServerInv, OpensInv, WireInv, WireRecord, OpensGood
<1>2. Dispatching("RESUME") /\ UNCHANGED <<lane, slot, holds, man, up>>
  BY DEF handle_resume_request
<1>3. due' \in Seq(Message) /\ f.kind = "RESUME" /\ f \in Undispatched /\ Undispatched' \subseteq Undispatched
  BY <1>1, <1>2, DispatchFacts
<1>4. cl' \in ClientRecord /\ cl'.o \in {cl.o, NoOpen} /\ cl'.resume = cl.resume
  <2>1. cl' = cl \/ cl' = [cl EXCEPT !.o = NoOpen]
    BY DEF handle_resume_request
  <2> QED BY <1>1, <2>1 DEF LaneInv, ClientRecord
<1>5. LaneInv'
  BY <1>1, <1>2, <1>3, <1>4, DispatchLane DEF LaneInv
<1>6. CASE UNCHANGED openVars
  BY <1>2, <1>4, <1>6, FrameIgnored
<1>7. CASE /\ Routed(f) /= {} /\ Set(f.o, RemoveIf(f.o, op[f.o])) /\ Unregister(f.o)
           /\ Tells(f.o, Farewell(op[f.o]))
  <2>0. PICK o \in Opens : o = f.o
    BY <1>7 DEF Routed
  <2>1. Owns(o)
    BY <1>7, <2>0 DEF Routed
  <2>2. HomeCut(o)
    BY <1>1, <1>3, <2>0 DEF ResumeInv, Resuming, Dispatched, Stale
  <2>3. Set(o, RemoveIf(o, op[o])) /\ Unregister(o) /\ Tells(o, Farewell(op[o]))
    BY <1>7, <2>0
  <2> HIDE DEF f
  <2>4. OpenInv(op[o], Owns(o))
    BY <1>1, <2>1 DEF OpensGood
  <2>5. Moved(o, RemoveIf(o, op[o]))
    BY <2>3, <2>4, GapMoves
  <2>6. CASE op[o].tun = "Connected"
    BY <1>1, <1>2, <1>3, <1>4, <1>5, <2>1, <2>3, <2>4, <2>5, <2>6, GapSpeaks, SpeaksStep
  <2>7. CASE op[o].tun /= "Connected"
    <3> DEFINE s == RemoveIf(o, op[o])
    <3>1. s = ForceClose(op[o]) /\ s.m = op[o].m
      BY <2>1, <2>5, <2>7 DEF RemoveIf, LetGo, Moved
    <3>2. op' = [op EXCEPT ![o] = s]
      BY <2>3 DEF Set
    <3> HIDE DEF s
    <3>3. /\ op'[o] = s /\ Owns(o)' = FALSE
          /\ \A p \in Opens \ {o} : op'[p] = op[p] /\ Owns(p)' = Owns(p)
      BY <1>1, <1>2, <2>1, <2>3, <3>1, <3>2, OwnsAfter
    <3>4. wire' = wire
      <4>1. Farewell(op[o]) = <<>>
        BY <2>7, Zenon DEF Farewell
      <4>2. Frames(o, <<>>) = <<>>
        BY DEF Frames
      <4>3. wire \o <<>> = wire
        BY <1>1, ConcatEmptySeq
      <4> QED BY <2>3, <4>1, <4>2, <4>3, Zenon DEF Tells
    <3>5. DownPosted => DownPosted'
      BY <1>2 DEF DownPosted, DownBehind, Task
    <3>6. CutStays
      BY <1>1, <1>2, <3>5, UnchangedMen, SameMenFacts
    <3>7. HomeCut(o)'
      BY <1>1, <2>1, <2>2, <3>1, <3>3, <3>6, HomesStayCut
    <3>8. op[o].m \in Managers => Cut(op[o].m)'
      BY <3>1, <3>3, <3>7 DEF HomeCut
    <3>9. WireInv'
      BY <1>1, <3>1, <3>3, <3>4, <3>6, <3>8, SpeechStays
    <3> QED BY <1>2, <1>3, <1>4, <1>5, <2>1, <2>5, <3>9, MovedStep
  <2> QED BY <2>6, <2>7
<1> QED BY <1>6, <1>7 DEF handle_resume_request

\* What the friend knows of an OPEN that was just refused or accepted.
LEMMA OpenedHeard ==
  ASSUME Table, OpensGood, WireInv, NEW o \in Opens, NEW s, Opened(o, s), UNCHANGED <<man, lane>>,
         NEW K \in {{}, {"ERROR"}}, Said(o, K, up),
         s.gate = "none", s.at \notin {"sending", "verdict"}, s.notify = "no", s.posts = {},
         s.phase \in {"Resolving", "Resolved"}, K = {"ERROR"} => s.phase = "Resolved",
         s.phase = "Resolved" => Heard(o)'
  PROVE  WireInv'
<1>1. Table' /\ OpensGood' /\ \A p \in Opens \ {o} : op'[p] = op[p] /\ Owns(p)' = Owns(p)
  BY OpenedKeeps
<1>2. op'[o] = s
  BY DEF Opened, Table
<1>3. wire \in Seq(WireRecord) /\ InOrder /\ Speech(o)
  BY DEF WireInv, WireRecord, InOrder
<1>4. \A k \in Words : ~Told(o, k)
  BY <1>3 DEF Opened, Speech, Unheard, OpensGood, OpenInv, Stage
<1>5. /\ \A p \in Opens \ {o}, k \in Words : Told(p, k)' = Told(p, k)
      /\ \A k \in Words : Told(o, k)' => k \in K
      /\ InOrder' /\ K \in SUBSET Words
  <2>1. K \in SUBSET Words
    BY DEF Words
  <2> QED BY <1>3, <1>4, <2>1, SaidTold
<1>6. "ACK" \in Words /\ "ERROR" \in Words /\ "CLOSE" \in Words
  BY DEF Words
<1>7. \A g : Cut(g)' = Cut(g)
  BY DEF Cut, DownPosted, DownBehind, Task
<1>8. ASSUME NEW p \in Opens \ {o} PROVE Speech(p)'
  <2>1. op'[p] = op[p] /\ Owns(p)' = Owns(p) /\ \A k \in Words : Told(p, k)' = Told(p, k)
    BY <1>1, <1>5
  <2>2. Speech(p)
    BY DEF WireInv
  <2>3. Heard(p) => Heard(p)'
    BY <1>6, <1>7, <2>1 DEF Heard
  <2> QED BY <1>6, <2>1, <2>2, <2>3 DEF Speech
<1>9. Speech(o)'
  <2>1. OpenInv(s, Owns(o)') /\ Owns(o)' \in BOOLEAN
    BY <1>1, <1>2 DEF OpensGood, Owns, Alive
  <2>2. (s.phase = "Resolved" <=> ~Owns(o)')
    BY <2>1 DEF OpenInv, Ending
  <2>3. ~Promised(s) /\ (Unheard(s) => s.phase = "Resolving")
    BY DEF Promised, Unheard
  <2>4. ~Told(o, "ACK")' /\ (s.phase = "Resolving" => \A k \in Words : ~Told(o, k)')
    BY <1>5, <1>6
  <2>5. Told(o, "ERROR")' => s.phase = "Resolved"
    BY <1>5, <1>6
  <2> QED BY <1>2, <2>2, <2>3, <2>4, <2>5 DEF Speech
<1>10. wire' \in Seq(WireRecord)
  BY DEF Said
<1> QED BY <1>5, <1>8, <1>9, <1>10 DEF WireInv, InOrder, WireRecord

\* A refusal that no manager carries.
LEMMA UnservedOpen ==
  [Fresh EXCEPT !.phase = "Resolved", !.denied = 1] = [Fresh EXCEPT !.phase = "Resolved", !.m = 0, !.denied = 1]
<1> DEFINE a == [Fresh EXCEPT !.phase = "Resolved", !.denied = 1]
           b == [Fresh EXCEPT !.phase = "Resolved", !.m = 0, !.denied = 1]
<1>1. DOMAIN Fresh = Fields /\ Fresh = [x \in Fields |-> Fresh[x]] /\ Fresh.m = 0
  BY DEF Fresh, Fields
<1>2. a = [x \in Fields |-> a[x]] /\ b = [x \in Fields |-> b[x]]
  BY <1>1
<1>3. \A x \in Fields : a[x] = b[x]
  BY <1>1
<1> HIDE DEF a, b
<1>4. a = b
  BY <1>2, <1>3
<1> QED BY <1>4 DEF a, b

\* handle_tunnel_open().
LEMMA AcceptKeeps == ASSUME ServerInv, NEW v, handle_tunnel_open(v) PROVE ServerInv'
<1>1. /\ Table /\ LaneInv /\ OneManager /\ BrokenLink /\ ResumeInv /\ WireInv /\ OpensGood
      /\ wire \in Seq(WireRecord)
  BY DEF ServerInv, OpensInv, LinkInv, WireInv, WireRecord, OpensGood
<1>2. Dispatching("OPEN") /\ UNCHANGED <<lane, slot, holds, cl, man, up>>
  BY DEF handle_tunnel_open
<1>3. due' \in Seq(Message) /\ Head(due) \in Message /\ Head(due).kind = "OPEN"
      /\ Head(due) \in Undispatched /\ Undispatched' \subseteq Undispatched
  BY <1>1, <1>2, DispatchFacts
<1>4. PICK o \in Opens : o = Head(due).o
  BY <1>3 DEF Message
<1>5. op[o].phase = "None"
  BY <1>4 DEF handle_tunnel_open
<1>6. LaneInv'
  BY <1>1, <1>2, <1>3, DispatchLane DEF LaneInv
<1>7. SameMen /\ (DownPosted => DownPosted') /\ \A g : Cut(g)' = Cut(g)
  BY <1>1, <1>2, UnchangedMen DEF DownPosted, DownBehind, Task, Cut
<1>8. CurrentMgr' = CurrentMgr /\ OneManager' /\ CutStays
  BY <1>1, <1>7, SameMenFacts
<1>9. ASSUME NEW s, Opened(o, s), WireInv' PROVE ServerInv'
  <2>1. Table' /\ OpensGood' /\ \A p \in Opens \ {o} : op'[p] = op[p]
    BY <1>1, <1>2, <1>9, OpenedKeeps
  <2>2. Dispatched("OPEN", o)
    BY <1>3, <1>4 DEF Dispatched
  <2>3. \A p \in Opens : op'[p].m = op[p].m \/ Dispatched("OPEN", p)
    BY <2>1, <2>2
  <2>4. BrokenLink' /\ ResumeInv'
    BY <1>1, <1>2, <1>3, <1>8, <2>3, DispatchKeeps
  <2> QED BY <1>6, <1>8, <1>9, <2>1, <2>4 DEF ServerInv, OpensInv, OpensGood, LinkInv
<1>10. ASSUME NEW g \in CurrentMgr \cup {0}, g \in CurrentMgr \/ CurrentMgr = {}, NEW n \in {0, 1},
              Set(o, [Fresh EXCEPT !.phase = "Resolved", !.m = g, !.denied = n]), reg' = reg,
              g \notin Managers => wire' = wire, g \in Managers => Sends(o, <<"ERROR">>, up)
       PROVE  ServerInv'
  <2> DEFINE s == [Fresh EXCEPT !.phase = "Resolved", !.m = g, !.denied = n]
  <2>0. g \in Managers \cup {0} /\ (g \in Managers => g \in CurrentMgr)
    BY <1>10, OpenAssumption DEF CurrentMgr
  <2>1. OpenInv(s, FALSE)
    BY <2>0, RefusedOpen
  <2>2. s.phase = "Resolved" /\ s.m = g /\ s.gate = "none" /\ s.at = "idle" /\ s.notify = "no" /\ s.posts = {}
    BY DEF Fresh
  <2>3. op' = [op EXCEPT ![o] = s]
    BY <1>10 DEF Set
  <2> HIDE DEF s
  <2>4. Opened(o, s)
    BY <1>5, <1>10, <2>0, <2>1, <2>2, <2>3 DEF Opened
  <2>5. op'[o] = s
    BY <1>1, <2>3 DEF Table
  <2>6. CASE g \in Managers
    <3>1. Said(o, {"ERROR"}, up) /\ "ERROR" \in Words
      BY <1>1, <1>10, <2>6, SaidOne DEF Words
    <3>2. up => Told(o, "ERROR")'
      <4>1. {"ERROR"} \in SUBSET Words
        BY <3>1
      <4> QED BY <1>1, <3>1, <4>1, SaidTold
    <3>3. ~up => DownPosted'
      BY <1>1, <1>7, <2>0, <2>6 DEF BrokenLink
    <3>4. Heard(o)'
      BY <3>2, <3>3 DEF Heard, Cut
    <3>5. WireInv'
      BY <1>1, <1>2, <2>2, <2>4, <3>1, <3>4, OpenedHeard
    <3> QED BY <1>9, <2>4, <3>5
  <2>7. CASE g \notin Managers
    <3>1. Said(o, {}, up)
      BY <1>1, <1>10, <2>7, SaidNothing
    <3>2. Heard(o)'
      BY <2>2, <2>5, <2>7 DEF Heard
    <3>3. WireInv'
      BY <1>1, <1>2, <2>2, <2>4, <3>1, <3>2, OpenedHeard
    <3> QED BY <1>9, <2>4, <3>3
  <2> QED BY <2>6, <2>7
<1>11. ASSUME NEW g \in CurrentMgr,
              Set(o, [Fresh EXCEPT !.phase = "Resolving", !.m = g, !.at = "resolving"]),
              reg' = [reg EXCEPT ![g] = @ \cup {o}], UNCHANGED wire
       PROVE  ServerInv'
  <2> DEFINE s == [Fresh EXCEPT !.phase = "Resolving", !.m = g, !.at = "resolving"]
  <2>0. g \in Managers
    BY DEF CurrentMgr
  <2>1. OpenInv(s, TRUE)
    BY <2>0, AcceptedOpen
  <2>2. s.phase = "Resolving" /\ s.m = g /\ s.gate = "none" /\ s.at = "resolving" /\ s.notify = "no" /\ s.posts = {}
    BY DEF Fresh
  <2>3. op' = [op EXCEPT ![o] = s]
    BY <1>11 DEF Set
  <2> HIDE DEF s
  <2>4. Opened(o, s)
    BY <1>5, <1>11, <2>0, <2>1, <2>2, <2>3 DEF Opened
  <2>5. Said(o, {}, up)
    BY <1>1, <1>11, SaidNothing
  <2>6. WireInv'
    BY <1>1, <1>2, <2>2, <2>4, <2>5, OpenedHeard
  <2> QED BY <1>9, <2>4, <2>6
<1>12. CASE CurrentMgr = {}
  <2>1. Set(o, [Fresh EXCEPT !.phase = "Resolved", !.denied = 1]) /\ UNCHANGED <<reg, wire>>
    BY <1>4, <1>12 DEF handle_tunnel_open
  <2>2. [Fresh EXCEPT !.phase = "Resolved", !.denied = 1] = [Fresh EXCEPT !.phase = "Resolved", !.m = 0, !.denied = 1]
    BY UnservedOpen
  <2>3. 0 \notin Managers
    BY OpenAssumption
  <2> QED BY <1>10, <1>12, <2>1, <2>2, <2>3
<1>13. ASSUME NEW g \in CurrentMgr, AcceptOpen(o, g, v) PROVE ServerInv'
  <2> DEFINE n == IF v = "denied" THEN 1 ELSE 0
  <2>1. CASE v = "denied" \/ \E p \in reg[g] : IdOf(p) = IdOf(o)
    <3>1. /\ Set(o, [Fresh EXCEPT !.phase = "Resolved", !.m = g, !.denied = n])
          /\ Sends(o, <<"ERROR">>, up) /\ reg' = reg /\ n \in {0, 1}
      BY <1>13, <2>1 DEF AcceptOpen, Sends
    <3> HIDE DEF n
    <3> QED BY <1>10, <3>1 DEF CurrentMgr
  <2>2. CASE ~(v = "denied" \/ \E p \in reg[g] : IdOf(p) = IdOf(o))
    BY <1>11, <1>13, <2>2 DEF AcceptOpen
  <2> QED BY <2>1, <2>2
<1> QED BY <1>4, <1>12, <1>13 DEF handle_tunnel_open

\* The server starts with nothing.
LEMMA ServerStarts == ASSUME Init PROVE ServerInv
<1>1. /\ op = [o \in Opens |-> Fresh] /\ reg = [g \in Managers |-> {}] /\ wire = <<>> /\ up = FALSE
      /\ man = [g \in Managers |-> [st |-> "unused", dead |-> FALSE, hold |-> 0]]
      /\ lane = <<>> /\ due = <<>> /\ slot = [on |-> FALSE, backlog |-> <<>>, armed |-> FALSE]
      /\ holds = [n |-> 0, pending |-> {}, expired |-> {}]
      /\ cl = [o |-> NoOpen, sent |-> 0, resume |-> FALSE, judged |-> {}]
  BY DEF Init, OpenInit, FriendsInit
<1>2. \A o \in Opens : op[o] = Fresh /\ Owns(o) = FALSE /\ op[o].m \notin Managers
  BY <1>1, OpenAssumption DEF Fresh, Owns, Alive
<1>3. Table
  BY <1>1, <1>2 DEF Table, ManRecord
<1>4. LaneInv
  <2>1. <<>> \in Seq(Message) /\ 1 .. Len(<<>>) = {}
    OBVIOUS
  <2> QED BY <1>1, <2>1 DEF LaneInv, SlotRecord, HoldRecord, ClientRecord
<1>5. \A o \in Opens : OpenInv(op[o], Owns(o))
  BY <1>2, FreshOpen
<1>6. CurrentMgr = {} /\ OneManager /\ Undispatched = {}
  BY <1>1 DEF CurrentMgr, OneManager, Undispatched, ToSet
<1>7. BrokenLink
  BY <1>1, <1>6 DEF BrokenLink
<1>8. ResumeInv
  BY <1>1, <1>6, OpenAssumption DEF ResumeInv, Resuming, Dispatched
<1>9. \A o \in Opens, k \in Words : ~Told(o, k)
  BY <1>1 DEF Told, ToSet
<1>10. WireInv
  <2>1. wire \in Seq([o : Opens, kind : Words])
    BY <1>1
  <2>2. \A o \in Opens : Speech(o)
    BY <1>2, <1>9 DEF Speech, Fresh, Promised, Words
  <2> QED BY <1>1, <2>1, <2>2 DEF WireInv
<1> QED BY <1>3, <1>4, <1>5, <1>6, <1>7, <1>8, <1>10 DEF ServerInv, OpensInv, LinkInv

\* Every step of the server keeps the invariant.
LEMMA ServerSteps == ASSUME ServerInv, Next PROVE ServerInv'
<1>1. CASE Strand
  BY <1>1, EventKeeps, FrameKeeps, RebuildKeeps, AcceptKeeps, RouteDataKeeps, RouteEndKeeps, ResumeKeeps,
     DrainKeeps DEF Strand
<1>2. CASE Outside
  BY <1>2, RetryKeeps, AcceptKeeps, LinkUpKeeps, LinkDownKeeps, VerdictKeeps, ExpiryKeeps, ClientKeeps
     DEF Outside
<1>3. CASE \E o \in Opens : (OpenSteps(o) \/ OpenEvents(o)) /\ UNCHANGED <<friendVars, up>>
  BY <1>3, OpenStepKeeps
<1> QED BY <1>1, <1>2, <1>3 DEF Next

\* So does no step.
LEMMA ServerStutters == ASSUME ServerInv, UNCHANGED vars PROVE ServerInv'
<1>1. UNCHANGED <<op, reg, wire, up, lane, due, slot, holds, cl, man>>
  BY DEF vars, friendVars
<1>2. OpensInv' = OpensInv
  BY <1>1 DEF OpensInv, Table, LaneInv, Owns, Alive
<1>3. LinkInv' = LinkInv
  BY <1>1 DEF LinkInv, OneManager, BrokenLink, DownBehind, DownPosted, CurrentMgr, Undispatched
<1>4. ResumeInv' = ResumeInv
  BY <1>1 DEF ResumeInv, Resuming, Stale, HomeCut, Cut, Dispatched, DownBehind, DownPosted, Undispatched
<1>5. WireInv' = WireInv
  BY <1>1 DEF WireInv, Speech, Heard, Told, Owns, Alive, Cut, DownPosted, DownBehind
<1> QED BY <1>2, <1>3, <1>4, <1>5 DEF ServerInv

\* The inductive invariant of the server: whatever the threads of the OPENs, the
\* strand, the timers, the link and the client do, each OPEN is at a stage of
\* tunnel_server.cpp with the outcome, socket, gauge and announcement it allows.
THEOREM ServerInvariant == Spec => []ServerInv
<1>1. ServerInv /\ [Next]_vars => ServerInv'
  BY ServerSteps, ServerStutters
<1> QED BY <1>1, ServerStarts, PTL DEF Spec

----------------------------------------------------------------------------
(* The properties. *)

\* An OPEN every thread is done with: the gate has resolved, or was never built.
LEMMA QuietFacts ==
  ASSUME NEW r, NEW own \in BOOLEAN, OpenInv(r, own), r.at = "idle", r.posts = {}, ~r.shut, ~r.timer,
         r.notify /= "due"
  PROVE  /\ r.gate \in {"none", "Committed", "Abandoned"}
         /\ r.gate /= "none" => r.ok + r.failed + r.denied = 1
         /\ own => /\ r.gate = "Committed" /\ r.tun \in Established
                   /\ r.sock = "Connected" /\ r.gauge = "Counted"
         /\ ~own => r.sock = "Disconnected" /\ r.gauge /= "Counted"
<1>1. OpenType(r) /\ Stage(r) /\ Outcome(r) /\ Socket(r, own) /\ Ending(r, own)
  BY DEF OpenInv
<1>2. r.gate \in {"none", "Committed", "Abandoned"}
  BY <1>1 DEF OpenType, Stage, Committing
<1>3. r.gate /= "none" => r.ok + r.failed + r.denied = 1
  BY <1>1, <1>2 DEF Outcome, Booked
<1>4. ASSUME own PROVE r.gate = "Committed" /\ r.tun \in Established /\ r.sock = "Connected" /\ r.gauge = "Counted"
  <2>1. r.gate = "Committed"
    BY <1>1, <1>2, <1>4 DEF Stage, Ending
  <2>2. r.notify = "no"
    BY <1>1, <1>4, <2>1 DEF OpenType, Stage, Ending
  <2>3. r.tun \in Established
    BY <1>1, <2>1, <2>2 DEF OpenType, Ending
  <2>4. r.sock = "Connected"
    BY <1>1, <1>4, <2>1, <2>2 DEF Socket
  <2>5. r.gauge = "Counted"
    BY <1>1, <1>4, <2>1, <2>2 DEF OpenType, Ending
  <2> QED BY <2>1, <2>3, <2>4, <2>5
<1>5. ASSUME ~own PROVE r.sock = "Disconnected" /\ r.gauge /= "Counted"
  <2>1. CASE r.gate = "none"
    BY <1>1, <2>1 DEF Stage, Socket, Gone
  <2>2. CASE r.gate /= "none"
    <3>1. r.hooked /\ r.phase = "Handed"
      BY <1>1, <2>2 DEF Stage
    <3>2. r.notify = "done"
      BY <1>1, <1>5, <3>1 DEF OpenType, Ending
    <3>3. r.gauge = "Released" /\ Gone(r)
      BY <1>1, <3>1, <3>2 DEF Ending
    <3> QED BY <3>3 DEF Gone
  <2> QED BY <2>1, <2>2
<1> QED BY <1>2, <1>3, <1>4, <1>5

\* OpensAccounted follows.
LEMMA AccountsFollow == ASSUME ServerInv PROVE OpensAccounted
<1>1. \A o \in Opens : OpenInv(op[o], Owns(o)) /\ Speech(o) /\ Owns(o) \in BOOLEAN
  BY OwnsBool DEF ServerInv, OpensInv, WireInv
<1>2. OneOutcome
  <2> SUFFICES ASSUME NEW o \in Opens
               PROVE  LET n == op[o].ok + op[o].failed + op[o].denied
                      IN  n <= 1 /\ (Quiet(o) /\ Told(o, "ACK") => n = 1)
    BY DEF OneOutcome
  <2>1. op[o].ok + op[o].failed + op[o].denied <= 1
    BY <1>1 DEF OpenInv, Outcome
  <2>2. Quiet(o) /\ Told(o, "ACK") => op[o].ok + op[o].failed + op[o].denied = 1
    BY <1>1, QuietFacts DEF Quiet, Speech
  <2> QED BY <2>1, <2>2
<1>3. NothingLeaks
  <2> SUFFICES ASSUME NEW o \in Opens, Quiet(o)
               PROVE  IF Owns(o)
                      THEN op[o].tun \in Established /\ op[o].sock = "Connected" /\ op[o].gauge = "Counted"
                      ELSE op[o].sock = "Disconnected" /\ op[o].gauge /= "Counted"
    BY DEF NothingLeaks
  <2> QED BY <1>1, QuietFacts DEF Quiet
<1> QED BY <1>2, <1>3 DEF OpensAccounted

\* ClientTold follows.
LEMMA ToldFollows == ASSUME ServerInv PROVE ClientTold
<1>1. WireInv /\ LaneInv /\ \A o \in Opens : OpenInv(op[o], Owns(o)) /\ Speech(o) /\ Owns(o) \in BOOLEAN
  BY OwnsBool DEF ServerInv, OpensInv, WireInv
<1>2. ASSUME NEW o \in Opens, Quiet(o), ~op[o].byPeer, op[o].m \in Managers,
             man[op[o].m].st = "current", man[op[o].m].hold = 0, Task("down") \notin ToSet(lane)
      PROVE  IF Owns(o) THEN Told(o, "ACK") /\ ~Told(o, "ERROR")
             ELSE Told(o, "ERROR") \/ Told(o, "CLOSE")
  <2>1. ~DownPosted
    <3>1. \A j \in 1 .. Len(lane) : lane[j] \in ToSet(lane)
      BY <1>1 DEF ToSet, LaneInv
    <3> QED BY <1>2, <3>1 DEF DownPosted, DownBehind
  <2>2. ~Cut(op[o].m)
    BY <1>2, <2>1 DEF Cut
  <2>3. CASE Owns(o)
    <3>1. op[o].gate = "Committed" /\ op[o].tun \in Established
      BY <1>1, <1>2, <2>3, QuietFacts DEF Quiet
    <3>2. Promised(op[o]) /\ op[o].tun \notin Terminal
      BY <3>1 DEF Promised, Established, Terminal
    <3> QED BY <1>1, <2>3, <3>2 DEF Speech
  <2>4. CASE ~Owns(o)
    <3>1. Heard(o)
      BY <1>1, <1>2, <2>4 DEF Quiet, Speech
    <3> QED BY <1>2, <2>2, <2>4, <3>1 DEF Heard
  <2> QED BY <2>3, <2>4
<1> QED BY <1>1, <1>2 DEF ClientTold, WireInv

\* Only the prune handler ends a held manager, and only after its own timer.
LEMMA PruneAlone ==
  ASSUME ServerInv, Next, NEW g \in Managers, man[g].st = "held", man'[g].st = "gone"
  PROVE  man[g].hold \in holds.expired
<1>1. Table /\ LaneInv /\ OneManager /\ holds \in HoldRecord /\ holds.n \in Nat
  BY DEF ServerInv, OpensInv, LinkInv, LaneInv, HoldRecord
<1>2. ~ManStep /\ ~UNCHANGED man
  BY DEF ManStep
<1>3. ~Teardown
  <2> SUFFICES ASSUME Teardown PROVE FALSE
    OBVIOUS
  <2>1. PICK h \in CurrentMgr : Ends(h)
    BY <1>1, <1>2, TeardownFacts
  <2>2. h \in Managers /\ h /= g
    BY DEF CurrentMgr
  <2> QED BY <1>1, <2>1, <2>2 DEF Ends, Table
<1>4. ~SetupManager
  BY <1>1, <1>2, SetupFacts
<1>5. RunEvent \/ RunFrame \/ \E h \in Managers : KeepaliveVerdict(h)
  BY <1>2, <1>4 DEF Next, Strand, Outside, Rebuild, handle_tunnel_open, RouteData, RouteEnd,
     handle_resume_request, RunRetry, RetryFires, LinkUp, LinkDown, HoldExpires, ClientSends, friendVars
<1>6. CASE RunFrame
  BY <1>1, <1>6 DEF RunFrame, Table
<1>7. ASSUME NEW h \in Managers, KeepaliveVerdict(h) PROVE FALSE
  BY <1>1, <1>7 DEF KeepaliveVerdict, Table, ManRecord
<1>8. CASE RunEvent
  <2>1. lane /= <<>> /\ Head(lane).kind = "prune" /\ Prune(Head(lane).n)
    BY <1>2, <1>3, <1>4, <1>8 DEF RunEvent, Next1
  <2>2. PICK h \in HeldMgr : man[h].hold = Head(lane).n /\ Ends(h)
    BY <1>2, <2>1, PruneFacts
  <2>3. h = g
    BY <1>1, <2>2 DEF Ends, Table, HeldMgr
  <2>4. 1 \in 1 .. Len(lane) /\ lane[1] = Head(lane)
    BY <1>1, <2>1 DEF LaneInv
  <2> QED BY <1>1, <2>1, <2>2, <2>3, <2>4 DEF LaneInv
<1> QED BY <1>5, <1>6, <1>7, <1>8

\* From handle_tunnel_open() to the end of the tunnel, for any OPENs, managers and
\* scenarios: an OPEN is booked at most once, exactly once when its ACK went out,
\* and when every thread is done it left no socket, gauge or registration behind.
THEOREM OpensAccountedHolds == Spec => []OpensAccounted
BY ServerInvariant, AccountsFollow, PTL

\* The OPEN_ACK gate, fail_prewire() and the cleanups: no ACK follows the ERROR or
\* CLOSE of the same OPEN, and a friend whose manager was there all along holds an
\* ACK for a living tunnel and an ERROR or CLOSE for one the server ended.
THEOREM ClientToldHolds == Spec => []ClientTold
BY ServerInvariant, ToldFollows, PTL

\* The prune handler of teardown_tunnel_manager(): a held manager is closed only
\* after the timer of its own hold has fired.
THEOREM NoEarlyPruneHolds == Spec => NoEarlyPrune
<1>1. ASSUME ServerInv, [Next]_vars
      PROVE  [\A g \in Managers : man[g].st = "held" /\ man'[g].st = "gone"
                => man[g].hold \in holds.expired]_vars
  BY <1>1, PruneAlone
<1> QED BY <1>1, ServerInvariant, PTL DEF Spec, NoEarlyPrune

----------------------------------------------------------------------------
(* What a tunnel takes of its stream: queues. *)

\* Entries that do not matter change nothing: the frames of one tunnel.
LEMMA ThinStream ==
  ASSUME NEW q, NEW p, NEW m, Thins(q, p, m), NEW o
  PROVE  /\ Chained(q, o) <=> Chained(p, o)
         /\ Rising(q, o) <=> Rising(p, o)
         /\ Resumed(q, o) <=> Resumed(p, o)
         /\ Numbered(q) <=> Numbered(p)
<1>1. \A i \in DOMAIN p : m[i] \in DOMAIN q /\ (Of(p, o, i) <=> Of(q, o, m[i]))
  BY DEF Thins, Of
<1>2. \A j \in DOMAIN q : q[j].kind \in Marks => \E i \in DOMAIN p : m[i] = j /\ p[i] = q[j]
  BY DEF Thins
<1>3. \A j \in DOMAIN q : Of(q, o, j) => q[j].kind \in Marks
  BY DEF Of, Marks
<1>4. Chained(q, o) => Chained(p, o)
  <2> SUFFICES ASSUME Chained(q, o), NEW i \in DOMAIN p, NEW j \in DOMAIN p, i < j,
                      Of(p, o, i), Of(p, o, j), p[j].kind = "DATA",
                      \A k \in DOMAIN p : i < k /\ k < j => ~Of(p, o, k)
               PROVE  p[j].n = p[i].n + 1
    BY DEF Chained
  <2>1. m[i] \in DOMAIN q /\ m[j] \in DOMAIN q /\ m[i] < m[j] /\ Of(q, o, m[i]) /\ Of(q, o, m[j])
        /\ q[m[j]].kind = "DATA"
    BY <1>1 DEF Thins
  <2>2. ASSUME NEW k \in DOMAIN q, m[i] < k, k < m[j], Of(q, o, k) PROVE FALSE
    <3>1. PICK c \in DOMAIN p : m[c] = k
      BY <1>2, <1>3, <2>2
    <3> QED BY <1>1, <2>2, <3>1 DEF Thins
  <2> QED BY <2>1, <2>2 DEF Chained, Thins
<1>5. Chained(p, o) => Chained(q, o)
  <2> SUFFICES ASSUME Chained(p, o), NEW i \in DOMAIN q, NEW j \in DOMAIN q, i < j,
                      Of(q, o, i), Of(q, o, j), q[j].kind = "DATA",
                      \A k \in DOMAIN q : i < k /\ k < j => ~Of(q, o, k)
               PROVE  q[j].n = q[i].n + 1
    BY DEF Chained
  <2>1. PICK a \in DOMAIN p : m[a] = i /\ p[a] = q[i]
    BY <1>2, <1>3
  <2>2. PICK b \in DOMAIN p : m[b] = j /\ p[b] = q[j]
    BY <1>2, <1>3
  <2>3. a < b /\ Of(p, o, a) /\ Of(p, o, b)
    BY <1>1, <2>1, <2>2 DEF Thins
  <2>4. \A k \in DOMAIN p : a < k /\ k < b => ~Of(p, o, k)
    BY <1>1, <2>1, <2>2 DEF Thins
  <2> QED BY <2>1, <2>2, <2>3, <2>4 DEF Chained
<1>6. Rising(q, o) => Rising(p, o)
  BY <1>1 DEF Rising, Thins
<1>7. Rising(p, o) => Rising(q, o)
  <2> SUFFICES ASSUME Rising(p, o), NEW i \in DOMAIN q, NEW j \in DOMAIN q, i < j, Of(q, o, i), Of(q, o, j)
               PROVE  q[i].n <= q[j].n /\ (q[j].kind = "DATA" => q[i].n < q[j].n)
    BY DEF Rising
  <2>1. PICK a \in DOMAIN p : m[a] = i /\ p[a] = q[i]
    BY <1>2, <1>3
  <2>2. PICK b \in DOMAIN p : m[b] = j /\ p[b] = q[j]
    BY <1>2, <1>3
  <2>3. a < b /\ Of(p, o, a) /\ Of(p, o, b)
    BY <1>1, <2>1, <2>2 DEF Thins
  <2> QED BY <2>1, <2>2, <2>3 DEF Rising
<1>8. Resumed(q, o) => Resumed(p, o)
  <2> SUFFICES ASSUME Resumed(q, o), NEW i \in DOMAIN p, NEW j \in DOMAIN p, i < j,
                      p[i].kind = "down", Of(p, o, j), p[j].kind = "DATA"
               PROVE  \E k \in DOMAIN p : i < k /\ k < j /\ Of(p, o, k) /\ p[k].kind /= "DATA"
    BY DEF Resumed
  <2>1. PICK k \in DOMAIN q : m[i] < k /\ k < m[j] /\ Of(q, o, k) /\ q[k].kind /= "DATA"
    BY <1>1 DEF Thins, Resumed
  <2>2. PICK c \in DOMAIN p : m[c] = k /\ p[c] = q[k]
    BY <1>2, <1>3, <2>1
  <2> QED BY <1>1, <2>1, <2>2 DEF Thins
<1>9. Resumed(p, o) => Resumed(q, o)
  <2> SUFFICES ASSUME Resumed(p, o), NEW i \in DOMAIN q, NEW j \in DOMAIN q, i < j,
                      q[i].kind = "down", Of(q, o, j), q[j].kind = "DATA"
               PROVE  \E k \in DOMAIN q : i < k /\ k < j /\ Of(q, o, k) /\ q[k].kind /= "DATA"
    BY DEF Resumed
  <2>1. PICK a \in DOMAIN p : m[a] = i /\ p[a] = q[i]
    BY <1>2 DEF Marks
  <2>2. PICK b \in DOMAIN p : m[b] = j /\ p[b] = q[j]
    BY <1>2, <1>3
  <2>3. a < b /\ Of(p, o, b)
    BY <1>1, <2>1, <2>2 DEF Thins
  <2>4. PICK k \in DOMAIN p : a < k /\ k < b /\ Of(p, o, k) /\ p[k].kind /= "DATA"
    BY <2>1, <2>2, <2>3 DEF Resumed
  <2>5. m[k] \in DOMAIN q /\ i < m[k] /\ m[k] < j /\ Of(q, o, m[k]) /\ q[m[k]].kind /= "DATA"
    BY <1>1, <2>1, <2>2, <2>4 DEF Thins
  <2> QED BY <2>5
<1>10. Numbered(q) <=> Numbered(p)
  <2>1. \A i \in DOMAIN p : m[i] \in DOMAIN q /\ p[i] = q[m[i]]
    BY DEF Thins
  <2> QED BY <1>2, <2>1 DEF Numbered, Marks, StreamKinds
<1> QED BY <1>4, <1>5, <1>6, <1>7, <1>8, <1>9, <1>10

\* The same for the link.
LEMMA ThinLink ==
  ASSUME NEW q, NEW p, NEW m, Thins(q, p, m), UpsStay(q, p, m)
  PROVE  /\ Lifted(q) <=> Lifted(p)
         /\ Waits(q) <=> Waits(p)
<1>1. \A i \in DOMAIN p : m[i] \in DOMAIN q /\ p[i] = q[m[i]]
  BY DEF Thins
<1>2. \A j \in DOMAIN q : q[j].kind \in Marks \cup {"up"} => \E i \in DOMAIN p : m[i] = j /\ p[i] = q[j]
  BY DEF Thins, UpsStay
<1>3. Lifted(q) => Lifted(p)
  <2> SUFFICES ASSUME Lifted(q), NEW i \in DOMAIN p, NEW j \in DOMAIN p, i < j,
                      p[i].kind = "down", p[j].kind \in StreamKinds
               PROVE  \E k \in DOMAIN p : i < k /\ k < j /\ p[k].kind = "up"
    BY DEF Lifted
  <2>1. PICK k \in DOMAIN q : m[i] < k /\ k < m[j] /\ q[k].kind = "up"
    BY <1>1 DEF Thins, Lifted
  <2>2. PICK c \in DOMAIN p : m[c] = k /\ p[c] = q[k]
    BY <1>2, <2>1 DEF Marks
  <2> QED BY <2>1, <2>2 DEF Thins
<1>4. Lifted(p) => Lifted(q)
  <2> SUFFICES ASSUME Lifted(p), NEW i \in DOMAIN q, NEW j \in DOMAIN q, i < j,
                      q[i].kind = "down", q[j].kind \in StreamKinds
               PROVE  \E k \in DOMAIN q : i < k /\ k < j /\ q[k].kind = "up"
    BY DEF Lifted
  <2>1. PICK a \in DOMAIN p : m[a] = i /\ p[a] = q[i]
    BY <1>2 DEF Marks
  <2>2. PICK b \in DOMAIN p : m[b] = j /\ p[b] = q[j]
    BY <1>2 DEF Marks
  <2>3. a < b
    BY <2>1, <2>2 DEF Thins
  <2>4. PICK k \in DOMAIN p : a < k /\ k < b /\ p[k].kind = "up"
    BY <2>1, <2>2, <2>3 DEF Lifted
  <2>5. m[k] \in DOMAIN q /\ i < m[k] /\ m[k] < j /\ q[m[k]].kind = "up"
    BY <1>1, <2>1, <2>2, <2>4 DEF Thins
  <2> QED BY <2>5
<1>6. Waits(q) => Waits(p)
  <2> SUFFICES ASSUME Waits(q), NEW j \in DOMAIN p, p[j].kind \in StreamKinds
               PROVE  \E k \in DOMAIN p : k < j /\ p[k].kind = "up"
    BY DEF Waits
  <2>1. PICK k \in DOMAIN q : k < m[j] /\ q[k].kind = "up"
    BY <1>1 DEF Waits
  <2>2. PICK c \in DOMAIN p : m[c] = k /\ p[c] = q[k]
    BY <1>2, <2>1 DEF Marks
  <2> QED BY <2>1, <2>2 DEF Thins
<1>7. Waits(p) => Waits(q)
  <2> SUFFICES ASSUME Waits(p), NEW j \in DOMAIN q, q[j].kind \in StreamKinds
               PROVE  \E k \in DOMAIN q : k < j /\ q[k].kind = "up"
    BY DEF Waits
  <2>1. PICK b \in DOMAIN p : m[b] = j /\ p[b] = q[j]
    BY <1>2 DEF Marks
  <2>2. PICK k \in DOMAIN p : k < b /\ p[k].kind = "up"
    BY <2>1 DEF Waits
  <2>3. m[k] \in DOMAIN q /\ m[k] < j /\ q[m[k]].kind = "up"
    BY <1>1, <2>1, <2>2 DEF Thins
  <2> QED BY <2>3
<1> QED BY <1>3, <1>4, <1>6, <1>7

\* What a tunnel has taken so far.
LEMMA ThinTaken ==
  ASSUME NEW q, NEW p, NEW m, Thins(q, p, m), NEW o
  PROVE  /\ \A s : Above(q, o, s) <=> Above(p, o, s)
         /\ \A n : Begins(q, o, n) <=> Begins(p, o, n)
<1>1. \A i \in DOMAIN p : m[i] \in DOMAIN q /\ p[i] = q[m[i]] /\ (Of(p, o, i) <=> Of(q, o, m[i]))
  BY DEF Thins, Of
<1>2. \A j \in DOMAIN q : Of(q, o, j) => \E i \in DOMAIN p : m[i] = j /\ p[i] = q[j] /\ Of(p, o, i)
  BY <1>1 DEF Thins, Of, Marks
<1>3. ASSUME NEW s PROVE Above(q, o, s) <=> Above(p, o, s)
  BY <1>1, <1>2 DEF Above
<1>4. ASSUME NEW n, Begins(q, o, n) PROVE Begins(p, o, n)
  <2> SUFFICES ASSUME NEW j \in DOMAIN p, Of(p, o, j), p[j].kind = "DATA",
                      \A k \in DOMAIN p : k < j => ~Of(p, o, k)
               PROVE  p[j].n = n
    BY DEF Begins
  <2>1. \A k \in DOMAIN q : k < m[j] => ~Of(q, o, k)
    BY <1>1, <1>2 DEF Thins
  <2> QED BY <1>1, <1>4, <2>1 DEF Begins
<1>5. ASSUME NEW n, Begins(p, o, n) PROVE Begins(q, o, n)
  <2> SUFFICES ASSUME NEW j \in DOMAIN q, Of(q, o, j), q[j].kind = "DATA",
                      \A k \in DOMAIN q : k < j => ~Of(q, o, k)
               PROVE  q[j].n = n
    BY DEF Begins
  <2>1. PICK b \in DOMAIN p : m[b] = j /\ p[b] = q[j] /\ Of(p, o, b)
    BY <1>2
  <2>2. \A k \in DOMAIN p : k < b => ~Of(p, o, k)
    BY <1>1, <2>1 DEF Thins
  <2> QED BY <1>5, <2>1, <2>2 DEF Begins
<1> QED BY <1>3, <1>4, <1>5

\* One entry between two parts of a queue is left out.
LEMMA LeftOut ==
  ASSUME NEW S, NEW a \in Seq(S), NEW b \in Seq(S), NEW t \in S, t.kind \notin Marks
  PROVE  \E m : /\ Thins(a \o (<<t>> \o b), a \o b, m)
                /\ t.kind /= "up" => UpsStay(a \o (<<t>> \o b), a \o b, m)
<1> DEFINE q == a \o (<<t>> \o b)
           p == a \o b
           m == [i \in DOMAIN p |-> IF i <= Len(a) THEN i ELSE i + 1]
<1>1. <<t>> \in Seq(S) /\ Len(<<t>>) = 1 /\ <<t>>[1] = t
  OBVIOUS
<1>2. /\ <<t>> \o b \in Seq(S) /\ Len(<<t>> \o b) = 1 + Len(b)
      /\ \A i \in 1 .. 1 + Len(b) : (<<t>> \o b)[i] = IF i <= 1 THEN t ELSE b[i - 1]
  BY <1>1, ConcatProperties
<1>3. /\ p \in Seq(S) /\ Len(p) = Len(a) + Len(b)
      /\ \A i \in 1 .. Len(a) + Len(b) : p[i] = IF i <= Len(a) THEN a[i] ELSE b[i - Len(a)]
  BY ConcatProperties
<1>4. /\ q \in Seq(S) /\ Len(q) = Len(a) + (1 + Len(b))
      /\ \A i \in 1 .. Len(a) + (1 + Len(b)) : q[i] = IF i <= Len(a) THEN a[i] ELSE (<<t>> \o b)[i - Len(a)]
  BY <1>2, ConcatProperties
<1>5. /\ Len(a) \in Nat /\ Len(b) \in Nat /\ DOMAIN p = 1 .. Len(a) + Len(b)
      /\ DOMAIN q = 1 .. Len(a) + (1 + Len(b))
  BY <1>3, <1>4, LenProperties
<1> HIDE DEF p, q
<1>6. q[Len(a) + 1] = t
  BY <1>2, <1>4, <1>5
<1>7. \A i \in DOMAIN p : m[i] \in DOMAIN q /\ p[i] = q[m[i]]
  <2> SUFFICES ASSUME NEW i \in DOMAIN p PROVE m[i] \in DOMAIN q /\ p[i] = q[m[i]]
    OBVIOUS
  <2>1. CASE i <= Len(a)
    <3>1. m[i] = i /\ i \in DOMAIN q /\ i \in 1 .. Len(a) + Len(b) /\ i \in 1 .. Len(a) + (1 + Len(b))
      BY <1>5, <2>1
    <3>2. p[i] = a[i] /\ q[i] = a[i]
      BY <1>3, <1>4, <2>1, <3>1
    <3> QED BY <3>1, <3>2
  <2>2. CASE ~(i <= Len(a))
    <3>1. m[i] = i + 1 /\ i + 1 \in DOMAIN q
      BY <1>5, <2>2
    <3>2. q[i + 1] = (<<t>> \o b)[i + 1 - Len(a)] /\ i + 1 - Len(a) = i - Len(a) + 1
      BY <1>4, <1>5, <2>2, <3>1
    <3>3. i - Len(a) \in 1 .. Len(b) /\ (<<t>> \o b)[i - Len(a) + 1] = b[i - Len(a)]
      <4>1. i - Len(a) \in 1 .. Len(b)
        BY <1>5, <2>2
      <4>2. i - Len(a) + 1 \in 1 .. 1 + Len(b) /\ ~(i - Len(a) + 1 <= 1) /\ i - Len(a) + 1 - 1 = i - Len(a)
        BY <1>5, <4>1
      <4> QED BY <1>2, <4>1, <4>2
    <3> QED BY <1>3, <1>5, <2>2, <3>1, <3>2, <3>3
  <2> QED BY <2>1, <2>2
<1>8. \A j \in DOMAIN q : j /= Len(a) + 1 => \E i \in DOMAIN p : m[i] = j
  <2> SUFFICES ASSUME NEW j \in DOMAIN q, j /= Len(a) + 1 PROVE \E i \in DOMAIN p : m[i] = j
    OBVIOUS
  <2>1. CASE j <= Len(a)
    BY <1>5, <2>1
  <2>2. CASE ~(j <= Len(a))
    <3>1. j - 1 \in DOMAIN p /\ ~(j - 1 <= Len(a)) /\ j - 1 + 1 = j
      BY <1>5, <2>2
    <3>2. m[j - 1] = j
      BY <3>1
    <3> QED BY <3>1, <3>2
  <2> QED BY <2>1, <2>2
<1>9. \A i, j \in DOMAIN p : i < j <=> m[i] < m[j]
  BY <1>5
<1>10. m \in [DOMAIN p -> DOMAIN q]
  BY <1>7
<1> HIDE DEF m
<1>11. Thins(q, p, m) /\ (t.kind /= "up" => UpsStay(q, p, m))
  BY <1>5, <1>6, <1>7, <1>8, <1>9, <1>10 DEF Thins, UpsStay
<1>12. \E w : Thins(q, p, w) /\ (t.kind /= "up" => UpsStay(q, p, w))
  BY <1>11
<1> QED BY <1>12 DEF p, q

\* What that leaves as it was.
LEMMA Immaterial ==
  ASSUME NEW S, NEW a \in Seq(S), NEW b \in Seq(S), NEW t \in S, t.kind \notin Marks \cup {"up"}
  PROVE  /\ Well(a \o (<<t>> \o b)) <=> Well(a \o b)
         /\ Waits(a \o (<<t>> \o b)) <=> Waits(a \o b)
         /\ \A o, s : Above(a \o (<<t>> \o b), o, s) <=> Above(a \o b, o, s)
         /\ \A o, n : Begins(a \o (<<t>> \o b), o, n) <=> Begins(a \o b, o, n)
<1> DEFINE q == a \o (<<t>> \o b)
           p == a \o b
<1>1. PICK m : Thins(q, p, m) /\ UpsStay(q, p, m)
  BY LeftOut
<1> HIDE DEF p, q
<1>2. Well(q) <=> Well(p)
  BY <1>1, ThinStream, ThinLink DEF Well
<1>3. Waits(q) <=> Waits(p)
  BY <1>1, ThinLink
<1>4. \A o, s : Above(q, o, s) <=> Above(p, o, s)
  BY <1>1, ThinTaken
<1>5. \A o, n : Begins(q, o, n) <=> Begins(p, o, n)
  BY <1>1, ThinTaken
<1> QED BY <1>2, <1>3, <1>4, <1>5 DEF p, q

\* What is left of a queue when its first part is gone.
LEMMA LaterPart ==
  ASSUME NEW S, NEW a \in Seq(S), NEW b \in Seq(S)
  PROVE  /\ DOMAIN b \subseteq Nat /\ Len(a) \in Nat /\ DOMAIN (a \o b) = 1 .. Len(a) + Len(b)
         /\ DOMAIN b = 1 .. Len(b) /\ Len(b) \in Nat /\ DOMAIN a = 1 .. Len(a)
         /\ \A i \in DOMAIN b : Len(a) + i \in DOMAIN (a \o b) /\ (a \o b)[Len(a) + i] = b[i]
         /\ \A j \in DOMAIN (a \o b) : j > Len(a) => j - Len(a) \in DOMAIN b
         /\ \A i \in DOMAIN a : i \in DOMAIN (a \o b) /\ (a \o b)[i] = a[i]
<1>1. /\ a \o b \in Seq(S) /\ Len(a \o b) = Len(a) + Len(b)
      /\ \A i \in 1 .. Len(a) + Len(b) : (a \o b)[i] = IF i <= Len(a) THEN a[i] ELSE b[i - Len(a)]
  BY ConcatProperties
<1>2. Len(a) \in Nat /\ Len(b) \in Nat /\ DOMAIN b = 1 .. Len(b) /\ DOMAIN (a \o b) = 1 .. Len(a) + Len(b)
      /\ DOMAIN a = 1 .. Len(a)
  BY <1>1, LenProperties
<1>3. ASSUME NEW i \in DOMAIN b PROVE Len(a) + i \in DOMAIN (a \o b) /\ (a \o b)[Len(a) + i] = b[i]
  <2>1. Len(a) + i \in 1 .. Len(a) + Len(b) /\ ~(Len(a) + i <= Len(a)) /\ Len(a) + i - Len(a) = i
    BY <1>2
  <2> QED BY <1>1, <1>2, <2>1
<1>4. ASSUME NEW i \in DOMAIN a PROVE i \in DOMAIN (a \o b) /\ (a \o b)[i] = a[i]
  BY <1>1, <1>2
<1> QED BY <1>2, <1>3, <1>4

\* A later part of a queue is as good as the whole.
LEMMA SuffixWell ==
  ASSUME NEW S, NEW a \in Seq(S), NEW b \in Seq(S)
  PROVE  /\ Well(a \o b) => Well(b)
         /\ \A o, s : Above(a \o b, o, s) => Above(b, o, s)
<1> DEFINE q == a \o b
           d == Len(a)
<1>1. /\ DOMAIN b \subseteq Nat /\ d \in Nat /\ DOMAIN q \subseteq Nat
      /\ \A i \in DOMAIN b : d + i \in DOMAIN q /\ q[d + i] = b[i]
      /\ \A j \in DOMAIN q : j > d => j - d \in DOMAIN b
  BY LaterPart
<1> HIDE DEF q, d
<1>2. \A o : \A i \in DOMAIN b : Of(b, o, i) <=> Of(q, o, d + i)
  BY <1>1 DEF Of
<1>7. \A i \in DOMAIN b, j \in DOMAIN b : i < j <=> d + i < d + j
  BY <1>1
<1>8. ASSUME NEW i \in DOMAIN b, NEW k \in DOMAIN q, d + i < k
      PROVE  k - d \in DOMAIN b /\ i < k - d /\ b[k - d] = q[k] /\ d + (k - d) = k
  <2>1. k > d /\ d + (k - d) = k /\ i < k - d
    BY <1>1, <1>8
  <2>2. k - d \in DOMAIN b
    BY <1>1, <2>1
  <2> QED BY <1>1, <2>1, <2>2
<1>3. Lifted(q) => Lifted(b)
  <2> SUFFICES ASSUME Lifted(q), NEW i \in DOMAIN b, NEW j \in DOMAIN b, i < j,
                      b[i].kind = "down", b[j].kind \in StreamKinds
               PROVE  \E k \in DOMAIN b : i < k /\ k < j /\ b[k].kind = "up"
    BY DEF Lifted
  <2>1. PICK k \in DOMAIN q : d + i < k /\ k < d + j /\ q[k].kind = "up"
    BY <1>1, <1>7 DEF Lifted
  <2>2. k - d \in DOMAIN b /\ i < k - d /\ b[k - d] = q[k] /\ k - d < j
    BY <1>1, <1>8, <2>1
  <2> QED BY <2>1, <2>2
<1>4. Numbered(q) => Numbered(b)
  BY <1>1 DEF Numbered
<1>5. ASSUME NEW o PROVE /\ Chained(q, o) => Chained(b, o)
                         /\ Rising(q, o) => Rising(b, o)
                         /\ Resumed(q, o) => Resumed(b, o)
  <2>1. Chained(q, o) => Chained(b, o)
    <3> SUFFICES ASSUME Chained(q, o), NEW i \in DOMAIN b, NEW j \in DOMAIN b, i < j,
                        Of(b, o, i), Of(b, o, j), b[j].kind = "DATA",
                        \A k \in DOMAIN b : i < k /\ k < j => ~Of(b, o, k)
                 PROVE  b[j].n = b[i].n + 1
      BY DEF Chained
    <3>1. ASSUME NEW k \in DOMAIN q, d + i < k, k < d + j PROVE ~Of(q, o, k)
      <4>1. k - d \in DOMAIN b /\ i < k - d /\ d + (k - d) = k /\ k - d < j
        BY <1>1, <1>8, <3>1
      <4> QED BY <1>2, <4>1
    <3> QED BY <1>1, <1>2, <1>7, <3>1 DEF Chained
  <2>2. Rising(q, o) => Rising(b, o)
    BY <1>1, <1>2, <1>7 DEF Rising
  <2>3. Resumed(q, o) => Resumed(b, o)
    <3> SUFFICES ASSUME Resumed(q, o), NEW i \in DOMAIN b, NEW j \in DOMAIN b, i < j,
                        b[i].kind = "down", Of(b, o, j), b[j].kind = "DATA"
                 PROVE  \E k \in DOMAIN b : i < k /\ k < j /\ Of(b, o, k) /\ b[k].kind /= "DATA"
      BY DEF Resumed
    <3>1. PICK k \in DOMAIN q : d + i < k /\ k < d + j /\ Of(q, o, k) /\ q[k].kind /= "DATA"
      BY <1>1, <1>2, <1>7 DEF Resumed
    <3>2. k - d \in DOMAIN b /\ i < k - d /\ b[k - d] = q[k] /\ k - d < j /\ d + (k - d) = k
      BY <1>1, <1>8, <3>1
    <3> QED BY <1>2, <3>1, <3>2
  <2> QED BY <2>1, <2>2, <2>3
<1>6. ASSUME NEW o, NEW s, Above(q, o, s) PROVE Above(b, o, s)
  BY <1>1, <1>2, <1>6 DEF Above
<1>9. Well(q) => Well(b)
  BY <1>3, <1>4, <1>5 DEF Well
<1> QED BY <1>6, <1>9 DEF q

\* Behind the teardown everything waits for the link, and every tunnel is
\* resumed before it takes DATA.
LEMMA DownRuns ==
  ASSUME NEW S, NEW a \in Seq(S), NEW b \in Seq(S), NEW t \in S, t.kind = "down",
         Well(a \o (<<t>> \o b))
  PROVE  /\ Well(b) /\ Waits(b)
         /\ \A o \in Opens : \A n : Begins(b, o, n)
         /\ \A o, s : Above(a \o (<<t>> \o b), o, s) => Above(b, o, s)
<1> DEFINE c == <<t>> \o b
<1>1. <<t>> \in Seq(S) /\ Len(<<t>>) = 1 /\ <<t>>[1] = t /\ c \in Seq(S)
  BY ConcatProperties
<1>2. Well(c) /\ \A o, s : Above(a \o c, o, s) => Above(c, o, s)
  BY <1>1, SuffixWell
<1>3. Well(b) /\ \A o, s : Above(c, o, s) => Above(b, o, s)
  BY <1>1, <1>2, SuffixWell
<1>4. /\ DOMAIN c = 1 .. 1 + Len(b) /\ c[1] = t /\ DOMAIN b = 1 .. Len(b) /\ Len(b) \in Nat
      /\ \A i \in DOMAIN b : 1 + i \in DOMAIN c /\ c[1 + i] = b[i]
      /\ \A j \in DOMAIN c : j > 1 => j - 1 \in DOMAIN b
  <2>1. 1 \in DOMAIN <<t>>
    OBVIOUS
  <2> QED BY <1>1, <2>1, LaterPart
<1> HIDE DEF c
<1>5. 1 \in DOMAIN c /\ c[1].kind = "down"
  BY <1>4
<1>6. Waits(b)
  <2> SUFFICES ASSUME NEW j \in DOMAIN b, b[j].kind \in StreamKinds
               PROVE  \E k \in DOMAIN b : k < j /\ b[k].kind = "up"
    BY DEF Waits
  <2>1. 1 + j \in DOMAIN c /\ 1 < 1 + j /\ c[1 + j] = b[j]
    BY <1>4
  <2>2. PICK k \in DOMAIN c : 1 < k /\ k < 1 + j /\ c[k].kind = "up"
    BY <1>2, <1>5, <2>1 DEF Well, Lifted
  <2>3. k - 1 \in DOMAIN b /\ k - 1 < j /\ c[1 + (k - 1)] = b[k - 1] /\ 1 + (k - 1) = k
    BY <1>4, <2>2
  <2> QED BY <2>2, <2>3
<1>7. ASSUME NEW o \in Opens, NEW n PROVE Begins(b, o, n)
  <2> SUFFICES ASSUME NEW j \in DOMAIN b, Of(b, o, j), b[j].kind = "DATA",
                      \A k \in DOMAIN b : k < j => ~Of(b, o, k)
               PROVE  FALSE
    BY DEF Begins
  <2>1. 1 + j \in DOMAIN c /\ 1 < 1 + j /\ c[1 + j] = b[j] /\ Of(c, o, 1 + j)
    BY <1>4 DEF Of
  <2>2. PICK k \in DOMAIN c : 1 < k /\ k < 1 + j /\ Of(c, o, k)
    BY <1>2, <1>5, <2>1 DEF Well, Resumed
  <2>3. k - 1 \in DOMAIN b /\ k - 1 < j /\ c[1 + (k - 1)] = b[k - 1] /\ 1 + (k - 1) = k
    BY <1>4, <2>2
  <2> QED BY <2>2, <2>3 DEF Of
<1>8. Waits(b) /\ Well(b) /\ \A o, s : Above(a \o c, o, s) => Above(b, o, s)
  BY <1>2, <1>3, <1>6
<1> QED BY <1>7, <1>8 DEF c

\* The link is up again, and no teardown is ahead of it.
LEMMA UpRuns ==
  ASSUME NEW S, NEW a \in Seq(S), NEW b \in Seq(S), NEW t \in S, t.kind = "up",
         \A i \in DOMAIN a : a[i].kind /= "down", Well(a \o (<<t>> \o b))
  PROVE  /\ Well(a \o b)
         /\ \A o, s : Above(a \o (<<t>> \o b), o, s) <=> Above(a \o b, o, s)
         /\ \A o, n : Begins(a \o (<<t>> \o b), o, n) <=> Begins(a \o b, o, n)
<1> DEFINE q == a \o (<<t>> \o b)
           p == a \o b
<1>1. PICK m : Thins(q, p, m)
  BY LeftOut DEF Marks, StreamKinds
<1>2. Well(q) /\ Well(b)
  <2>1. <<t>> \o b \in Seq(S) /\ <<t>> \in Seq(S)
    BY ConcatProperties
  <2>2. Well(<<t>> \o b)
    BY <2>1, SuffixWell
  <2> QED BY <2>1, <2>2, SuffixWell
<1>3. Lifted(p)
  <2> SUFFICES ASSUME NEW i \in DOMAIN p, NEW j \in DOMAIN p, i < j,
                      p[i].kind = "down", p[j].kind \in StreamKinds
               PROVE  \E k \in DOMAIN p : i < k /\ k < j /\ p[k].kind = "up"
    BY DEF Lifted
  <2> DEFINE d == Len(a)
  <2>1. /\ DOMAIN b \subseteq Nat /\ d \in Nat /\ DOMAIN p = 1 .. d + Len(b) /\ DOMAIN a = 1 .. d
        /\ \A x \in DOMAIN b : d + x \in DOMAIN p /\ p[d + x] = b[x]
        /\ \A x \in DOMAIN p : x > d => x - d \in DOMAIN b
        /\ \A x \in DOMAIN a : p[x] = a[x]
    BY LaterPart
  <2> HIDE DEF p, d
  <2>2. i > d /\ j > d
    BY <2>1
  <2>3. /\ i - d \in DOMAIN b /\ j - d \in DOMAIN b /\ i - d < j - d
        /\ d + (i - d) = i /\ d + (j - d) = j
    BY <2>1, <2>2
  <2>4. b[i - d].kind = "down" /\ b[j - d].kind \in StreamKinds
    BY <2>1, <2>3
  <2>5. PICK k \in DOMAIN b : i - d < k /\ k < j - d /\ b[k].kind = "up"
    BY <1>2, <2>3, <2>4 DEF Well, Lifted
  <2>6. d + k \in DOMAIN p /\ i < d + k /\ d + k < j /\ p[d + k].kind = "up"
    BY <2>1, <2>3, <2>5
  <2> QED BY <2>6
<1> HIDE DEF p, q
<1>4. Well(p)
  BY <1>1, <1>2, <1>3, ThinStream DEF Well
<1>5. \A o, s : Above(q, o, s) <=> Above(p, o, s)
  BY <1>1, ThinTaken
<1>6. \A o, n : Begins(q, o, n) <=> Begins(p, o, n)
  BY <1>1, ThinTaken
<1> QED BY <1>4, <1>5, <1>6 DEF p, q

----------------------------------------------------------------------------
(* One more entry at the end of a queue. *)

\* Appending is such an extension.
LEMMA Appended ==
  ASSUME NEW S, NEW x \in Seq(S), NEW e \in S
  PROVE  Extended(Append(x, e), x, e, Len(x) + 1)
<1>1. Len(x) \in Nat /\ DOMAIN x = 1 .. Len(x)
  BY LenProperties
<1>2. /\ Len(Append(x, e)) = Len(x) + 1 /\ Append(x, e)[Len(x) + 1] = e
      /\ \A i \in 1 .. Len(x) : Append(x, e)[i] = x[i]
      /\ Append(x, e) \in Seq(S)
  BY AppendProperties
<1>3. DOMAIN Append(x, e) = 1 .. Len(x) + 1
  BY <1>2, LenProperties
<1> QED BY <1>1, <1>2, <1>3 DEF Extended

\* Whose frame an entry is.
LEMMA ExtendedOf ==
  ASSUME NEW q, NEW x, NEW e, NEW l, Extended(q, x, e, l), NEW o
  PROVE  /\ \A i \in DOMAIN x : Of(q, o, i) <=> Of(x, o, i)
         /\ Of(q, o, l) <=> Streams(e, o)
BY DEF Extended, Of, Streams

\* One more entry: the link.
LEMMA ExtendedLink ==
  ASSUME NEW q, NEW x, NEW e, NEW l, Extended(q, x, e, l)
  PROVE  /\ Lifted(q) <=> Lifted(x) /\ (e.kind \in StreamKinds => Clear(x))
         /\ Numbered(q) <=> Numbered(x) /\ (e.kind = "DATA" => e.n >= 1)
         /\ Clear(q) <=> e.kind = "up" \/ (Clear(x) /\ e.kind /= "down")
         /\ Waits(q) <=> Waits(x) /\ (e.kind \in StreamKinds => HasUp(x))
         /\ HasUp(q) <=> HasUp(x) \/ e.kind = "up"
<1>0. "down" \notin StreamKinds /\ "up" \notin StreamKinds
  BY DEF StreamKinds
<1>1. Lifted(q) <=> Lifted(x) /\ (e.kind \in StreamKinds => Clear(x))
  <2>1. Lifted(q) => Lifted(x)
    BY DEF Lifted, Extended
  <2>2. Lifted(q) /\ e.kind \in StreamKinds => Clear(x)
    BY <1>0 DEF Lifted, Extended, Clear
  <2>3. Lifted(x) /\ (e.kind \in StreamKinds => Clear(x)) => Lifted(q)
    <3> SUFFICES ASSUME Lifted(x), e.kind \in StreamKinds => Clear(x), NEW i \in DOMAIN q, NEW j \in DOMAIN q,
                        i < j, q[i].kind = "down", q[j].kind \in StreamKinds
                 PROVE  \E k \in DOMAIN q : i < k /\ k < j /\ q[k].kind = "up"
      BY DEF Lifted
    <3>1. i \in DOMAIN x /\ x[i].kind = "down"
      BY DEF Extended
    <3>2. CASE j = l
      BY <3>1, <3>2 DEF Extended, Clear
    <3>3. CASE j \in DOMAIN x
      BY <3>1, <3>3 DEF Extended, Lifted
    <3> QED BY <3>2, <3>3 DEF Extended
  <2> QED BY <2>1, <2>2, <2>3
<1>2. Numbered(q) <=> Numbered(x) /\ (e.kind = "DATA" => e.n >= 1)
  BY DEF Numbered, Extended
<1>3. Clear(q) <=> e.kind = "up" \/ (Clear(x) /\ e.kind /= "down")
  <2>1. ASSUME e.kind = "up" PROVE Clear(q)
    BY <2>1 DEF Clear, Extended
  <2>2. ASSUME Clear(x), e.kind /= "down" PROVE Clear(q)
    BY <2>2 DEF Clear, Extended
  <2>3. ASSUME Clear(q), e.kind /= "up" PROVE Clear(x) /\ e.kind /= "down"
    BY <2>3 DEF Clear, Extended
  <2> QED BY <2>1, <2>2, <2>3
<1>4. Waits(q) <=> Waits(x) /\ (e.kind \in StreamKinds => HasUp(x))
  <2>1. Waits(q) => Waits(x)
    BY DEF Waits, Extended
  <2>2. Waits(q) /\ e.kind \in StreamKinds => HasUp(x)
    BY <1>0 DEF Waits, Extended, HasUp
  <2>3. Waits(x) /\ (e.kind \in StreamKinds => HasUp(x)) => Waits(q)
    BY DEF Waits, Extended, HasUp
  <2> QED BY <2>1, <2>2, <2>3
<1>5. HasUp(q) <=> HasUp(x) \/ e.kind = "up"
  BY DEF HasUp, Extended
<1> QED BY <1>1, <1>2, <1>3, <1>4, <1>5

\* One more entry: a tunnel's stream.
LEMMA ExtendedStream ==
  ASSUME NEW q, NEW x, NEW e, NEW l, Extended(q, x, e, l), NEW o,
         e.n \in Nat, \A i \in DOMAIN x : x[i].n \in Nat
  PROVE  /\ Chained(q, o) <=> Chained(x, o) /\ (Streams(e, o) /\ e.kind = "DATA" => Leads(x, o, e.n))
         /\ Rising(q, o) <=> /\ Rising(x, o)
                             /\ Streams(e, o) => Under(x, o, IF e.kind = "DATA" THEN e.n ELSE e.n + 1)
         /\ Resumed(q, o) <=> Resumed(x, o) /\ (Streams(e, o) /\ e.kind = "DATA" => Again(x, o))
         /\ \A m : Under(q, o, m) <=> Under(x, o, m) /\ (Streams(e, o) => e.n < m)
         /\ \A m : Leads(q, o, m) <=> IF Streams(e, o) THEN m = e.n + 1 ELSE Leads(x, o, m)
         /\ Again(q, o) <=> (Streams(e, o) /\ e.kind /= "DATA") \/ (Again(x, o) /\ e.kind /= "down")
         /\ Absent(q, o) <=> Absent(x, o) /\ ~Streams(e, o)
<1>0. "down" \notin StreamKinds /\ "DATA" \in StreamKinds
  BY DEF StreamKinds
<1>1. /\ \A i \in DOMAIN x : Of(q, o, i) <=> Of(x, o, i)
      /\ Of(q, o, l) <=> Streams(e, o)
  BY ExtendedOf
<1>2. Chained(q, o) <=> Chained(x, o) /\ (Streams(e, o) /\ e.kind = "DATA" => Leads(x, o, e.n))
  <2>1. Chained(q, o) => Chained(x, o)
    BY <1>1 DEF Chained, Extended
  <2>2. Chained(q, o) /\ Streams(e, o) /\ e.kind = "DATA" => Leads(x, o, e.n)
    <3> SUFFICES ASSUME Chained(q, o), Streams(e, o), e.kind = "DATA", NEW i \in DOMAIN x, Of(x, o, i),
                        \A k \in DOMAIN x : i < k => ~Of(x, o, k)
                 PROVE  e.n = x[i].n + 1
      BY DEF Leads
    <3>1. i \in DOMAIN q /\ l \in DOMAIN q /\ i < l /\ Of(q, o, i) /\ Of(q, o, l) /\ q[l].kind = "DATA"
      BY <1>1 DEF Extended
    <3>2. \A k \in DOMAIN q : i < k /\ k < l => ~Of(q, o, k)
      BY <1>1 DEF Extended
    <3>3. q[l].n = q[i].n + 1
      BY <3>1, <3>2 DEF Chained
    <3> QED BY <3>3 DEF Extended
  <2>3. Chained(x, o) /\ (Streams(e, o) /\ e.kind = "DATA" => Leads(x, o, e.n)) => Chained(q, o)
    <3> SUFFICES ASSUME Chained(x, o), Streams(e, o) /\ e.kind = "DATA" => Leads(x, o, e.n),
                        NEW i \in DOMAIN q, NEW j \in DOMAIN q, i < j, Of(q, o, i), Of(q, o, j),
                        q[j].kind = "DATA", \A k \in DOMAIN q : i < k /\ k < j => ~Of(q, o, k)
                 PROVE  q[j].n = q[i].n + 1
      BY DEF Chained
    <3>1. i \in DOMAIN x /\ Of(x, o, i) /\ q[i] = x[i]
      BY <1>1 DEF Extended
    <3>2. CASE j = l
      <4>1. \A k \in DOMAIN x : i < k => ~Of(x, o, k)
        BY <1>1, <3>2 DEF Extended
      <4>2. Leads(x, o, e.n) /\ q[j] = e
        BY <1>1, <3>2 DEF Extended
      <4> QED BY <3>1, <4>1, <4>2 DEF Leads
    <3>3. CASE j \in DOMAIN x
      <4>1. \A k \in DOMAIN x : i < k /\ k < j => ~Of(x, o, k)
        BY <1>1 DEF Extended
      <4>2. Of(x, o, j) /\ q[j] = x[j]
        BY <1>1, <3>3 DEF Extended
      <4> QED BY <3>1, <3>3, <4>1, <4>2 DEF Chained
    <3> QED BY <3>2, <3>3 DEF Extended
  <2> QED BY <2>1, <2>2, <2>3
<1>3. Rising(q, o) <=> /\ Rising(x, o)
                       /\ Streams(e, o) => Under(x, o, IF e.kind = "DATA" THEN e.n ELSE e.n + 1)
  <2>1. Rising(q, o) => Rising(x, o)
    BY <1>1 DEF Rising, Extended
  <2>2. Rising(q, o) /\ Streams(e, o) => Under(x, o, IF e.kind = "DATA" THEN e.n ELSE e.n + 1)
    <3> SUFFICES ASSUME Rising(q, o), Streams(e, o), NEW i \in DOMAIN x, Of(x, o, i)
                 PROVE  x[i].n < IF e.kind = "DATA" THEN e.n ELSE e.n + 1
      BY DEF Under
    <3>1. i \in DOMAIN q /\ l \in DOMAIN q /\ i < l /\ Of(q, o, i) /\ Of(q, o, l) /\ q[l] = e /\ q[i] = x[i]
      BY <1>1 DEF Extended
    <3>2. q[i].n <= q[l].n /\ (q[l].kind = "DATA" => q[i].n < q[l].n)
      BY <3>1 DEF Rising
    <3> QED BY <3>1, <3>2
  <2>3. Rising(x, o) /\ (Streams(e, o) => Under(x, o, IF e.kind = "DATA" THEN e.n ELSE e.n + 1)) => Rising(q, o)
    <3> SUFFICES ASSUME Rising(x, o), Streams(e, o) => Under(x, o, IF e.kind = "DATA" THEN e.n ELSE e.n + 1),
                        NEW i \in DOMAIN q, NEW j \in DOMAIN q, i < j, Of(q, o, i), Of(q, o, j)
                 PROVE  q[i].n <= q[j].n /\ (q[j].kind = "DATA" => q[i].n < q[j].n)
      BY DEF Rising
    <3>1. i \in DOMAIN x /\ Of(x, o, i) /\ q[i] = x[i]
      BY <1>1 DEF Extended
    <3>2. CASE j = l
      <4>1. x[i].n < (IF e.kind = "DATA" THEN e.n ELSE e.n + 1) /\ q[j] = e
        BY <1>1, <3>1, <3>2 DEF Extended, Under
      <4> QED BY <3>1, <4>1
    <3>3. CASE j \in DOMAIN x
      <4>2. Of(x, o, j) /\ q[j] = x[j]
        BY <1>1, <3>3 DEF Extended
      <4> QED BY <3>1, <3>3, <4>2 DEF Rising
    <3> QED BY <3>2, <3>3 DEF Extended
  <2> QED BY <2>1, <2>2, <2>3
<1>4. Resumed(q, o) <=> Resumed(x, o) /\ (Streams(e, o) /\ e.kind = "DATA" => Again(x, o))
  <2>1. Resumed(q, o) => Resumed(x, o)
    <3> SUFFICES ASSUME Resumed(q, o), NEW i \in DOMAIN x, NEW j \in DOMAIN x, i < j,
                        x[i].kind = "down", Of(x, o, j), x[j].kind = "DATA"
                 PROVE  \E k \in DOMAIN x : i < k /\ k < j /\ Of(x, o, k) /\ x[k].kind /= "DATA"
      BY DEF Resumed
    <3>1. PICK k \in DOMAIN q : i < k /\ k < j /\ Of(q, o, k) /\ q[k].kind /= "DATA"
      BY <1>1 DEF Resumed, Extended
    <3> QED BY <1>1, <3>1 DEF Extended
  <2>2. Resumed(q, o) /\ Streams(e, o) /\ e.kind = "DATA" => Again(x, o)
    <3> SUFFICES ASSUME Resumed(q, o), Streams(e, o), e.kind = "DATA", NEW i \in DOMAIN x, x[i].kind = "down"
                 PROVE  \E k \in DOMAIN x : i < k /\ Of(x, o, k) /\ x[k].kind /= "DATA"
      BY DEF Again
    <3>1. PICK k \in DOMAIN q : i < k /\ k < l /\ Of(q, o, k) /\ q[k].kind /= "DATA"
      BY <1>1 DEF Resumed, Extended
    <3> QED BY <1>1, <3>1 DEF Extended
  <2>3. Resumed(x, o) /\ (Streams(e, o) /\ e.kind = "DATA" => Again(x, o)) => Resumed(q, o)
    <3> SUFFICES ASSUME Resumed(x, o), Streams(e, o) /\ e.kind = "DATA" => Again(x, o),
                        NEW i \in DOMAIN q, NEW j \in DOMAIN q, i < j, q[i].kind = "down", Of(q, o, j),
                        q[j].kind = "DATA"
                 PROVE  \E k \in DOMAIN q : i < k /\ k < j /\ Of(q, o, k) /\ q[k].kind /= "DATA"
      BY DEF Resumed
    <3>1. i \in DOMAIN x /\ q[i] = x[i]
      BY DEF Extended
    <3>2. CASE j = l
      <4>1. Again(x, o)
        BY <1>1, <3>2 DEF Extended
      <4>2. PICK k \in DOMAIN x : i < k /\ Of(x, o, k) /\ x[k].kind /= "DATA"
        BY <3>1, <4>1 DEF Again
      <4> QED BY <1>1, <3>2, <4>2 DEF Extended
    <3>3. CASE j \in DOMAIN x
      <4>2. Of(x, o, j) /\ q[j] = x[j]
        BY <1>1, <3>3 DEF Extended
      <4>3. PICK k \in DOMAIN x : i < k /\ k < j /\ Of(x, o, k) /\ x[k].kind /= "DATA"
        BY <3>1, <3>3, <4>2 DEF Resumed
      <4> QED BY <1>1, <4>3 DEF Extended
    <3> QED BY <3>2, <3>3 DEF Extended
  <2> QED BY <2>1, <2>2, <2>3
<1>5. ASSUME NEW m PROVE Under(q, o, m) <=> Under(x, o, m) /\ (Streams(e, o) => e.n < m)
  BY <1>1 DEF Under, Extended
<1>6. ASSUME NEW m PROVE Leads(q, o, m) <=> IF Streams(e, o) THEN m = e.n + 1 ELSE Leads(x, o, m)
  <2>1. CASE Streams(e, o)
    <3>1. Leads(q, o, m) => m = e.n + 1
      BY <1>1, <2>1 DEF Leads, Extended
    <3>2. m = e.n + 1 => Leads(q, o, m)
      BY <1>1, <2>1 DEF Leads, Extended
    <3> QED BY <2>1, <3>1, <3>2
  <2>2. CASE ~Streams(e, o)
    <3>1. Leads(q, o, m) => Leads(x, o, m)
      BY <1>1, <2>2 DEF Leads, Extended
    <3>2. Leads(x, o, m) => Leads(q, o, m)
      BY <1>1, <2>2 DEF Leads, Extended
    <3> QED BY <2>2, <3>1, <3>2
  <2> QED BY <2>1, <2>2
<1>7. Again(q, o) <=> (Streams(e, o) /\ e.kind /= "DATA") \/ (Again(x, o) /\ e.kind /= "down")
  <2>1. ASSUME Streams(e, o), e.kind /= "DATA" PROVE Again(q, o)
    BY <1>0, <1>1, <2>1 DEF Again, Extended, Streams
  <2>2. ASSUME Again(x, o), e.kind /= "down" PROVE Again(q, o)
    BY <1>1, <2>2 DEF Again, Extended
  <2>3. ASSUME Again(q, o), ~(Streams(e, o) /\ e.kind /= "DATA") PROVE Again(x, o) /\ e.kind /= "down"
    BY <1>1, <2>3 DEF Again, Extended
  <2> QED BY <2>1, <2>2, <2>3
<1>8. Absent(q, o) <=> Absent(x, o) /\ ~Streams(e, o)
  BY <1>1 DEF Absent, Extended
<1> QED BY <1>2, <1>3, <1>4, <1>5, <1>6, <1>7, <1>8

\* One more entry: what a tunnel has taken so far.
LEMMA ExtendedTaken ==
  ASSUME NEW q, NEW x, NEW e, NEW l, Extended(q, x, e, l), NEW o
  PROVE  /\ \A s : Above(q, o, s) <=>
              /\ Above(x, o, s)
              /\ Streams(e, o) => \A i \in DOMAIN s : s[i] <= e.n /\ (e.kind = "DATA" => s[i] < e.n)
         /\ \A n : Begins(q, o, n) <=>
              Begins(x, o, n) /\ (Absent(x, o) /\ Streams(e, o) /\ e.kind = "DATA" => e.n = n)
<1>1. /\ \A i \in DOMAIN x : Of(q, o, i) <=> Of(x, o, i)
      /\ Of(q, o, l) <=> Streams(e, o)
  BY ExtendedOf
<1>2. ASSUME NEW s
      PROVE  Above(q, o, s) <=>
              /\ Above(x, o, s)
              /\ Streams(e, o) => \A i \in DOMAIN s : s[i] <= e.n /\ (e.kind = "DATA" => s[i] < e.n)
  BY <1>1 DEF Above, Extended
<1>3. ASSUME NEW n
      PROVE  Begins(q, o, n) <=>
              Begins(x, o, n) /\ (Absent(x, o) /\ Streams(e, o) /\ e.kind = "DATA" => e.n = n)
  <2>1. Begins(q, o, n) => Begins(x, o, n)
    <3> SUFFICES ASSUME Begins(q, o, n), NEW j \in DOMAIN x, Of(x, o, j), x[j].kind = "DATA",
                        \A k \in DOMAIN x : k < j => ~Of(x, o, k)
                 PROVE  x[j].n = n
      BY DEF Begins
    <3>1. \A k \in DOMAIN q : k < j => ~Of(q, o, k)
      BY <1>1 DEF Extended
    <3> QED BY <1>1, <3>1 DEF Begins, Extended
  <2>2. Begins(q, o, n) /\ Absent(x, o) /\ Streams(e, o) /\ e.kind = "DATA" => e.n = n
    BY <1>1 DEF Begins, Absent, Extended
  <2>3. Begins(x, o, n) /\ (Absent(x, o) /\ Streams(e, o) /\ e.kind = "DATA" => e.n = n) => Begins(q, o, n)
    <3> SUFFICES ASSUME Begins(x, o, n), Absent(x, o) /\ Streams(e, o) /\ e.kind = "DATA" => e.n = n,
                        NEW j \in DOMAIN q, Of(q, o, j), q[j].kind = "DATA",
                        \A k \in DOMAIN q : k < j => ~Of(q, o, k)
                 PROVE  q[j].n = n
      BY DEF Begins
    <3>1. CASE j = l
      <4>1. Absent(x, o)
        BY <1>1, <3>1 DEF Absent, Extended
      <4> QED BY <1>1, <3>1, <4>1 DEF Extended
    <3>2. CASE j \in DOMAIN x
      <4>1. \A k \in DOMAIN x : k < j => ~Of(x, o, k)
        BY <1>1 DEF Extended
      <4> QED BY <1>1, <3>2, <4>1 DEF Begins, Extended
    <3> QED BY <3>1, <3>2 DEF Extended
  <2> QED BY <2>1, <2>2, <2>3
<1> QED BY <1>2, <1>3

\* All of this for a queue.
LEMMA OneMore ==
  ASSUME NEW x \in Seq(Entry), NEW e \in Entry
  PROVE  LET q == Append(x, e)
         IN  /\ q \in Seq(Entry)
             /\ Well(q) <=> Well(x) /\ Fits(x, e)
             /\ Clear(q) <=> e.kind = "up" \/ (Clear(x) /\ e.kind /= "down")
             /\ Waits(q) <=> Waits(x) /\ (e.kind \in StreamKinds => HasUp(x))
             /\ HasUp(q) <=> HasUp(x) \/ e.kind = "up"
             /\ \A o, m : Under(q, o, m) <=> Under(x, o, m) /\ (Streams(e, o) => e.n < m)
             /\ \A o, m : Leads(q, o, m) <=> IF Streams(e, o) THEN m = e.n + 1 ELSE Leads(x, o, m)
             /\ \A o : Again(q, o) <=> (Streams(e, o) /\ e.kind /= "DATA") \/ (Again(x, o) /\ e.kind /= "down")
             /\ \A o : Absent(q, o) <=> Absent(x, o) /\ ~Streams(e, o)
             /\ \A o, s : Above(q, o, s) <=>
                  /\ Above(x, o, s)
                  /\ Streams(e, o) => \A i \in DOMAIN s : s[i] <= e.n /\ (e.kind = "DATA" => s[i] < e.n)
             /\ \A o, n : Begins(q, o, n) <=>
                  Begins(x, o, n) /\ (Absent(x, o) /\ Streams(e, o) /\ e.kind = "DATA" => e.n = n)
<1> DEFINE q == Append(x, e)
           l == Len(x) + 1
<1>1. Extended(q, x, e, l) /\ q \in Seq(Entry)
  BY Appended, AppendProperties
<1>2. e.n \in Nat /\ \A i \in DOMAIN x : x[i].n \in Nat
  <2>1. \A i \in DOMAIN x : x[i] \in Entry
    BY LenProperties, ElementOfSeq
  <2> QED BY <2>1 DEF Entry
<1> HIDE DEF q, l
<1>3. \A o : /\ Chained(q, o) <=> Chained(x, o) /\ (Streams(e, o) /\ e.kind = "DATA" => Leads(x, o, e.n))
             /\ Rising(q, o) <=> /\ Rising(x, o)
                                 /\ Streams(e, o) => Under(x, o, IF e.kind = "DATA" THEN e.n ELSE e.n + 1)
             /\ Resumed(q, o) <=> Resumed(x, o) /\ (Streams(e, o) /\ e.kind = "DATA" => Again(x, o))
  BY <1>1, <1>2, ExtendedStream
<1>4. Well(q) <=> Well(x) /\ Fits(x, e)
  <2>1. Lifted(q) /\ Numbered(q) <=>
          Lifted(x) /\ Numbered(x) /\ (e.kind \in StreamKinds => Clear(x)) /\ (e.kind = "DATA" => e.n >= 1)
    BY <1>1, ExtendedLink
  <2>2. \A o : Streams(e, o) <=> o = e.o /\ e.kind \in StreamKinds
    BY DEF Streams
  <2>3. e.kind = "DATA" => e.kind \in StreamKinds
    BY DEF StreamKinds
  <2> QED BY <1>3, <2>1, <2>2, <2>3 DEF Well, Fits
<1>5. /\ Clear(q) <=> e.kind = "up" \/ (Clear(x) /\ e.kind /= "down")
      /\ Waits(q) <=> Waits(x) /\ (e.kind \in StreamKinds => HasUp(x))
      /\ HasUp(q) <=> HasUp(x) \/ e.kind = "up"
  BY <1>1, ExtendedLink
<1>6. \A o : /\ \A m : Under(q, o, m) <=> Under(x, o, m) /\ (Streams(e, o) => e.n < m)
             /\ \A m : Leads(q, o, m) <=> IF Streams(e, o) THEN m = e.n + 1 ELSE Leads(x, o, m)
             /\ Again(q, o) <=> (Streams(e, o) /\ e.kind /= "DATA") \/ (Again(x, o) /\ e.kind /= "down")
             /\ Absent(q, o) <=> Absent(x, o) /\ ~Streams(e, o)
  BY <1>1, <1>2, ExtendedStream
<1>7. \A o : /\ \A s : Above(q, o, s) <=>
                  /\ Above(x, o, s)
                  /\ Streams(e, o) => \A i \in DOMAIN s : s[i] <= e.n /\ (e.kind = "DATA" => s[i] < e.n)
             /\ \A n : Begins(q, o, n) <=>
                  Begins(x, o, n) /\ (Absent(x, o) /\ Streams(e, o) /\ e.kind = "DATA" => e.n = n)
  BY <1>1, ExtendedTaken
<1> QED BY <1>1, <1>4, <1>5, <1>6, <1>7 DEF q

\* Queues are joined in any order.
LEMMA Joined ==
  ASSUME NEW a \in Seq(Entry), NEW b \in Seq(Entry), NEW c \in Seq(Entry)
  PROVE  (a \o b) \o c = a \o (b \o c)
BY ConcatAssociative

\* The client's frames behind a queue, one by one.
LEMMA AheadAppends ==
  ASSUME NEW x \in Seq(Entry), NEW u, NEW c \in ClientRecord
  PROVE  LET y == IF u THEN x ELSE Append(x, Task("up"))
             z == IF c.o = NoOpen \/ (u /\ ~c.resume) THEN y ELSE Append(y, Frame("RESUME", c.o, c.sent))
             w == IF c.o = NoOpen THEN z ELSE Append(z, Frame("DATA", c.o, c.sent + 1))
         IN  /\ x \o Ahead(u, c) = Append(w, Rest) /\ Ahead(u, c) \in Seq(Entry)
             /\ y \in Seq(Entry) /\ z \in Seq(Entry) /\ w \in Seq(Entry)
<1> DEFINE y == IF u THEN x ELSE Append(x, Task("up"))
           z == IF c.o = NoOpen \/ (u /\ ~c.resume) THEN y ELSE Append(y, Frame("RESUME", c.o, c.sent))
           w == IF c.o = NoOpen THEN z ELSE Append(z, Frame("DATA", c.o, c.sent + 1))
           A == IF u THEN <<>> ELSE <<Task("up")>>
           B == IF c.o = NoOpen \/ (u /\ ~c.resume) THEN <<>> ELSE <<Frame("RESUME", c.o, c.sent)>>
           C == IF c.o = NoOpen THEN <<>> ELSE <<Frame("DATA", c.o, c.sent + 1)>>
<1>1. /\ Task("up") \in Entry /\ Frame("RESUME", c.o, c.sent) \in Entry
      /\ Frame("DATA", c.o, c.sent + 1) \in Entry /\ Rest \in Entry
  BY DEF Entry, Task, Frame, Rest, Kinds, ClientRecord
<1>2. y \in Seq(Entry) /\ z \in Seq(Entry) /\ w \in Seq(Entry)
  BY <1>1, AppendProperties
<1>3. A \in Seq(Entry) /\ B \in Seq(Entry) /\ C \in Seq(Entry) /\ <<Rest>> \in Seq(Entry)
  BY <1>1
<1>4. Ahead(u, c) = A \o (B \o (C \o <<Rest>>))
  BY DEF Ahead
<1>5. x \o A = y
  BY <1>1, AppendIsConcat, ConcatEmptySeq
<1>6. y \o B = z
  BY <1>1, <1>2, AppendIsConcat, ConcatEmptySeq
<1>7. z \o C = w /\ w \o <<Rest>> = Append(w, Rest)
  BY <1>1, <1>2, AppendIsConcat, ConcatEmptySeq
<1> HIDE DEF A, B, C, y, z, w
<1> DEFINE D == C \o <<Rest>>
           E == B \o D
<1>8. D \in Seq(Entry) /\ E \in Seq(Entry) /\ A \o E \in Seq(Entry)
  <2>1. D \in Seq(Entry)
    BY <1>3, ConcatProperties
  <2> HIDE DEF D
  <2>2. E \in Seq(Entry)
    BY <1>3, <2>1, ConcatProperties
  <2> HIDE DEF E
  <2>3. A \o E \in Seq(Entry)
    BY <1>3, <2>2, ConcatProperties
  <2> QED BY <2>1, <2>2, <2>3
<1>11. z \o D = w \o <<Rest>>
  <2>0. z \in Seq(Entry) /\ C \in Seq(Entry) /\ <<Rest>> \in Seq(Entry)
    BY <1>2, <1>3
  <2>1. (z \o C) \o <<Rest>> = z \o (C \o <<Rest>>)
    BY <2>0, Joined
  <2> QED BY <1>7, <2>1
<1> HIDE DEF D
<1>10. y \o E = z \o D
  <2>0. y \in Seq(Entry) /\ B \in Seq(Entry) /\ D \in Seq(Entry)
    BY <1>2, <1>3, <1>8
  <2>1. (y \o B) \o D = y \o (B \o D)
    BY <2>0, Joined
  <2> QED BY <1>6, <2>1
<1>13. Ahead(u, c) = A \o E
  BY <1>4 DEF D
<1> HIDE DEF E
<1>9. x \o (A \o E) = y \o E
  <2>1. (x \o A) \o E = x \o (A \o E)
    BY <1>3, <1>8, Joined
  <2> QED BY <1>5, <2>1
<1>12. x \o Ahead(u, c) = Append(w, Rest) /\ Ahead(u, c) \in Seq(Entry)
  BY <1>7, <1>8, <1>9, <1>10, <1>11, <1>13
<1> QED BY <1>2, <1>12 DEF y, z, w

----------------------------------------------------------------------------
(* The client behind the queue. *)

\* The queue with what the client is going to send behind it.
LEMMA ClientStory ==
  ASSUME NEW x \in Seq(Entry), NEW u, NEW c \in ClientRecord
  PROVE  LET q == x \o Ahead(u, c)
         IN  /\ q \in Seq(Entry)
             /\ Well(q) <=> Well(x) /\ Caught(x, u, c)
             /\ Waits(q) <=> Waits(x) /\ (u => HasUp(x))
             /\ \A o \in Opens : \A s \in Seq(Nat) : Above(q, o, s) <=>
                  Above(x, o, s) /\ (o = c.o => \A i \in DOMAIN s : s[i] <= c.sent)
             /\ \A o \in Opens : \A n : Begins(q, o, n) <=>
                  Begins(x, o, n) /\ (Absent(x, o) /\ o = c.o /\ u /\ ~c.resume => c.sent + 1 = n)
<1> DEFINE E1 == Task("up")
           E2 == Frame("RESUME", c.o, c.sent)
           E3 == Frame("DATA", c.o, c.sent + 1)
           y == IF u THEN x ELSE Append(x, E1)
           z == IF c.o = NoOpen \/ (u /\ ~c.resume) THEN y ELSE Append(y, E2)
           w == IF c.o = NoOpen THEN z ELSE Append(z, E3)
           q == Append(w, Rest)
           A(p) == \A o \in Opens : \A s \in Seq(Nat) : Above(p, o, s) <=>
                  Above(x, o, s) /\ (o = c.o => \A i \in DOMAIN s : s[i] <= c.sent)
           B(p) == \A o \in Opens : \A n : Begins(p, o, n) <=>
                  Begins(x, o, n) /\ (Absent(x, o) /\ o = c.o /\ u /\ ~c.resume => c.sent + 1 = n)
<1>1. x \o Ahead(u, c) = q /\ y \in Seq(Entry) /\ z \in Seq(Entry) /\ w \in Seq(Entry)
  BY AheadAppends
<1>2. /\ E1 \in Entry /\ E1.kind = "up" /\ \A o \in Opens : ~Streams(E1, o)
      /\ E2 \in Entry /\ E2.kind = "RESUME" /\ E2.o = c.o /\ E2.n = c.sent
      /\ E3 \in Entry /\ E3.kind = "DATA" /\ E3.o = c.o /\ E3.n = c.sent + 1
      /\ Rest \in Entry /\ Rest.kind = "RESUME" /\ Rest.o = NoOpen
  BY DEF Entry, Task, Frame, Rest, Kinds, ClientRecord, Streams, StreamKinds
<1>3. c.o \in Opens \cup {NoOpen} /\ c.sent \in Nat /\ c.resume \in BOOLEAN /\ NoOpen \notin Opens
  BY OpenAssumption DEF ClientRecord
<1>4. \A o : /\ Streams(E2, o) <=> o = c.o
             /\ Streams(E3, o) <=> o = c.o
             /\ Streams(Rest, o) <=> o = NoOpen
  BY <1>2 DEF Streams, StreamKinds
<1> HIDE DEF E1, E2, E3
<1>5. /\ Well(y) <=> Well(x)
      /\ Clear(y) <=> (u => Clear(x))
      /\ Waits(y) <=> Waits(x)
      /\ HasUp(y) <=> (u => HasUp(x))
      /\ \A o \in Opens : /\ \A m : Under(y, o, m) <=> Under(x, o, m)
                          /\ \A m : Leads(y, o, m) <=> Leads(x, o, m)
                          /\ Again(y, o) <=> Again(x, o)
                          /\ Absent(y, o) <=> Absent(x, o)
                          /\ \A s : Above(y, o, s) <=> Above(x, o, s)
                          /\ \A n : Begins(y, o, n) <=> Begins(x, o, n)
  <2>1. CASE u
    BY <2>1
  <2>2. CASE ~u
    <3>1. y = Append(x, E1) /\ "up" \notin StreamKinds
      BY <2>2 DEF StreamKinds
    <3>2. Well(y) <=> Well(x)
      BY <1>2, <3>1, OneMore DEF Fits
    <3> QED BY <1>2, <2>2, <3>1, <3>2, OneMore
  <2> QED BY <2>1, <2>2
<1> HIDE DEF y
<1>6. ASSUME Well(w) /\ Clear(w) <=> Well(x) /\ Caught(x, u, c),
             Waits(w) /\ HasUp(w) <=> Waits(x) /\ (u => HasUp(x)),
             A(w), B(w)
      PROVE  /\ Well(q) <=> Well(x) /\ Caught(x, u, c)
             /\ Waits(q) <=> Waits(x) /\ (u => HasUp(x))
             /\ A(q) /\ B(q)
  <2> HIDE DEF w
  <2>1. \A o \in Opens : ~Streams(Rest, o)
    BY <1>3, <1>4
  <2>2. "RESUME" \in StreamKinds /\ "RESUME" /= "DATA"
    BY DEF StreamKinds
  <2>3. Fits(w, Rest) <=> Clear(w)
    BY <1>2, <1>3, <2>2 DEF Fits
  <2>4. Well(q) <=> Well(w) /\ Clear(w)
    BY <1>1, <1>2, <2>3, OneMore
  <2>5. Waits(q) <=> Waits(w) /\ HasUp(w)
    BY <1>1, <1>2, <2>2, OneMore
  <2>6. \A o \in Opens : /\ \A s : Above(q, o, s) <=> Above(w, o, s)
                         /\ \A n : Begins(q, o, n) <=> Begins(w, o, n)
    BY <1>1, <1>2, <2>1, OneMore
  <2> HIDE DEF q
  <2>7. A(q)
    BY <1>6, <2>6
  <2>8. B(q)
    BY <1>6, <2>6
  <2> QED BY <1>6, <2>4, <2>5, <2>7, <2>8
<1>7. CASE c.o = NoOpen
  <2>1. w = y
    BY <1>7
  <2>2. A(w) /\ B(w)
    BY <1>3, <1>5, <1>7, <2>1
  <2> HIDE DEF w
  <2>3. (Well(w) /\ Clear(w) <=> Well(x) /\ Caught(x, u, c)) /\ (Waits(w) /\ HasUp(w) <=> Waits(x) /\ (u => HasUp(x)))
    BY <1>5, <1>7, <2>1 DEF Caught
  <2> QED BY <1>1, <1>6, <2>2, <2>3, OneMore, <1>2
<1>8. CASE c.o /= NoOpen /\ u /\ ~c.resume
  <2>1. w = Append(y, E3)
    BY <1>8
  <2> HIDE DEF w
  <2>2. c.o \in Opens
    BY <1>3, <1>8
  <2>3. Well(w) <=> Well(y) /\ Clear(y) /\ Under(y, c.o, c.sent + 1) /\ Leads(y, c.o, c.sent + 1) /\ Again(y, c.o)
    <3>1. Fits(y, E3) <=> Clear(y) /\ Under(y, c.o, c.sent + 1) /\ Leads(y, c.o, c.sent + 1) /\ Again(y, c.o)
      BY <1>2, <1>3, <2>2 DEF Fits, StreamKinds
    <3> QED BY <1>1, <1>2, <2>1, <3>1, OneMore
  <2>4. /\ Clear(w) <=> Clear(y)
        /\ Waits(w) <=> Waits(y) /\ HasUp(y)
        /\ HasUp(w) <=> HasUp(y)
    BY <1>1, <1>2, <2>1, OneMore DEF StreamKinds
  <2>5. A(w)
    <3> SUFFICES ASSUME NEW o \in Opens, NEW s \in Seq(Nat)
                 PROVE  Above(w, o, s) <=> Above(x, o, s) /\ (o = c.o => \A i \in DOMAIN s : s[i] <= c.sent)
      OBVIOUS
    <3>0. Above(w, o, s) <=>
            /\ Above(y, o, s)
            /\ Streams(E3, o) => \A i \in DOMAIN s : s[i] <= E3.n /\ (E3.kind = "DATA" => s[i] < E3.n)
      BY <1>1, <1>2, <2>1, OneMore
    <3>1. Above(w, o, s) <=> /\ Above(y, o, s)
                             /\ o = c.o => \A i \in DOMAIN s : s[i] <= c.sent + 1 /\ s[i] < c.sent + 1
      BY <1>2, <1>4, <3>0
    <3>2. \A i \in DOMAIN s : s[i] \in Nat
      BY ElementOfSeq, LenProperties
    <3>3. (\A i \in DOMAIN s : s[i] <= c.sent + 1 /\ s[i] < c.sent + 1) <=> (\A i \in DOMAIN s : s[i] <= c.sent)
      BY <1>3, <3>2
    <3> QED BY <1>5, <3>1, <3>3
  <2>6. B(w)
    BY <1>1, <1>2, <1>4, <1>5, <1>8, <2>1, OneMore
  <2>7. (Well(w) /\ Clear(w) <=> Well(x) /\ Caught(x, u, c)) /\ (Waits(w) /\ HasUp(w) <=> Waits(x) /\ (u => HasUp(x)))
    BY <1>5, <1>8, <2>2, <2>3, <2>4 DEF Caught
  <2> QED BY <1>1, <1>6, <2>5, <2>6, <2>7, OneMore, <1>2
<1>9. CASE c.o /= NoOpen /\ ~(u /\ ~c.resume)
  <2>1. w = Append(z, E3) /\ z = Append(y, E2)
    BY <1>9
  <2> HIDE DEF w, z
  <2>2. c.o \in Opens
    BY <1>3, <1>9
  <2>3. Well(z) <=> Well(y) /\ Clear(y) /\ Under(y, c.o, c.sent + 1)
    <3>1. Fits(y, E2) <=> Clear(y) /\ Under(y, c.o, c.sent + 1)
      BY <1>2, <1>3, <2>2 DEF Fits, StreamKinds
    <3> QED BY <1>1, <1>2, <2>1, <3>1, OneMore
  <2>4. /\ Clear(z) <=> Clear(y)
        /\ Waits(z) <=> Waits(y) /\ HasUp(y)
        /\ HasUp(z) <=> HasUp(y)
    BY <1>1, <1>2, <2>1, OneMore DEF StreamKinds
  <2>5. /\ Under(z, c.o, c.sent + 1) <=> Under(y, c.o, c.sent + 1)
        /\ Leads(z, c.o, c.sent + 1) /\ Again(z, c.o) /\ ~Absent(z, c.o)
    <3>1. Streams(E2, c.o) /\ E2.n < c.sent + 1 /\ c.sent + 1 = E2.n + 1 /\ E2.kind /= "DATA"
      BY <1>2, <1>3, <1>4
    <3> QED BY <1>1, <1>2, <2>1, <3>1, OneMore
  <2>6. Well(w) <=> Well(z) /\ Clear(z) /\ Under(z, c.o, c.sent + 1)
    <3>1. Fits(z, E3) <=> Clear(z) /\ Under(z, c.o, c.sent + 1)
      BY <1>2, <1>3, <2>2, <2>5 DEF Fits, StreamKinds
    <3> QED BY <1>1, <1>2, <2>1, <3>1, OneMore
  <2>7. /\ Clear(w) <=> Clear(z)
        /\ Waits(w) <=> Waits(z) /\ HasUp(z)
        /\ HasUp(w) <=> HasUp(z)
    BY <1>1, <1>2, <2>1, OneMore DEF StreamKinds
  <2>8. A(w)
    <3> SUFFICES ASSUME NEW o \in Opens, NEW s \in Seq(Nat)
                 PROVE  Above(w, o, s) <=> Above(x, o, s) /\ (o = c.o => \A i \in DOMAIN s : s[i] <= c.sent)
      OBVIOUS
    <3>0. Above(w, o, s) <=>
            /\ Above(z, o, s)
            /\ Streams(E3, o) => \A i \in DOMAIN s : s[i] <= E3.n /\ (E3.kind = "DATA" => s[i] < E3.n)
      BY <1>1, <1>2, <2>1, OneMore
    <3>1. Above(w, o, s) <=> /\ Above(z, o, s)
                             /\ o = c.o => \A i \in DOMAIN s : s[i] <= c.sent + 1 /\ s[i] < c.sent + 1
      BY <1>2, <1>4, <3>0
    <3>2. Above(z, o, s) <=> /\ Above(y, o, s)
                             /\ o = c.o => \A i \in DOMAIN s : s[i] <= c.sent
      BY <1>1, <1>2, <1>4, <2>1, OneMore
    <3>4. \A i \in DOMAIN s : s[i] \in Nat
      BY ElementOfSeq, LenProperties
    <3>3. (\A i \in DOMAIN s : s[i] <= c.sent + 1 /\ s[i] < c.sent + 1) <=> (\A i \in DOMAIN s : s[i] <= c.sent)
      BY <1>3, <3>4
    <3> QED BY <1>5, <3>1, <3>2, <3>3
  <2>9. B(w)
    <3> SUFFICES ASSUME NEW o \in Opens, NEW n PROVE Begins(w, o, n) <=> Begins(x, o, n)
      BY <1>9
    <3>1. Begins(w, o, n) <=> Begins(z, o, n) /\ (Absent(z, o) /\ o = c.o => E3.n = n)
      BY <1>1, <1>2, <1>4, <2>1, OneMore
    <3>2. Begins(z, o, n) <=> Begins(y, o, n)
      BY <1>1, <1>2, <2>1, OneMore
    <3> QED BY <1>5, <2>5, <3>1, <3>2
  <2>10. (Well(w) /\ Clear(w) <=> Well(x) /\ Caught(x, u, c)) /\ (Waits(w) /\ HasUp(w) <=> Waits(x) /\ (u => HasUp(x)))
    BY <1>5, <1>9, <2>2, <2>3, <2>4, <2>5, <2>6, <2>7 DEF Caught
  <2> QED BY <1>1, <1>6, <2>8, <2>9, <2>10, OneMore, <1>2
<1>10. /\ Well(q) <=> Well(x) /\ Caught(x, u, c)
       /\ Waits(q) <=> Waits(x) /\ (u => HasUp(x))
       /\ A(q) /\ B(q) /\ q \in Seq(Entry)
  BY <1>1, <1>2, <1>7, <1>8, <1>9, AppendProperties
<1> HIDE DEF q
<1> QED BY <1>1, <1>10

----------------------------------------------------------------------------
(* One entry less at the front. *)

\* The first entry of a queue is taken off.
LEMMA TakenOff ==
  ASSUME NEW h \in Entry, NEW b \in Seq(Entry)
  PROVE  LET q == <<h>> \o b
         IN  /\ Well(q) => Well(b)
             /\ h.kind \in StreamKinds => ~Waits(q)
             /\ h.kind /= "up" => (Waits(q) => Waits(b))
             /\ \A o, s : Above(q, o, s) =>
                  /\ Above(b, o, s)
                  /\ Streams(h, o) => \A i \in DOMAIN s : s[i] <= h.n /\ (h.kind = "DATA" => s[i] < h.n)
             /\ \A o, n : Begins(q, o, n) =>
                  /\ ~Streams(h, o) => Begins(b, o, n)
                  /\ Streams(h, o) /\ h.kind = "DATA" => h.n = n
             /\ \A o \in Opens : Well(q) /\ Streams(h, o) =>
                  /\ Begins(b, o, h.n + 1)
                  /\ \A j \in DOMAIN b : Of(b, o, j) => h.n <= b[j].n /\ (b[j].kind = "DATA" => h.n < b[j].n)
             /\ Well(q) /\ h.kind = "DATA" => h.n >= 1
<1> DEFINE q == <<h>> \o b
<1>1. <<h>> \in Seq(Entry) /\ Len(<<h>>) = 1 /\ <<h>>[1] = h /\ 1 \in DOMAIN <<h>>
  OBVIOUS
<1>2. /\ DOMAIN q = 1 .. 1 + Len(b) /\ q[1] = h /\ DOMAIN b = 1 .. Len(b) /\ Len(b) \in Nat
      /\ \A i \in DOMAIN b : 1 + i \in DOMAIN q /\ q[1 + i] = b[i]
      /\ \A j \in DOMAIN q : j > 1 => j - 1 \in DOMAIN b
  BY <1>1, LaterPart
<1>3. (Well(q) => Well(b)) /\ \A o, s : Above(q, o, s) => Above(b, o, s)
  BY <1>1, SuffixWell
<1> HIDE DEF q
<1>4. 1 \in DOMAIN q /\ \A o : Of(q, o, 1) <=> Streams(h, o)
  BY <1>2 DEF Of, Streams
<1>5. \A o : \A i \in DOMAIN b : Of(q, o, 1 + i) <=> Of(b, o, i)
  BY <1>2 DEF Of
<1>6. \A k \in DOMAIN q : k = 1 \/ (k - 1 \in DOMAIN b /\ 1 + (k - 1) = k /\ q[k] = b[k - 1] /\ 1 < k)
  BY <1>2
<1>7. h.kind \in StreamKinds => ~Waits(q)
  BY <1>2, <1>4 DEF Waits
<1>8. ASSUME h.kind /= "up", Waits(q) PROVE Waits(b)
  <2> SUFFICES ASSUME NEW j \in DOMAIN b, b[j].kind \in StreamKinds
               PROVE  \E k \in DOMAIN b : k < j /\ b[k].kind = "up"
    BY DEF Waits
  <2>1. PICK k \in DOMAIN q : k < 1 + j /\ q[k].kind = "up"
    BY <1>2, <1>8 DEF Waits
  <2>2. k - 1 \in DOMAIN b /\ q[k] = b[k - 1] /\ k - 1 < j
    BY <1>2, <1>6, <1>8, <2>1
  <2> QED BY <2>1, <2>2
<1>9. ASSUME NEW o, NEW s, Above(q, o, s), Streams(h, o)
      PROVE  \A i \in DOMAIN s : s[i] <= h.n /\ (h.kind = "DATA" => s[i] < h.n)
  BY <1>2, <1>4, <1>9 DEF Above
<1>10. ASSUME NEW o, NEW n, Begins(q, o, n), ~Streams(h, o) PROVE Begins(b, o, n)
  <2> SUFFICES ASSUME NEW j \in DOMAIN b, Of(b, o, j), b[j].kind = "DATA",
                      \A k \in DOMAIN b : k < j => ~Of(b, o, k)
               PROVE  b[j].n = n
    BY DEF Begins
  <2>1. 1 + j \in DOMAIN q /\ Of(q, o, 1 + j) /\ q[1 + j] = b[j]
    BY <1>2, <1>5
  <2>2. ASSUME NEW k \in DOMAIN q, k < 1 + j PROVE ~Of(q, o, k)
    <3>1. CASE k = 1
      BY <1>4, <1>10, <3>1
    <3>2. CASE k - 1 \in DOMAIN b /\ 1 + (k - 1) = k
      <4>1. k - 1 < j
        BY <1>2, <2>2, <3>2
      <4> QED BY <1>5, <3>2, <4>1
    <3> QED BY <1>6, <3>1, <3>2
  <2> QED BY <1>10, <2>1, <2>2 DEF Begins
<1>11. ASSUME NEW o, NEW n, Begins(q, o, n), Streams(h, o), h.kind = "DATA" PROVE h.n = n
  BY <1>2, <1>4, <1>11 DEF Begins
<1>12. ASSUME NEW o \in Opens, Well(q), Streams(h, o)
       PROVE  /\ Begins(b, o, h.n + 1)
              /\ \A j \in DOMAIN b : Of(b, o, j) => h.n <= b[j].n /\ (b[j].kind = "DATA" => h.n < b[j].n)
  <2>1. Begins(b, o, h.n + 1)
    <3> SUFFICES ASSUME NEW j \in DOMAIN b, Of(b, o, j), b[j].kind = "DATA",
                        \A k \in DOMAIN b : k < j => ~Of(b, o, k)
                 PROVE  b[j].n = h.n + 1
      BY DEF Begins
    <3>1. 1 + j \in DOMAIN q /\ Of(q, o, 1 + j) /\ q[1 + j] = b[j] /\ 1 < 1 + j /\ Of(q, o, 1)
      BY <1>2, <1>4, <1>5, <1>12
    <3>2. ASSUME NEW k \in DOMAIN q, 1 < k, k < 1 + j PROVE ~Of(q, o, k)
      <4>1. k - 1 \in DOMAIN b /\ 1 + (k - 1) = k /\ k - 1 < j
        BY <1>2, <1>6, <3>2
      <4> QED BY <1>5, <4>1
    <3>3. Chained(q, o)
      BY <1>12 DEF Well
    <3>4. q[1 + j].n = q[1].n + 1
      BY <1>4, <3>1, <3>2, <3>3 DEF Chained
    <3> QED BY <1>2, <3>1, <3>4
  <2>2. ASSUME NEW j \in DOMAIN b, Of(b, o, j) PROVE h.n <= b[j].n /\ (b[j].kind = "DATA" => h.n < b[j].n)
    <3>1. 1 + j \in DOMAIN q /\ Of(q, o, 1 + j) /\ q[1 + j] = b[j] /\ 1 < 1 + j /\ Of(q, o, 1) /\ Rising(q, o)
      BY <1>2, <1>4, <1>5, <1>12, <2>2 DEF Well
    <3>2. q[1].n <= q[1 + j].n /\ (q[1 + j].kind = "DATA" => q[1].n < q[1 + j].n)
      BY <1>4, <3>1 DEF Rising
    <3> QED BY <1>2, <3>1, <3>2
  <2> QED BY <2>1, <2>2
<1>13. Well(q) /\ h.kind = "DATA" => h.n >= 1
  BY <1>2, <1>4 DEF Well, Numbered
<1>14. \A o, s : Above(q, o, s) =>
         /\ Above(b, o, s)
         /\ Streams(h, o) => \A i \in DOMAIN s : s[i] <= h.n /\ (h.kind = "DATA" => s[i] < h.n)
  BY <1>3, <1>9
<1>15. \A o, n : Begins(q, o, n) =>
         /\ ~Streams(h, o) => Begins(b, o, n)
         /\ Streams(h, o) /\ h.kind = "DATA" => h.n = n
  BY <1>10, <1>11
<1> QED BY <1>3, <1>7, <1>8, <1>12, <1>13, <1>14, <1>15 DEF q

----------------------------------------------------------------------------
(* A tunnel moves on. *)

\* A tunnel that was published or ended is never as new again, and one that
\* ended stays so.
Onward(r, s) ==
  /\ DOMAIN s = Fields
  /\ s.tun = "None" => r.tun = "None"
  /\ r.tun \in Terminal => s.tun \in Terminal

\* Such changes add up.
LEMMA OnwardTrans == ASSUME NEW r, NEW s, NEW t, Onward(r, s), Onward(s, t) PROVE Onward(r, t)
BY DEF Onward

\* The operators on an OPEN's record.
LEMMA TerminateOnward ==
  ASSUME NEW r, DOMAIN r = Fields, NEW t \in Terminal
  PROVE  Onward(r, Terminate(r, t)) /\ Terminate(r, t).tun \in Terminal
<1>1. CASE r.tun \in Terminal
  BY <1>1 DEF Terminate, Onward, Terminal
<1>2. CASE r.tun \notin Terminal
  <2> DEFINE x == IF r.notify = "no" THEN "due" ELSE r.notify
             e == [r EXCEPT !.tun = t, !.notify = x]
             u == IF r.hooked THEN active_gauge_release(e) ELSE e
  <2>1. [r EXCEPT !.tun = t, !.notify = IF @ = "no" THEN "due" ELSE @] = e
    <3>1. CASE r.notify = "no"
      BY <3>1, Zenon
    <3>2. CASE r.notify /= "no"
      BY <3>2, Zenon
    <3> QED BY <3>1, <3>2
  <2>2. Terminate(r, t) = IF t = "Error" /\ r.hooked THEN Shut(u) ELSE u
    BY <1>2, <2>1 DEF Terminate
  <2> HIDE DEF x
  <2>3. DOMAIN e = Fields /\ e.tun = t
    BY DEF Fields
  <2> HIDE DEF e
  <2>4. DOMAIN u = Fields /\ u.tun = t
    BY <2>3 DEF Fields, active_gauge_release
  <2> HIDE DEF u
  <2>5. DOMAIN Shut(u) = Fields /\ Shut(u).tun = t
    BY <2>4 DEF Fields, Shut
  <2> QED BY <1>2, <2>2, <2>4, <2>5 DEF Onward, Terminal
<1> QED BY <1>1, <1>2

\* The rest of them.
LEMMA OperatorsOnward ==
  ASSUME NEW r, DOMAIN r = Fields, NEW o
  PROVE  /\ Onward(r, r) /\ Onward(r, Shut(r)) /\ Onward(r, active_gauge_release(r))
         /\ Onward(r, active_gauge_count(r)) /\ Onward(r, BookFailure(r)) /\ Onward(r, ForceClose(r))
         /\ ForceClose(r).tun \in Terminal
         /\ Onward(r, Close(r)) /\ Onward(r, RemoveIf(o, r)) /\ Onward(r, Abandoned(r))
         /\ Onward(r, target_gone(r))
<1>1. Onward(r, r) /\ \A s : DOMAIN s = Fields /\ s.tun = r.tun => Onward(r, s)
  BY DEF Onward
<1>2. \A q : DOMAIN q = Fields => DOMAIN Shut(q) = Fields /\ Shut(q).tun = q.tun
  BY DEF Shut, Fields
<1>3. Onward(r, active_gauge_release(r)) /\ Onward(r, active_gauge_count(r))
  <2>1. DOMAIN active_gauge_release(r) = Fields /\ active_gauge_release(r).tun = r.tun
    BY DEF active_gauge_release, Fields
  <2>2. DOMAIN active_gauge_count(r) = Fields /\ active_gauge_count(r).tun = r.tun
    BY DEF active_gauge_count, Fields
  <2> QED BY <1>1, <2>1, <2>2
<1>4. Onward(r, BookFailure(r))
  <2>1. DOMAIN BookFailure(r) = Fields /\ BookFailure(r).tun = r.tun
    BY DEF BookFailure, Fields
  <2> QED BY <1>1, <2>1
<1>5. Onward(r, ForceClose(r)) /\ ForceClose(r).tun \in Terminal
  <2>1. "Closed" \in Terminal
    BY DEF Terminal
  <2>2. Onward(r, Terminate(r, "Closed")) /\ Terminate(r, "Closed").tun \in Terminal
    BY <2>1, TerminateOnward
  <2>3. DOMAIN Terminate(r, "Closed") = Fields
    BY <2>2 DEF Onward
  <2> QED BY <1>2, <2>2, <2>3 DEF ForceClose, Onward
<1>6. Onward(r, Close(r))
  <2>1. CASE r.tun = "Connected"
    <3> DEFINE x == IF r.notify = "no" THEN "due" ELSE r.notify
               e == [r EXCEPT !.tun = "Disconnecting", !.notify = x]
    <3>1. [r EXCEPT !.tun = "Disconnecting", !.notify = IF @ = "no" THEN "due" ELSE @] = e
      <4>1. CASE r.notify = "no"
        BY <4>1, Zenon
      <4>2. CASE r.notify /= "no"
        BY <4>2, Zenon
      <4> QED BY <4>1, <4>2
    <3>2. Close(r) = e
      BY <2>1, <3>1 DEF Close
    <3> HIDE DEF x
    <3>3. DOMAIN e = Fields /\ e.tun = "Disconnecting"
      BY DEF Fields
    <3> QED BY <2>1, <3>2, <3>3 DEF Onward, Terminal
  <2>2. CASE r.tun /= "Connected"
    BY <1>1, <2>2 DEF Close
  <2> QED BY <2>1, <2>2
<1>7. Onward(r, RemoveIf(o, r))
  BY <1>1, <1>5, <1>6 DEF RemoveIf, LetGo
<1>8. Onward(r, Abandoned(r))
  <2>1. DOMAIN Abandoned(r) = Fields /\ Abandoned(r).tun = r.tun
    BY DEF Abandoned, Fields
  <2> QED BY <1>1, <2>1
<1>9. Onward(r, target_gone(r))
  <2>1. DOMAIN [r EXCEPT !.gone = TRUE, !.timer = FALSE] = Fields /\ [r EXCEPT !.gone = TRUE, !.timer = FALSE].tun = r.tun
    BY DEF Fields
  <2>2. DOMAIN [r EXCEPT !.posts = @ \cup {"close"}] = Fields /\ [r EXCEPT !.posts = @ \cup {"close"}].tun = r.tun
    BY DEF Fields
  <2> QED BY <1>1, <1>8, <2>1, <2>2 DEF target_gone
<1> QED BY <1>1, <1>2, <1>3, <1>4, <1>5, <1>6, <1>7, <1>8, <1>9

\* Other fields may change.
LEMMA StillOnward ==
  ASSUME NEW r, NEW s, DOMAIN s = Fields, s.tun = r.tun PROVE Onward(r, s)
BY DEF Onward

\* The place in the chain, in particular.
LEMMA GoOnward ==
  ASSUME NEW o \in Opens, DOMAIN op = Opens, NEW r, NEW s, NEW place, Onward(r, s), Go(o, s, place)
  PROVE  Onward(r, op'[o])
<1> DEFINE e == [s EXCEPT !.at = place]
<1>1. op'[o] = e
  BY DEF Go, Set
<1>2. DOMAIN e = Fields /\ e.tun = s.tun
  BY DEF Onward, Fields
<1> QED BY <1>1, <1>2 DEF Onward

\* fail_prewire().
LEMMA PrewireOnward ==
  ASSUME NEW o \in Opens, DOMAIN op = Opens, NEW r, DOMAIN r = Fields, fail_prewire(o, r)
  PROVE  Onward(r, op'[o])
<1> DEFINE q == RemoveIf(o, r)
           e == [q EXCEPT !.phase = "Resolved"]
<1>1. Onward(r, q) /\ Onward(r, r)
  BY OperatorsOnward
<1> HIDE DEF q
<1>2. DOMAIN e = Fields /\ e.tun = q.tun
  BY <1>1 DEF Onward, Fields
<1>3. Onward(r, e)
  BY <1>1, <1>2 DEF Onward
<1>4. Onward(e, BookFailure(e))
  BY <1>2, OperatorsOnward
<1>5. Go(o, BookFailure(e), "idle") \/ Go(o, r, "idle")
  BY DEF fail_prewire, q
<1> HIDE DEF e
<1>6. Onward(r, BookFailure(e))
  BY <1>3, <1>4, OnwardTrans
<1> QED BY <1>1, <1>5, <1>6, GoOnward

\* The steps before wiring.
LEMMA PrewireStepsOnward ==
  ASSUME NEW o \in Opens, DOMAIN op = Opens, DOMAIN op[o] = Fields, NEW good \in BOOLEAN,
         ResolveEnds(o, good) \/ ConnectEnds(o, good)
  PROVE  Onward(op[o], op'[o])
<1> DEFINE r == op[o]
<1>1. CASE ResolveEnds(o, good)
  <2> DEFINE e == [r EXCEPT !.phase = "Connecting", !.sock = "Connecting"]
  <2>1. Onward(r, e)
    BY DEF Onward, Fields
  <2>2. Go(o, e, "connecting") \/ fail_prewire(o, r)
    BY <1>1 DEF ResolveEnds
  <2> HIDE DEF e
  <2> QED BY <2>1, <2>2, GoOnward, PrewireOnward
<1>2. CASE ConnectEnds(o, good)
  <2> DEFINE c == IF good /\ r.sock = "Connecting" THEN "Connected" ELSE "Disconnected"
             e == [r EXCEPT !.sock = c]
             f == [e EXCEPT !.phase = "Handed"]
  <2>1. [op[o] EXCEPT !.sock = IF good /\ @ = "Connecting" THEN "Connected" ELSE "Disconnected"] = e
    <3>1. CASE good /\ r.sock = "Connecting"
      BY <3>1, Zenon
    <3>2. CASE ~(good /\ r.sock = "Connecting")
      BY <3>2, Zenon
    <3> QED BY <3>1, <3>2
  <2> HIDE DEF c
  <2>2. DOMAIN e = Fields /\ e.tun = r.tun /\ DOMAIN f = Fields /\ f.tun = r.tun
    BY DEF Fields
  <2>3. Onward(r, e) /\ Onward(r, f)
    BY <2>2, StillOnward
  <2>4. Go(o, f, "handed") \/ Go(o, Shut(e), "idle") \/ fail_prewire(o, e)
    BY <1>2, <2>1 DEF ConnectEnds
  <2> HIDE DEF e, f
  <2>5. Onward(r, Shut(e))
    BY <2>2, <2>3, OperatorsOnward, OnwardTrans
  <2>6. fail_prewire(o, e) => Onward(e, op'[o])
    BY <2>2, PrewireOnward
  <2> QED BY <2>3, <2>4, <2>5, <2>6, GoOnward, OnwardTrans
<1> QED BY <1>1, <1>2

\* Wiring and the gate.
LEMMA WiringOnward ==
  ASSUME NEW o \in Opens, DOMAIN op = Opens, DOMAIN op[o] = Fields,
         \/ WireStarts(o) \/ WireLapsed(o) \/ InstallHooks(o) \/ Recheck(o)
         \/ \E timer \in BOOLEAN : Attempt(o, timer)
         \/ \E out \in {"Sent", "SendqFull", "PermanentFail"} : SendAck(o, out)
         \/ Verdict(o)
  PROVE  Onward(op[o], op'[o])
<1> DEFINE r == op[o]
<1>0. Onward(r, r) /\ Onward(r, Shut(r)) /\ Onward(r, Abandoned(r))
  BY OperatorsOnward
<1>00. DOMAIN Shut(r) = Fields
  BY <1>0 DEF Onward
<1>1. CASE WireStarts(o) \/ WireLapsed(o)
  <2>1. Onward(r, BookFailure(Shut(r)))
    BY <1>0, <1>00, OperatorsOnward, OnwardTrans
  <2> QED BY <1>0, <1>1, <2>1, GoOnward DEF WireStarts, WireLapsed
<1>2. CASE InstallHooks(o)
  <2> DEFINE e == [r EXCEPT !.hooked = TRUE, !.gate = "Pending"]
  <2>1. Onward(r, e) /\ Go(o, e, "recheck")
    BY <1>2 DEF InstallHooks, Onward, Fields
  <2> HIDE DEF e
  <2> QED BY <2>1, GoOnward
<1>3. CASE Recheck(o)
  <2> DEFINE q == active_gauge_release(Shut(r))
             e == [q EXCEPT !.gate = "Abandoned"]
             f == RemoveIf(o, e)
  <2>1. Go(o, r, "attempt") \/ Go(o, BookFailure(f), "idle")
    BY <1>3 DEF Recheck
  <2>2. Onward(r, q)
    BY <1>0, <1>00, OperatorsOnward, OnwardTrans
  <2> HIDE DEF q
  <2>3. Onward(r, e) /\ DOMAIN e = Fields
    BY <2>2 DEF Onward, Fields
  <2> HIDE DEF e
  <2>4. Onward(r, f) /\ DOMAIN f = Fields
    BY <2>3, OperatorsOnward, OnwardTrans DEF Onward
  <2> HIDE DEF f
  <2>5. Onward(r, BookFailure(f))
    BY <2>4, OperatorsOnward, OnwardTrans
  <2> QED BY <1>0, <2>1, <2>5, GoOnward
<1>4. ASSUME NEW timer \in BOOLEAN, Attempt(o, timer) PROVE Onward(r, op'[o])
  <2> DEFINE e == [r EXCEPT !.timer = FALSE, !.byTimer = timer]
             f == [e EXCEPT !.gate = "Sending"]
  <2>1. DOMAIN e = Fields /\ e.tun = r.tun /\ DOMAIN f = Fields /\ f.tun = r.tun
    BY DEF Fields
  <2>2. Go(o, f, "sending") \/ Go(o, e, "idle")
    BY <1>4 DEF Attempt
  <2>3. Onward(r, e) /\ Onward(r, f)
    BY <2>1, StillOnward
  <2> HIDE DEF e, f
  <2> QED BY <2>2, <2>3, GoOnward
<1>5. ASSUME NEW out, SendAck(o, out) PROVE Onward(r, op'[o])
  <2> DEFINE e == [r EXCEPT !.out = out]
  <2>1. Onward(r, e) /\ Go(o, e, "verdict")
    BY <1>5 DEF SendAck, Onward, Fields
  <2> HIDE DEF e
  <2> QED BY <2>1, GoOnward
<1>6. CASE Verdict(o)
  <2> DEFINE e == [r EXCEPT !.gate = "Committing"]
             f == [r EXCEPT !.gate = "Pending", !.timer = TRUE]
  <2>1. Onward(r, e) /\ Onward(r, f)
    BY DEF Onward, Fields
  <2>2. Go(o, Abandoned(r), "idle") \/ Go(o, e, "owned") \/ Go(o, f, "idle")
    BY <1>6 DEF Verdict
  <2> HIDE DEF e, f
  <2> QED BY <1>0, <2>1, <2>2, GoOnward
<1> QED BY <1>1, <1>2, <1>3, <1>4, <1>5, <1>6

\* abandon_open_ack() and its like.
LEMMA ReleaseOnward ==
  ASSUME NEW o, NEW r, DOMAIN r = Fields PROVE Onward(r, Release(o, r))
<1> DEFINE e == [r EXCEPT !.failed = @ + 1]
           f == RemoveIf(o, e)
           g == ForceClose(f)
           h == Shut(g)
<1>1. Onward(r, e) /\ DOMAIN e = Fields
  BY DEF Onward, Fields
<1> HIDE DEF e
<1>2. Onward(r, f) /\ DOMAIN f = Fields
  BY <1>1, OperatorsOnward, OnwardTrans DEF Onward
<1> HIDE DEF f
<1>3. Onward(r, g) /\ DOMAIN g = Fields
  BY <1>2, OperatorsOnward, OnwardTrans DEF Onward
<1> HIDE DEF g
<1>4. Onward(r, h) /\ DOMAIN h = Fields
  BY <1>3, OperatorsOnward, OnwardTrans DEF Onward
<1> HIDE DEF h
<1>5. Onward(r, active_gauge_release(h))
  BY <1>4, OperatorsOnward, OnwardTrans
<1> QED BY <1>5 DEF Release, e, f, g, h

\* The commit.
LEMMA CommitOnward ==
  ASSUME NEW o \in Opens, DOMAIN op = Opens, DOMAIN op[o] = Fields,
         \/ CommitOwned(o) \/ CommitClaim(o) \/ CommitVerify(o) \/ CommitPublish(o) \/ CommitCount(o)
         \/ CommitAbort(o) \/ abandon_open_ack(o) \/ Settle(o)
  PROVE  Onward(op[o], op'[o])
<1> DEFINE r == op[o]
<1>0. Onward(r, r) /\ Onward(r, active_gauge_count(r)) /\ Onward(r, Release(o, r))
  BY OperatorsOnward, ReleaseOnward
<1>1. CASE CommitOwned(o) \/ CommitVerify(o) \/ CommitCount(o) \/ CommitAbort(o)
  BY <1>0, <1>1, GoOnward DEF CommitOwned, CommitVerify, CommitCount, CommitAbort
<1>2. CASE CommitClaim(o)
  <2> DEFINE e == [r EXCEPT !.tun = "Connected"]
  <2>1. CASE r.tun = "None"
    <3>1. Onward(r, e) /\ Go(o, e, "verify")
      BY <1>2, <2>1 DEF CommitClaim, Onward, Fields, Terminal
    <3> HIDE DEF e
    <3> QED BY <3>1, GoOnward
  <2>2. CASE r.tun /= "None"
    BY <1>0, <1>2, <2>2, GoOnward DEF CommitClaim
  <2> QED BY <2>1, <2>2
<1>3. CASE CommitPublish(o)
  <2> DEFINE e == [r EXCEPT !.ok = @ + 1]
  <2>1. Onward(r, e) /\ Go(o, e, "count")
    BY <1>3 DEF CommitPublish, Onward, Fields
  <2> HIDE DEF e
  <2> QED BY <2>1, GoOnward
<1>4. CASE abandon_open_ack(o)
  <2> DEFINE q == Release(o, r)
             e == [q EXCEPT !.posts = @ \ {"abandon"}]
  <2>1. op'[o] = e
    BY <1>4 DEF abandon_open_ack, Set
  <2>2. Onward(r, q)
    BY <1>0
  <2> HIDE DEF q
  <2>3. DOMAIN e = Fields /\ e.tun = q.tun
    BY <2>2 DEF Onward, Fields
  <2> QED BY <2>1, <2>2, <2>3 DEF Onward
<1>5. CASE Settle(o)
  <2> DEFINE p == IF r.gone THEN r.posts \cup {"close"} ELSE r.posts
             e == [r EXCEPT !.gate = "Committed", !.posts = p]
             f == [r EXCEPT !.gate = "Abandoned"]
  <2>0. [op[o] EXCEPT !.gate = "Committed", !.posts = IF op[o].gone THEN @ \cup {"close"} ELSE @] = e
    <3>1. CASE r.gone
      BY <3>1, Zenon
    <3>2. CASE ~r.gone
      BY <3>2, Zenon
    <3> QED BY <3>1, <3>2
  <2>1. Onward(r, e) /\ Onward(r, f)
    <3> HIDE DEF p
    <3> QED BY DEF Onward, Fields
  <2>2. Go(o, e, "idle") \/ Go(o, f, "idle")
    BY <1>5, <2>0 DEF Settle
  <2> HIDE DEF e, f
  <2> QED BY <2>1, <2>2, GoOnward
<1> QED BY <1>1, <1>2, <1>3, <1>4, <1>5

\* The target, the friend and the cleanups.
LEMMA CleanupOnward ==
  ASSUME NEW o \in Opens, DOMAIN op = Opens, DOMAIN op[o] = Fields,
         \/ CloseRuns(o) \/ RemoveRuns(o) \/ NotifyClose(o) \/ on_tcp_read_eof(o)
         \/ \E abnormal \in BOOLEAN : SocketCloses(o, abnormal)
         \/ handle_tunnel_close_frame(o) \/ handle_tunnel_error_frame(o)
         \/ Set(o, RemoveIf(o, op[o]))
  PROVE  Onward(op[o], op'[o])
<1> DEFINE r == op[o]
<1>0. \A q : Set(o, q) => op'[o] = q
  BY DEF Set
<1>00. "Closed" \in Terminal /\ "Error" \in Terminal
  BY DEF Terminal
<1>1. CASE CloseRuns(o)
  <2> DEFINE e == [r EXCEPT !.posts = @ \ {"close"}]
  <2>1. Onward(r, e) /\ DOMAIN e = Fields
    BY DEF Onward, Fields
  <2>2. op'[o] \in {e, Close(e), Terminate(e, "Error")}
    BY <1>0, <1>1 DEF CloseRuns
  <2> HIDE DEF e
  <2>3. Onward(e, Close(e)) /\ Onward(e, Terminate(e, "Error"))
    BY <1>00, <2>1, OperatorsOnward, TerminateOnward
  <2> QED BY <2>1, <2>2, <2>3, OnwardTrans
<1>2. CASE RemoveRuns(o)
  <2> DEFINE q == RemoveIf(o, r)
             e == [q EXCEPT !.posts = @ \ {"remove"}]
  <2>1. op'[o] = e /\ Onward(r, q)
    BY <1>0, <1>2, OperatorsOnward DEF RemoveRuns
  <2> HIDE DEF q
  <2>2. DOMAIN e = Fields /\ e.tun = q.tun
    BY <2>1 DEF Onward, Fields
  <2> QED BY <2>1, <2>2 DEF Onward
<1>3. CASE NotifyClose(o)
  <2> DEFINE e == [r EXCEPT !.notify = "done"]
             f == active_gauge_release(Shut(e))
             fp == [f EXCEPT !.posts = @ \cup {"remove"}]
             g == RemoveIf(o, e)
             gp == [g EXCEPT !.phase = "Resolved"]
             h == Shut(gp)
  <2>1. op'[o] \in {e, fp, BookFailure(h)}
    BY <1>0, <1>3 DEF NotifyClose
  <2>2. Onward(r, e) /\ DOMAIN e = Fields
    BY DEF Onward, Fields
  <2> HIDE DEF e
  <2>3. Onward(e, Shut(e)) /\ DOMAIN Shut(e) = Fields
    BY <2>2, OperatorsOnward DEF Onward
  <2>4. Onward(e, f)
    BY <2>3, OperatorsOnward, OnwardTrans
  <2> HIDE DEF f
  <2>5. DOMAIN fp = Fields /\ fp.tun = f.tun
    BY <2>4 DEF Onward, Fields
  <2>6. Onward(e, fp)
    BY <2>4, <2>5 DEF Onward
  <2> HIDE DEF fp
  <2>7. Onward(e, g)
    BY <2>2, OperatorsOnward
  <2> HIDE DEF g
  <2>8. DOMAIN gp = Fields /\ gp.tun = g.tun
    BY <2>7 DEF Onward, Fields
  <2>9. Onward(e, gp)
    BY <2>7, <2>8 DEF Onward
  <2> HIDE DEF gp
  <2>10. Onward(e, h) /\ DOMAIN h = Fields
    BY <2>8, <2>9, OperatorsOnward, OnwardTrans DEF Onward
  <2> HIDE DEF h
  <2>11. Onward(e, BookFailure(h))
    BY <2>10, OperatorsOnward, OnwardTrans
  <2> QED BY <2>1, <2>2, <2>6, <2>11, OnwardTrans
<1>4. CASE on_tcp_read_eof(o)
  <2> DEFINE e == [r EXCEPT !.eof = TRUE]
             f == [e EXCEPT !.tun = "Disconnecting"]
  <2>1. DOMAIN e = Fields /\ e.tun = r.tun
    BY DEF Fields
  <2>2. op'[o] \in {e, Terminate(e, "Closed")} \/ (e.tun = "Connected" /\ op'[o] = f)
    BY <1>0, <1>4 DEF on_tcp_read_eof
  <2>3. Onward(r, e)
    BY <2>1, StillOnward
  <2> HIDE DEF e
  <2>4. Onward(e, Terminate(e, "Closed"))
    BY <1>00, <2>1, TerminateOnward
  <2>5. e.tun = "Connected" => Onward(e, f)
    BY <2>1 DEF Onward, Fields, Terminal
  <2> QED BY <2>2, <2>3, <2>4, <2>5, OnwardTrans
<1>5. ASSUME NEW abnormal \in BOOLEAN, SocketCloses(o, abnormal) PROVE Onward(r, op'[o])
  <2> DEFINE e == [r EXCEPT !.sock = "Disconnected", !.shut = FALSE]
             f == [e EXCEPT !.abnormal = abnormal]
  <2>1. op'[o] \in {e, target_gone(f)}
    BY <1>0, <1>5 DEF SocketCloses
  <2>2. DOMAIN e = Fields /\ e.tun = r.tun /\ DOMAIN f = Fields /\ f.tun = r.tun
    BY DEF Fields
  <2>3. Onward(r, e) /\ Onward(r, f)
    BY <2>2, StillOnward
  <2> HIDE DEF e, f
  <2>4. Onward(f, target_gone(f))
    BY <2>2, OperatorsOnward
  <2> QED BY <2>1, <2>3, <2>4, OnwardTrans
<1>6. CASE handle_tunnel_close_frame(o) \/ handle_tunnel_error_frame(o)
  <2> DEFINE e == [r EXCEPT !.peerClosed = TRUE, !.byPeer = TRUE]
             f == [r EXCEPT !.byPeer = TRUE]
  <2>1. op'[o] \in {e, Terminate(e, "Closed"), Terminate(f, "Error")}
    BY <1>0, <1>6 DEF handle_tunnel_close_frame, handle_tunnel_error_frame
  <2>2. DOMAIN e = Fields /\ e.tun = r.tun /\ DOMAIN f = Fields /\ f.tun = r.tun
    BY DEF Fields
  <2>3. Onward(r, e) /\ Onward(r, f)
    BY <2>2, StillOnward
  <2> HIDE DEF e, f
  <2>4. Onward(e, Terminate(e, "Closed")) /\ Onward(f, Terminate(f, "Error"))
    BY <1>00, <2>2, TerminateOnward
  <2> QED BY <2>1, <2>3, <2>4, OnwardTrans
<1>7. CASE Set(o, RemoveIf(o, r))
  BY <1>0, <1>7, OperatorsOnward
<1> QED BY <1>1, <1>2, <1>3, <1>4, <1>5, <1>6, <1>7

\* Every step of an OPEN's own threads.
LEMMA OpenOnward ==
  ASSUME NEW o \in Opens, DOMAIN op = Opens, DOMAIN op[o] = Fields, OpenSteps(o) \/ OpenEvents(o)
  PROVE  Onward(op[o], op'[o])
<1>1. CASE \E good \in BOOLEAN : ResolveEnds(o, good) \/ ConnectEnds(o, good)
  BY <1>1, PrewireStepsOnward
<1>2. CASE \/ WireStarts(o) \/ WireLapsed(o) \/ InstallHooks(o) \/ Recheck(o)
           \/ \E timer \in BOOLEAN : Attempt(o, timer)
           \/ \E out \in {"Sent", "SendqFull", "PermanentFail"} : SendAck(o, out)
           \/ Verdict(o)
  BY <1>2, WiringOnward
<1>3. CASE \/ CommitOwned(o) \/ CommitClaim(o) \/ CommitVerify(o) \/ CommitPublish(o) \/ CommitCount(o)
           \/ CommitAbort(o) \/ abandon_open_ack(o) \/ Settle(o)
  BY <1>3, CommitOnward
<1>4. CASE \/ CloseRuns(o) \/ RemoveRuns(o) \/ NotifyClose(o) \/ on_tcp_read_eof(o)
           \/ \E abnormal \in BOOLEAN : SocketCloses(o, abnormal)
  BY <1>4, CleanupOnward
<1>5. CASE ShutRuns(o) \/ \E abnormal \in BOOLEAN : TargetDies(o, abnormal)
  <2>1. \E abnormal \in BOOLEAN : SocketCloses(o, abnormal)
    BY <1>5 DEF ShutRuns, TargetDies
  <2> QED BY <2>1, CleanupOnward
<1> QED BY <1>1, <1>2, <1>3, <1>4, <1>5 DEF OpenSteps, OpenEvents

----------------------------------------------------------------------------
(* Something is posted. *)

\* The three queues are one.
LEMMA QueueType ==
  ASSUME NEW d \in Seq(Entry), NEW b \in Seq(Entry), NEW l \in Seq(Entry)
  PROVE  d \o (b \o l) \in Seq(Entry)
<1>1. b \o l \in Seq(Entry)
  BY ConcatProperties
<1> QED BY <1>1, ConcatProperties

\* Whatever is behind them.
Regroups(d, b, l, a) == d \o (b \o (l \o a)) = (d \o (b \o l)) \o a

\* Behind three queues is behind one.
LEMMA OneQueue ==
  ASSUME NEW d \in Seq(Entry), NEW b \in Seq(Entry), NEW l \in Seq(Entry), NEW a \in Seq(Entry)
  PROVE  Regroups(d, b, l, a)
<1>1. (b \o l) \o a = b \o (l \o a)
  BY Joined
<1> DEFINE m == b \o l
<1>2. m \in Seq(Entry)
  BY ConcatProperties
<1> HIDE DEF m
<1>3. (d \o m) \o a = d \o (m \o a)
  BY <1>2, Joined
<1> QED BY <1>1, <1>3 DEF m, Regroups

\* It grows at its end.
LEMMA QueueGrows ==
  ASSUME NEW d \in Seq(Entry), NEW b \in Seq(Entry), NEW l \in Seq(Entry), NEW e \in Entry
  PROVE  d \o (b \o Append(l, e)) = Append(d \o (b \o l), e)
<1>1. <<e>> \in Seq(Entry) /\ Append(l, e) = l \o <<e>>
  BY AppendIsConcat
<1>2. d \o (b \o l) \in Seq(Entry)
  BY QueueType
<1>5. Regroups(d, b, l, <<e>>)
  BY <1>1, OneQueue
<1>4. d \o (b \o (l \o <<e>>)) = (d \o (b \o l)) \o <<e>>
  BY <1>5 DEF Regroups
<1>3. Append(d \o (b \o l), e) = (d \o (b \o l)) \o <<e>>
  BY <1>2, AppendIsConcat
<1> QED BY <1>1, <1>3, <1>4

\* The queues hold entries.
LEMMA Queues ==
  ASSUME LaneInv
  PROVE  /\ lane \in Seq(Entry) /\ due \in Seq(Entry) /\ slot.backlog \in Seq(Entry)
         /\ cl \in ClientRecord /\ slot \in SlotRecord
<1>1. \A s \in Seq(Message) : s \in Seq(Entry)
  <2>1. Message \subseteq Entry
    BY DEF Message, Entry
  <2> QED BY <2>1
<1>2. slot.backlog \in Seq(Message)
  BY DEF LaneInv, SlotRecord
<1> QED BY <1>1, <1>2 DEF LaneInv

\* What is queued behind the client's frames is what is on its way.
Queue == due \o (slot.backlog \o lane)

\* The client's frames are behind them.
LEMMA AheadBehind ==
  ASSUME NEW d \in Seq(Entry), NEW b \in Seq(Entry), NEW l \in Seq(Entry), NEW u, NEW c \in ClientRecord
  PROVE  Regroups(d, b, l, Ahead(u, c))
<1>1. <<>> \in Seq(Entry)
  OBVIOUS
<1>2. Ahead(u, c) \in Seq(Entry)
  BY <1>1, AheadAppends
<1> QED BY <1>2, OneQueue

\* So it is for the server's.
LEMMA StoryEnds ==
  ASSUME LaneInv PROVE Queue \in Seq(Entry) /\ Story = Queue \o Ahead(up, cl)
<1>1. lane \in Seq(Entry) /\ due \in Seq(Entry) /\ slot.backlog \in Seq(Entry) /\ cl \in ClientRecord
  BY Queues
<1>2. Regroups(due, slot.backlog, lane, Ahead(up, cl))
  BY <1>1, AheadBehind
<1>3. due \o (slot.backlog \o lane) \in Seq(Entry)
  BY <1>1, QueueType
<1> QED BY <1>2, <1>3 DEF Story, Queue, Regroups

\* And when something is posted to the strand.
LEMMA StoryGrows ==
  ASSUME LaneInv, NEW e \in Entry, lane' = Append(lane, e), UNCHANGED <<due, slot>>, cl' \in ClientRecord
  PROVE  Story' = Append(Queue, e) \o Ahead(up', cl')
<1>1. lane \in Seq(Entry) /\ due \in Seq(Entry) /\ slot.backlog \in Seq(Entry)
  BY Queues
<1>2. lane' \in Seq(Entry)
  BY <1>1, AppendProperties
<1>3. Regroups(due, slot.backlog, lane', Ahead(up', cl'))
  BY <1>1, <1>2, AheadBehind
<1>4. due \o (slot.backlog \o lane') = Append(Queue, e)
  BY <1>1, QueueGrows DEF Queue
<1> QED BY <1>3, <1>4 DEF Story, Regroups

\* Something is posted to the strand, and the client may have taken note.
LEMMA Posting ==
  ASSUME InboundInv, LaneInv, NEW e \in Entry, lane' = Append(lane, e),
         UNCHANGED <<op, reg, due, slot, got>>, \A g \in Managers : man'[g].st = man[g].st,
         cl' \in ClientRecord, cl'.judged = cl.judged,
         Well(Queue) /\ Caught(Queue, up, cl) => Fits(Queue, e) /\ Caught(Append(Queue, e), up', cl'),
         (up => HasUp(Queue)) => /\ e.kind \in StreamKinds => HasUp(Queue)
                                 /\ up' => HasUp(Queue) \/ e.kind = "up",
         \A o \in Opens : got[o] \in Seq(Nat) /\ (o = cl.o => \A i \in DOMAIN got[o] : got[o][i] <= cl.sent) =>
           /\ Streams(e, o) => \A i \in DOMAIN got[o] : got[o][i] <= e.n /\ (e.kind = "DATA" => got[o][i] < e.n)
           /\ o = cl'.o => \A i \in DOMAIN got[o] : got[o][i] <= cl'.sent,
         \A o \in Opens : \A n : (Absent(Queue, o) /\ o = cl.o /\ up /\ ~cl.resume => cl.sent + 1 = n) =>
           /\ Absent(Queue, o) /\ Streams(e, o) /\ e.kind = "DATA" => e.n = n
           /\ Absent(Queue, o) /\ ~Streams(e, o) /\ o = cl'.o /\ up' /\ ~cl'.resume => cl'.sent + 1 = n
  PROVE  InboundInv'
<1> DEFINE x == Queue
           y == Append(x, e)
<1>1. cl \in ClientRecord
  BY Queues
<1>3. x \in Seq(Entry) /\ y \in Seq(Entry) /\ Story = x \o Ahead(up, cl)
  BY StoryEnds, AppendProperties
<1>4. Story' = y \o Ahead(up', cl')
  BY StoryGrows
<1> HIDE DEF x
<1>5. /\ Well(Story) <=> Well(x) /\ Caught(x, up, cl)
      /\ Waits(Story) <=> Waits(x) /\ (up => HasUp(x))
      /\ \A o \in Opens : \A s \in Seq(Nat) : Above(Story, o, s) <=>
           Above(x, o, s) /\ (o = cl.o => \A i \in DOMAIN s : s[i] <= cl.sent)
      /\ \A o \in Opens : \A n : Begins(Story, o, n) <=>
           Begins(x, o, n) /\ (Absent(x, o) /\ o = cl.o /\ up /\ ~cl.resume => cl.sent + 1 = n)
  BY <1>1, <1>3, ClientStory
<1>6. /\ Well(y) <=> Well(x) /\ Fits(x, e)
      /\ Waits(y) <=> Waits(x) /\ (e.kind \in StreamKinds => HasUp(x))
      /\ HasUp(y) <=> HasUp(x) \/ e.kind = "up"
      /\ \A o : Absent(y, o) <=> Absent(x, o) /\ ~Streams(e, o)
      /\ \A o, s : Above(y, o, s) <=>
           /\ Above(x, o, s)
           /\ Streams(e, o) => \A i \in DOMAIN s : s[i] <= e.n /\ (e.kind = "DATA" => s[i] < e.n)
      /\ \A o, n : Begins(y, o, n) <=>
           Begins(x, o, n) /\ (Absent(x, o) /\ Streams(e, o) /\ e.kind = "DATA" => e.n = n)
  BY <1>3, OneMore
<1>00. Well(x) /\ Caught(x, up, cl) => Fits(x, e) /\ Caught(y, up', cl')
  BY DEF x
<1>01. (up => HasUp(x)) => /\ e.kind \in StreamKinds => HasUp(x)
                           /\ up' => HasUp(x) \/ e.kind = "up"
  BY DEF x
<1>02. \A o \in Opens : \A n : (Absent(x, o) /\ o = cl.o /\ up /\ ~cl.resume => cl.sent + 1 = n) =>
           /\ Absent(x, o) /\ Streams(e, o) /\ e.kind = "DATA" => e.n = n
           /\ Absent(x, o) /\ ~Streams(e, o) /\ o = cl'.o /\ up' /\ ~cl'.resume => cl'.sent + 1 = n
  BY DEF x
<1> HIDE DEF y
<1>7. /\ Well(Story') <=> Well(y) /\ Caught(y, up', cl')
      /\ Waits(Story') <=> Waits(y) /\ (up' => HasUp(y))
      /\ \A o \in Opens : \A s \in Seq(Nat) : Above(Story', o, s) <=>
           Above(y, o, s) /\ (o = cl'.o => \A i \in DOMAIN s : s[i] <= cl'.sent)
      /\ \A o \in Opens : \A n : Begins(Story', o, n) <=>
           Begins(y, o, n) /\ (Absent(y, o) /\ o = cl'.o /\ up' /\ ~cl'.resume => cl'.sent + 1 = n)
  BY <1>3, <1>4, ClientStory
<1>8. Well(Story')
  BY <1>5, <1>6, <1>7, <1>00 DEF InboundInv
<1>9. Waits(Story) => Waits(Story')
  BY <1>5, <1>6, <1>7, <1>01
<1>10. \A o \in Opens : Live(o)' = Live(o)
  BY DEF Live, Owns, Alive
<1>11. \A o \in Opens : Taken(o)'
  <2> SUFFICES ASSUME NEW o \in Opens PROVE Taken(o)'
    OBVIOUS
  <2>0. Taken(o)
    BY DEF InboundInv
  <2>1. got[o] \in Seq(Nat) /\ Above(Story, o, got[o])
    BY <2>0 DEF Taken
  <2>2. o = cl.o => \A i \in DOMAIN got[o] : got[o][i] <= cl.sent
    BY <1>5, <2>1
  <2>3. /\ Streams(e, o) => \A i \in DOMAIN got[o] : got[o][i] <= e.n /\ (e.kind = "DATA" => got[o][i] < e.n)
        /\ o = cl'.o => \A i \in DOMAIN got[o] : got[o][i] <= cl'.sent
    BY <2>1, <2>2
  <2>4. Above(x, o, got[o])
    BY <1>5, <2>1
  <2>5. Above(y, o, got[o])
    BY <1>6, <2>3, <2>4
  <2>6. Above(Story', o, got[o])
    BY <1>7, <2>1, <2>3, <2>5
  <2>7. ASSUME NEW n, Begins(Story, o, n) PROVE Begins(Story', o, n)
    <3>1. Begins(x, o, n) /\ (Absent(x, o) /\ o = cl.o /\ up /\ ~cl.resume => cl.sent + 1 = n)
      BY <1>5, <2>7
    <3>2. /\ Absent(x, o) /\ Streams(e, o) /\ e.kind = "DATA" => e.n = n
          /\ Absent(x, o) /\ ~Streams(e, o) /\ o = cl'.o /\ up' /\ ~cl'.resume => cl'.sent + 1 = n
      BY <1>02, <3>1
    <3>3. Begins(y, o, n) /\ (Absent(y, o) <=> Absent(x, o) /\ ~Streams(e, o))
      BY <1>6, <3>1, <3>2
    <3> QED BY <1>7, <3>2, <3>3
  <2>8. op' = op /\ got' = got
    OBVIOUS
  <2>9. Live(o)' = Live(o)
    BY <1>10
  <2> QED BY <2>0, <2>6, <2>7, <2>8, <2>9 DEF Taken
<1>12. OneInUse' /\ Throttle' /\ HeldWaits'
  <2>1. OneInUse'
    BY DEF InboundInv, OneInUse, InUse
  <2>2. Throttle'
    BY DEF InboundInv, Throttle
  <2>3. HeldWaits'
    BY <1>9 DEF InboundInv, HeldWaits
  <2> QED BY <2>1, <2>2, <2>3
<1>13. DOMAIN got' = Opens
  BY DEF InboundInv
<1> QED BY <1>8, <1>11, <1>12, <1>13 DEF InboundInv

\* Something that does not matter to a stream is posted; the client goes on, or
\* is done with its tunnel.
LEMMA PostsAside ==
  ASSUME InboundInv, LaneInv, NEW e \in Entry, lane' = Append(lane, e), e.kind \notin Marks \cup {"up"},
         UNCHANGED <<op, reg, due, slot, got, up>>, \A g \in Managers : man'[g].st = man[g].st,
         cl' = cl \/ (cl' = [cl EXCEPT !.o = NoOpen])
  PROVE  InboundInv'
<1>1. cl \in ClientRecord /\ cl' \in ClientRecord /\ cl'.judged = cl.judged
      /\ (cl'.o = cl.o \/ cl'.o = NoOpen) /\ cl'.sent = cl.sent /\ cl'.resume = cl.resume
  <2>1. cl \in ClientRecord
    BY Queues
  <2>2. cl' = [cl EXCEPT !.o = NoOpen] => cl' \in ClientRecord /\ cl'.judged = cl.judged
          /\ cl'.o = NoOpen /\ cl'.sent = cl.sent /\ cl'.resume = cl.resume
    BY <2>1 DEF ClientRecord
  <2> QED BY <2>1, <2>2
<1>2. e.kind \notin StreamKinds /\ e.kind /= "down" /\ e.kind /= "up" /\ \A o : ~Streams(e, o)
  BY DEF Marks, Streams
<1>3. NoOpen \notin Opens /\ Queue \in Seq(Entry)
  BY OpenAssumption, StoryEnds
<1>4. /\ Clear(Append(Queue, e)) <=> Clear(Queue)
      /\ \A o, m : Under(Append(Queue, e), o, m) <=> Under(Queue, o, m)
      /\ \A o, m : Leads(Append(Queue, e), o, m) <=> Leads(Queue, o, m)
      /\ \A o : Again(Append(Queue, e), o) <=> Again(Queue, o)
  BY <1>2, <1>3, OneMore
<1>5. Fits(Queue, e)
  BY <1>2 DEF Fits
<1>6. Caught(Queue, up, cl) => Caught(Append(Queue, e), up', cl')
  BY <1>1, <1>4 DEF Caught
<1>7. /\ (up => HasUp(Queue)) => /\ e.kind \in StreamKinds => HasUp(Queue)
                                 /\ up' => HasUp(Queue) \/ e.kind = "up"
      /\ \A o \in Opens : got[o] \in Seq(Nat) /\ (o = cl.o => \A i \in DOMAIN got[o] : got[o][i] <= cl.sent) =>
           /\ Streams(e, o) => \A i \in DOMAIN got[o] : got[o][i] <= e.n /\ (e.kind = "DATA" => got[o][i] < e.n)
           /\ o = cl'.o => \A i \in DOMAIN got[o] : got[o][i] <= cl'.sent
      /\ \A o \in Opens : \A n : (Absent(Queue, o) /\ o = cl.o /\ up /\ ~cl.resume => cl.sent + 1 = n) =>
           /\ Absent(Queue, o) /\ Streams(e, o) /\ e.kind = "DATA" => e.n = n
           /\ Absent(Queue, o) /\ ~Streams(e, o) /\ o = cl'.o /\ up' /\ ~cl'.resume => cl'.sent + 1 = n
  BY <1>1, <1>2, <1>3
<1> QED BY <1>1, <1>5, <1>6, <1>7, Posting

\* The timers and the keepalive.
LEMMA TimersInbound ==
  ASSUME InboundInv, ServerInv,
         RetryFires \/ (\E g \in Managers : KeepaliveVerdict(g)) \/ (\E h \in holds.pending : HoldExpires(h))
  PROVE  InboundInv'
<1>0. LaneInv /\ Table
  BY DEF ServerInv, OpensInv
<1>1. CASE RetryFires
  <2>1. Task("retry") \in Entry /\ Task("retry").kind \notin Marks \cup {"up"}
    BY DEF Task, Entry, Kinds, Marks, StreamKinds
  <2>2. lane' = Append(lane, Task("retry"))
    BY <1>1 DEF RetryFires, Post
  <2>3. UNCHANGED <<op, reg, due, slot, got, up>> /\ cl' = cl /\ \A g \in Managers : man'[g].st = man[g].st
    BY <1>1 DEF RetryFires, openVars
  <2> QED BY <1>0, <2>1, <2>2, <2>3, PostsAside
<1>2. ASSUME NEW g \in Managers, KeepaliveVerdict(g) PROVE InboundInv'
  <2> DEFINE e == [kind |-> "verdict", o |-> NoOpen, n |-> g]
  <2>1. e \in Entry /\ e.kind \notin Marks \cup {"up"}
    BY OpenAssumption DEF Entry, Kinds, Marks, StreamKinds
  <2>2. lane' = Append(lane, e)
    BY <1>2 DEF KeepaliveVerdict, Post
  <2>3. UNCHANGED <<op, reg, due, slot, got, up>> /\ cl' = cl
    BY <1>2 DEF KeepaliveVerdict, openVars
  <2>4. \A h \in Managers : man'[h].st = man[h].st
    BY <1>0, <1>2 DEF KeepaliveVerdict, Table, ManRecord
  <2> HIDE DEF e
  <2> QED BY <1>0, <2>1, <2>2, <2>3, <2>4, PostsAside
<1>3. ASSUME NEW h \in holds.pending, HoldExpires(h) PROVE InboundInv'
  <2> DEFINE e == [kind |-> "prune", o |-> NoOpen, n |-> h]
  <2>1. e \in Entry /\ e.kind \notin Marks \cup {"up"}
    <3>1. h \in Nat
      BY <1>0 DEF LaneInv, HoldRecord
    <3> QED BY <3>1 DEF Entry, Kinds, Marks, StreamKinds
  <2>2. lane' = Append(lane, e)
    BY <1>3 DEF HoldExpires, Post
  <2>3. UNCHANGED <<op, reg, due, slot, got, up>> /\ cl' = cl /\ \A g \in Managers : man'[g].st = man[g].st
    BY <1>3 DEF HoldExpires, openVars
  <2> HIDE DEF e
  <2> QED BY <1>0, <2>1, <2>2, <2>3, PostsAside
<1> QED BY <1>1, <1>2, <1>3

\* More room above the numbers queued.
LEMMA UnderMore ==
  ASSUME NEW x \in Seq(Entry), NEW o, NEW m \in Nat, NEW k \in Nat, m <= k, Under(x, o, m)
  PROVE  Under(x, o, k)
<1>1. \A i \in DOMAIN x : x[i] \in Entry
  BY LenProperties, ElementOfSeq
<1> QED BY <1>1 DEF Under, Entry

\* The link.
LEMMA LinkInbound ==
  ASSUME InboundInv, ServerInv, LinkUp \/ (\E k \in 0 .. 1 : LinkDown(k))
  PROVE  InboundInv'
<1>0. LaneInv /\ Queue \in Seq(Entry) /\ cl \in ClientRecord /\ NoOpen \notin Opens
  BY StoryEnds, Queues, OpenAssumption DEF ServerInv, OpensInv
<1>00. cl.o \in Opens \cup {NoOpen} /\ cl.sent \in Nat
  BY <1>0 DEF ClientRecord
<1>1. CASE LinkUp
  <2> DEFINE e == Task("up")
  <2>1. e \in Entry /\ e.kind = "up" /\ e.kind \notin StreamKinds /\ \A o : ~Streams(e, o)
    BY DEF Task, Entry, Kinds, StreamKinds, Streams
  <2>2. lane' = Append(lane, e) /\ ~up /\ up' /\ UNCHANGED <<op, reg, due, slot, got, man>>
    BY <1>1 DEF LinkUp, Post, openVars
  <2>3. cl' \in ClientRecord /\ cl'.judged = cl.judged /\ cl'.o = cl.o /\ cl'.sent = cl.sent
        /\ (cl.o /= NoOpen => cl'.resume)
    BY <1>0, <1>1 DEF LinkUp, ClientRecord
  <2> HIDE DEF e
  <2>4. Clear(Append(Queue, e)) /\ \A o, m : Under(Append(Queue, e), o, m) <=> Under(Queue, o, m)
    BY <1>0, <2>1, OneMore
  <2>5. Fits(Queue, e)
    BY <2>1 DEF Fits
  <2>6. Caught(Queue, up, cl) => Caught(Append(Queue, e), up', cl')
    BY <2>3, <2>4 DEF Caught
  <2>7. \A o \in Opens : o = cl'.o => cl'.resume /\ o = cl.o
    BY <1>0, <2>3
  <2>8. /\ (up => HasUp(Queue)) => /\ e.kind \in StreamKinds => HasUp(Queue)
                                   /\ up' => HasUp(Queue) \/ e.kind = "up"
        /\ \A o \in Opens : got[o] \in Seq(Nat) /\ (o = cl.o => \A i \in DOMAIN got[o] : got[o][i] <= cl.sent) =>
             /\ Streams(e, o) => \A i \in DOMAIN got[o] : got[o][i] <= e.n /\ (e.kind = "DATA" => got[o][i] < e.n)
             /\ o = cl'.o => \A i \in DOMAIN got[o] : got[o][i] <= cl'.sent
        /\ \A o \in Opens : \A n : (Absent(Queue, o) /\ o = cl.o /\ up /\ ~cl.resume => cl.sent + 1 = n) =>
             /\ Absent(Queue, o) /\ Streams(e, o) /\ e.kind = "DATA" => e.n = n
             /\ Absent(Queue, o) /\ ~Streams(e, o) /\ o = cl'.o /\ up' /\ ~cl'.resume => cl'.sent + 1 = n
    BY <2>1, <2>3, <2>7
  <2> QED BY <1>0, <2>1, <2>2, <2>3, <2>5, <2>6, <2>8, Posting
<1>2. ASSUME NEW k \in 0 .. 1, LinkDown(k) PROVE InboundInv'
  <2> DEFINE e == Task("down")
  <2>1. e \in Entry /\ e.kind = "down" /\ e.kind \notin StreamKinds /\ \A o : ~Streams(e, o)
    BY DEF Task, Entry, Kinds, StreamKinds, Streams
  <2>2. lane' = Append(lane, e) /\ up /\ ~up' /\ UNCHANGED <<op, reg, due, slot, got, man>>
    BY <1>2 DEF LinkDown, Post, openVars
  <2>3. cl' \in ClientRecord /\ cl'.judged = cl.judged /\ cl'.o = cl.o
        /\ cl'.sent \in Nat /\ cl.sent <= cl'.sent
    <3>1. CASE cl.o = NoOpen
      <4>1. cl' = [cl EXCEPT !.sent = cl.sent]
        BY <1>2, <3>1, Zenon DEF LinkDown
      <4> QED BY <1>0, <4>1 DEF ClientRecord
    <3>2. CASE cl.o /= NoOpen
      <4>1. cl' = [cl EXCEPT !.sent = cl.sent + k]
        BY <1>2, <3>2, Zenon DEF LinkDown
      <4>2. cl.sent + k \in Nat /\ cl.sent <= cl.sent + k
        BY <1>00
      <4> QED BY <1>0, <4>1, <4>2 DEF ClientRecord
    <3> QED BY <3>1, <3>2
  <2> HIDE DEF e
  <2>4. \A o, m : Under(Append(Queue, e), o, m) <=> Under(Queue, o, m)
    BY <1>0, <2>1, OneMore
  <2>5. Fits(Queue, e)
    BY <2>1 DEF Fits
  <2>6. Caught(Queue, up, cl) => Caught(Append(Queue, e), up', cl')
    <3>1. Under(Queue, cl.o, cl.sent + 1) => Under(Queue, cl.o, cl'.sent + 1)
      BY <1>0, <1>00, <2>3, UnderMore
    <3> QED BY <2>2, <2>3, <2>4, <3>1 DEF Caught
  <2>7. ASSUME NEW o \in Opens, got[o] \in Seq(Nat), o = cl.o => \A i \in DOMAIN got[o] : got[o][i] <= cl.sent, o = cl'.o,
               NEW i \in DOMAIN got[o]
        PROVE  got[o][i] <= cl'.sent
    <3>1. got[o][i] \in Nat
      BY <2>7, LenProperties, ElementOfSeq
    <3>2. got[o][i] <= cl.sent
      BY <2>3, <2>7
    <3> QED BY <1>00, <2>3, <3>1, <3>2
  <2>8. /\ (up => HasUp(Queue)) => /\ e.kind \in StreamKinds => HasUp(Queue)
                                   /\ up' => HasUp(Queue) \/ e.kind = "up"
        /\ \A o \in Opens : \A n : (Absent(Queue, o) /\ o = cl.o /\ up /\ ~cl.resume => cl.sent + 1 = n) =>
             /\ Absent(Queue, o) /\ Streams(e, o) /\ e.kind = "DATA" => e.n = n
             /\ Absent(Queue, o) /\ ~Streams(e, o) /\ o = cl'.o /\ up' /\ ~cl'.resume => cl'.sent + 1 = n
    BY <2>1, <2>2
  <2>9. \A o \in Opens : got[o] \in Seq(Nat) /\ (o = cl.o => \A i \in DOMAIN got[o] : got[o][i] <= cl.sent) =>
             /\ Streams(e, o) => \A i \in DOMAIN got[o] : got[o][i] <= e.n /\ (e.kind = "DATA" => got[o][i] < e.n)
             /\ o = cl'.o => \A i \in DOMAIN got[o] : got[o][i] <= cl'.sent
    BY <2>1, <2>7
  <2> QED BY <1>0, <2>1, <2>2, <2>3, <2>5, <2>6, <2>8, <2>9, Posting
<1> QED BY <1>1, <1>2

\* Nothing is queued for a tunnel the client may open, and it took nothing.
LEMMA UnusedAbsent ==
  ASSUME InboundInv, ServerInv, NEW o \in UnusedOpens
  PROVE  o \in Opens /\ Absent(Queue, o) /\ got[o] = <<>>
<1>1. o \in Opens /\ op[o].phase = "None" /\ \A f \in ToSet(lane \o due \o slot.backlog) : f.o /= o
  BY DEF UnusedOpens
<1>2. lane \in Seq(Entry) /\ due \in Seq(Entry) /\ slot.backlog \in Seq(Entry)
  BY Queues DEF ServerInv, OpensInv
<1>3. /\ ToSet(lane) \subseteq ToSet(lane \o due \o slot.backlog)
      /\ ToSet(due) \cup ToSet(slot.backlog) \subseteq ToSet(lane \o due \o slot.backlog)
  BY <1>2, Gathered
<1>4. \A i \in DOMAIN lane : lane[i].o /= o
  BY <1>1, <1>3 DEF ToSet
<1>5. \A i \in DOMAIN due : due[i].o /= o
  BY <1>1, <1>3 DEF ToSet
<1>6. \A i \in DOMAIN slot.backlog : slot.backlog[i].o /= o
  BY <1>1, <1>3 DEF ToSet
<1>7. ASSUME NEW a \in Seq(Entry), NEW b \in Seq(Entry), \A i \in DOMAIN a : a[i].o /= o, \A i \in DOMAIN b : b[i].o /= o
      PROVE  a \o b \in Seq(Entry) /\ \A i \in DOMAIN (a \o b) : (a \o b)[i].o /= o
  <2>1. /\ DOMAIN (a \o b) = 1 .. Len(a) + Len(b) /\ DOMAIN a = 1 .. Len(a)
        /\ \A x \in DOMAIN (a \o b) : x > Len(a) => x - Len(a) \in DOMAIN b /\ (a \o b)[Len(a) + (x - Len(a))] = b[x - Len(a)]
        /\ \A x \in DOMAIN a : (a \o b)[x] = a[x]
        /\ Len(a) \in Nat
    BY LaterPart
  <2>2. ASSUME NEW i \in DOMAIN (a \o b) PROVE (a \o b)[i].o /= o
    <3>1. CASE i > Len(a)
      <4>1. Len(a) + (i - Len(a)) = i
        BY <2>1
      <4> QED BY <1>7, <2>1, <3>1, <4>1
    <3>2. CASE ~(i > Len(a))
      <4>1. i \in DOMAIN a
        BY <2>1, <3>2
      <4> QED BY <1>7, <2>1, <4>1
    <3> QED BY <3>1, <3>2
  <2>3. a \o b \in Seq(Entry)
    BY ConcatProperties
  <2> QED BY <2>2, <2>3
<1> DEFINE bl == slot.backlog \o lane
<1>8. bl \in Seq(Entry) /\ \A i \in DOMAIN bl : bl[i].o /= o
  BY <1>2, <1>4, <1>6, <1>7
<1> HIDE DEF bl
<1>9. \A i \in DOMAIN (due \o bl) : (due \o bl)[i].o /= o
  BY <1>2, <1>5, <1>7, <1>8
<1>10. Absent(Queue, o)
  BY <1>9 DEF Absent, Of, Queue, bl
<1>11. ~op[o].hooked /\ op[o].gate = "none"
  BY <1>1 DEF ServerInv, OpensInv, OpenInv, OpenType, Stage
<1>12. got[o] = <<>>
  BY <1>1, <1>11 DEF InboundInv, Taken
<1> QED BY <1>1, <1>10, <1>12

\* What the client sends next fits what is queued.
LEMMA ClientInbound ==
  ASSUME InboundInv, ServerInv, NEW k \in {"OPEN", "DATA", "CLOSE", "ERROR", "RESUME", "PING"}, ClientSends(k)
  PROVE  InboundInv'
<1>0. LaneInv /\ Queue \in Seq(Entry) /\ cl \in ClientRecord /\ NoOpen \notin Opens /\ up /\ up'
      /\ (cl.resume <=> k = "RESUME") /\ UNCHANGED <<op, reg, due, slot, got, man, up>>
  BY StoryEnds, Queues, OpenAssumption DEF ServerInv, OpensInv, ClientSends, openVars, ClientRecord
<1>00. cl.o \in Opens \cup {NoOpen} /\ cl.sent \in Nat
  BY <1>0 DEF ClientRecord
<1>1. CASE k = "OPEN"
  <2> DEFINE o == CHOOSE x \in UnusedOpens : TRUE
             e == Frame(k, o, 0)
  <2>1. o \in UnusedOpens
    BY <1>1 DEF ClientSends
  <2>2. lane' = Append(lane, e) /\ (cl.o = NoOpen \/ IdOf(o) /= IdOf(cl.o))
        /\ cl' = IF cl.o = NoOpen THEN [cl EXCEPT !.o = o, !.sent = 0] ELSE cl
    BY <1>1 DEF ClientSends, Post
  <2> HIDE DEF o
  <2>3. o \in Opens /\ Absent(Queue, o) /\ got[o] = <<>> /\ o /= cl.o
    BY <1>0, <2>1, <2>2, UnusedAbsent
  <2>4. e \in Entry /\ e.kind = "OPEN" /\ e.o = o /\ e.n = 0 /\ e.kind \in StreamKinds
        /\ \A x : Streams(e, x) <=> x = o
    BY <1>1, <2>3 DEF Frame, Entry, Kinds, StreamKinds, Streams
  <2>5. cl' \in ClientRecord /\ cl'.judged = cl.judged /\ ~cl'.resume
        /\ (cl.o = NoOpen => cl'.o = o /\ cl'.sent = 0) /\ (cl.o /= NoOpen => cl' = cl)
    BY <1>0, <1>1, <2>2, <2>3 DEF ClientRecord
  <2> HIDE DEF e
  <2>6. /\ Clear(Append(Queue, e)) <=> Clear(Queue)
        /\ \A x, m : Under(Append(Queue, e), x, m) <=> Under(Queue, x, m) /\ (Streams(e, x) => e.n < m)
        /\ \A x, m : Leads(Append(Queue, e), x, m) <=> IF Streams(e, x) THEN m = e.n + 1 ELSE Leads(Queue, x, m)
        /\ \A x : Again(Append(Queue, e), x) <=> Streams(e, x) \/ Again(Queue, x)
    BY <1>0, <2>4, OneMore
  <2>7. \A m : Under(Queue, o, m)
    BY <2>3 DEF Absent, Under
  <2>8. Caught(Queue, up, cl) => Fits(Queue, e) /\ Caught(Append(Queue, e), up', cl')
    <3>1. Caught(Queue, up, cl) => Fits(Queue, e)
      BY <1>0, <2>4, <2>7 DEF Fits, Caught
    <3>2. CASE cl.o = NoOpen
      <4>1. Under(Append(Queue, e), o, 1) /\ Leads(Append(Queue, e), o, 1) /\ Again(Append(Queue, e), o)
        BY <2>4, <2>6, <2>7
      <4>2. cl'.o = o /\ cl'.sent + 1 = 1
        BY <2>5, <3>2
      <4> QED BY <1>0, <2>6, <3>1, <4>1, <4>2 DEF Caught
    <3>3. CASE cl.o /= NoOpen
      <4>1. ~Streams(e, cl.o) /\ cl' = cl
        BY <2>3, <2>4, <2>5, <3>3
      <4> QED BY <1>0, <2>6, <3>1, <4>1 DEF Caught
    <3> QED BY <3>2, <3>3
  <2>9. /\ (up => HasUp(Queue)) => /\ e.kind \in StreamKinds => HasUp(Queue)
                                   /\ up' => HasUp(Queue) \/ e.kind = "up"
        /\ \A x \in Opens : \A n : (Absent(Queue, x) /\ x = cl.o /\ up /\ ~cl.resume => cl.sent + 1 = n) =>
             /\ Absent(Queue, x) /\ Streams(e, x) /\ e.kind = "DATA" => e.n = n
             /\ Absent(Queue, x) /\ ~Streams(e, x) /\ x = cl'.o /\ up' /\ ~cl'.resume => cl'.sent + 1 = n
    BY <1>0, <2>4, <2>5
  <2>10. \A x \in Opens : got[x] \in Seq(Nat) /\ (x = cl.o => \A i \in DOMAIN got[x] : got[x][i] <= cl.sent) =>
             /\ Streams(e, x) => \A i \in DOMAIN got[x] : got[x][i] <= e.n /\ (e.kind = "DATA" => got[x][i] < e.n)
             /\ x = cl'.o => \A i \in DOMAIN got[x] : got[x][i] <= cl'.sent
    <3>1. DOMAIN got[o] = {}
      BY <2>3
    <3> QED BY <1>00, <2>4, <2>5, <3>1
  <2> QED BY <1>0, <2>2, <2>4, <2>5, <2>8, <2>9, <2>10, Posting
<1>2. CASE k = "DATA"
  <2> DEFINE e == Frame(k, cl.o, cl.sent + 1)
  <2>1. lane' = Append(lane, e) /\ cl' = [cl EXCEPT !.sent = @ + 1] /\ cl.o /= NoOpen
    BY <1>2 DEF ClientSends, Post
  <2>2. cl.sent + 1 \in Nat /\ cl.sent + 1 >= 1 /\ cl.sent <= cl.sent + 1 /\ cl.o \in Opens
    BY <1>00, <2>1
  <2>3. e \in Entry /\ e.kind = "DATA" /\ e.o = cl.o /\ e.n = cl.sent + 1 /\ e.kind \in StreamKinds
        /\ \A x : Streams(e, x) <=> x = cl.o
    BY <1>2, <2>2 DEF Frame, Entry, Kinds, StreamKinds, Streams
  <2>4. cl' \in ClientRecord /\ cl'.judged = cl.judged /\ ~cl'.resume /\ ~cl.resume
        /\ cl'.o = cl.o /\ cl'.sent = cl.sent + 1
    <3>1. cl' = [cl EXCEPT !.sent = cl.sent + 1]
      BY <2>1, Zenon
    <3> QED BY <1>0, <1>2, <2>2, <3>1 DEF ClientRecord
  <2> HIDE DEF e
  <2>5. /\ Clear(Append(Queue, e)) <=> Clear(Queue)
        /\ \A x, m : Under(Append(Queue, e), x, m) <=> Under(Queue, x, m) /\ (Streams(e, x) => e.n < m)
        /\ \A x, m : Leads(Append(Queue, e), x, m) <=> IF Streams(e, x) THEN m = e.n + 1 ELSE Leads(Queue, x, m)
        /\ \A x : Again(Append(Queue, e), x) <=> Again(Queue, x)
    BY <1>0, <2>3, OneMore
  <2>6. Caught(Queue, up, cl) => Fits(Queue, e) /\ Caught(Append(Queue, e), up', cl')
    <3> SUFFICES ASSUME Caught(Queue, up, cl) PROVE Fits(Queue, e) /\ Caught(Append(Queue, e), up', cl')
      OBVIOUS
    <3>1. Clear(Queue) /\ Under(Queue, cl.o, cl.sent + 1) /\ Leads(Queue, cl.o, cl.sent + 1) /\ Again(Queue, cl.o)
      BY <1>0, <2>1, <2>4 DEF Caught
    <3>2. Fits(Queue, e)
      BY <2>2, <2>3, <3>1 DEF Fits
    <3>3. Under(Queue, cl.o, (cl.sent + 1) + 1)
      BY <1>0, <2>2, <3>1, UnderMore
    <3>4. Under(Append(Queue, e), cl.o, (cl.sent + 1) + 1) /\ Leads(Append(Queue, e), cl.o, (cl.sent + 1) + 1)
          /\ Again(Append(Queue, e), cl.o) /\ Clear(Append(Queue, e))
      BY <2>2, <2>3, <2>5, <3>1, <3>3
    <3> QED BY <2>4, <3>2, <3>4 DEF Caught
  <2>7. /\ (up => HasUp(Queue)) => /\ e.kind \in StreamKinds => HasUp(Queue)
                                   /\ up' => HasUp(Queue) \/ e.kind = "up"
        /\ \A x \in Opens : \A n : (Absent(Queue, x) /\ x = cl.o /\ up /\ ~cl.resume => cl.sent + 1 = n) =>
             /\ Absent(Queue, x) /\ Streams(e, x) /\ e.kind = "DATA" => e.n = n
             /\ Absent(Queue, x) /\ ~Streams(e, x) /\ x = cl'.o /\ up' /\ ~cl'.resume => cl'.sent + 1 = n
    BY <1>0, <2>3, <2>4
  <2>8. ASSUME NEW x \in Opens, got[x] \in Seq(Nat), x = cl.o => \A i \in DOMAIN got[x] : got[x][i] <= cl.sent,
               NEW i \in DOMAIN got[x], x = cl.o
        PROVE  got[x][i] <= cl.sent + 1 /\ got[x][i] < cl.sent + 1
    <3>1. got[x][i] \in Nat /\ got[x][i] <= cl.sent
      BY <2>8, LenProperties, ElementOfSeq
    <3> QED BY <1>00, <3>1
  <2>9. \A x \in Opens : got[x] \in Seq(Nat) /\ (x = cl.o => \A i \in DOMAIN got[x] : got[x][i] <= cl.sent) =>
             /\ Streams(e, x) => \A i \in DOMAIN got[x] : got[x][i] <= e.n /\ (e.kind = "DATA" => got[x][i] < e.n)
             /\ x = cl'.o => \A i \in DOMAIN got[x] : got[x][i] <= cl'.sent
    BY <2>3, <2>4, <2>8
  <2> QED BY <1>0, <2>1, <2>3, <2>4, <2>6, <2>7, <2>9, Posting
<1>3. CASE k \in {"CLOSE", "ERROR"}
  <2> DEFINE e == Frame(k, cl.o, 0)
  <2>1. lane' = Append(lane, e) /\ cl' = [cl EXCEPT !.o = NoOpen]
    BY <1>3 DEF ClientSends, Post
  <2>2. e \in Entry /\ e.kind \notin Marks \cup {"up"}
    BY <1>00, <1>3 DEF Frame, Entry, Kinds, Marks, StreamKinds
  <2> HIDE DEF e
  <2> QED BY <1>0, <2>1, <2>2, PostsAside
<1>4. CASE k = "RESUME"
  <2> DEFINE e == Frame(k, cl.o, cl.sent)
  <2>1. lane' = Append(lane, e) /\ cl' = [cl EXCEPT !.resume = FALSE] /\ cl.resume
    BY <1>0, <1>4 DEF ClientSends, Post
  <2>2. e \in Entry /\ e.kind = "RESUME" /\ e.o = cl.o /\ e.n = cl.sent /\ e.kind \in StreamKinds
        /\ \A x : Streams(e, x) <=> x = cl.o
    BY <1>00, <1>4 DEF Frame, Entry, Kinds, StreamKinds, Streams
  <2>3. cl' \in ClientRecord /\ cl'.judged = cl.judged /\ ~cl'.resume
        /\ cl'.o = cl.o /\ cl'.sent = cl.sent
    BY <1>0, <2>1 DEF ClientRecord
  <2>4. cl.sent + 1 \in Nat /\ cl.sent < cl.sent + 1
    BY <1>00
  <2> HIDE DEF e
  <2>5. /\ Clear(Append(Queue, e)) <=> Clear(Queue)
        /\ \A x, m : Under(Append(Queue, e), x, m) <=> Under(Queue, x, m) /\ (Streams(e, x) => e.n < m)
        /\ \A x, m : Leads(Append(Queue, e), x, m) <=> IF Streams(e, x) THEN m = e.n + 1 ELSE Leads(Queue, x, m)
        /\ \A x : Again(Append(Queue, e), x) <=> Streams(e, x) \/ Again(Queue, x)
    BY <1>0, <2>2, OneMore
  <2>6. Caught(Queue, up, cl) => Fits(Queue, e) /\ Caught(Append(Queue, e), up', cl')
    <3> SUFFICES ASSUME Caught(Queue, up, cl) PROVE Fits(Queue, e) /\ Caught(Append(Queue, e), up', cl')
      OBVIOUS
    <3>1. Clear(Queue) /\ (cl.o /= NoOpen => Under(Queue, cl.o, cl.sent + 1))
      BY <1>0 DEF Caught
    <3>2. Fits(Queue, e)
      BY <1>0, <2>2, <3>1 DEF Fits
    <3>3. /\ Clear(Append(Queue, e)) /\ Leads(Append(Queue, e), cl.o, cl.sent + 1) /\ Again(Append(Queue, e), cl.o)
          /\ cl.o /= NoOpen => Under(Append(Queue, e), cl.o, cl.sent + 1)
      BY <2>2, <2>4, <2>5, <3>1
    <3> QED BY <2>3, <3>2, <3>3 DEF Caught
  <2>7. /\ (up => HasUp(Queue)) => /\ e.kind \in StreamKinds => HasUp(Queue)
                                   /\ up' => HasUp(Queue) \/ e.kind = "up"
        /\ \A x \in Opens : \A n : (Absent(Queue, x) /\ x = cl.o /\ up /\ ~cl.resume => cl.sent + 1 = n) =>
             /\ Absent(Queue, x) /\ Streams(e, x) /\ e.kind = "DATA" => e.n = n
             /\ Absent(Queue, x) /\ ~Streams(e, x) /\ x = cl'.o /\ up' /\ ~cl'.resume => cl'.sent + 1 = n
    BY <1>0, <2>2, <2>3
  <2>8. \A x \in Opens : got[x] \in Seq(Nat) /\ (x = cl.o => \A i \in DOMAIN got[x] : got[x][i] <= cl.sent) =>
             /\ Streams(e, x) => \A i \in DOMAIN got[x] : got[x][i] <= e.n /\ (e.kind = "DATA" => got[x][i] < e.n)
             /\ x = cl'.o => \A i \in DOMAIN got[x] : got[x][i] <= cl'.sent
    BY <2>2, <2>3
  <2> QED BY <1>0, <2>1, <2>2, <2>3, <2>6, <2>7, <2>8, Posting
<1>5. CASE k = "PING"
  <2> DEFINE e == Task(k)
  <2>1. lane' = Append(lane, e) /\ cl' = cl
    BY <1>5 DEF ClientSends, Post
  <2>2. e \in Entry /\ e.kind \notin Marks \cup {"up"}
    BY <1>5 DEF Task, Entry, Kinds, Marks, StreamKinds
  <2> HIDE DEF e
  <2> QED BY <1>0, <2>1, <2>2, PostsAside
<1> QED BY <1>1, <1>2, <1>3, <1>4, <1>5

----------------------------------------------------------------------------
(* The queue stays or gets shorter. *)

\* A tunnel that took something stays one that was published.
Softened ==
  \A p \in Opens : got[p] /= <<>> =>
    op'[p].tun /= "None" /\ op'[p].gate /= "none" /\ (Live(p)' => Live(p))

\* What is queued gets shorter, or stays, and no tunnel takes anything.
LEMMA Shortened ==
  ASSUME InboundInv, OneInUse', Throttle', Well(Story'), UNCHANGED got, cl.judged \subseteq cl'.judged, Softened,
         \A g \in Managers : man'[g].st = "held" /\ ~(reg'[g] \subseteq cl'.judged) => Waits(Story'),
         \A o \in Opens : Above(Story, o, got[o]) => Above(Story', o, got[o]),
         \A o \in Opens : o \notin cl'.judged /\ Live(o)' /\ got[o] /= <<>>
                            /\ Begins(Story, o, got[o][1] + Len(got[o]))
                          => Begins(Story', o, got[o][1] + Len(got[o]))
  PROVE  InboundInv'
<1>1. HeldWaits'
  BY DEF HeldWaits
<1>2. DOMAIN got' = Opens
  BY DEF InboundInv
<1>3. ASSUME NEW o \in Opens PROVE Taken(o)'
  <2>1. Taken(o)
    BY DEF InboundInv
  <2>2. got'[o] = got[o]
    OBVIOUS
  <2>3. got[o] \in Seq(Nat) /\ (\A i \in DOMAIN got[o] : got[o][i] >= 1) /\ Above(Story', o, got[o])
    BY <2>1 DEF Taken
  <2>4. got[o] /= <<>> => op'[o].tun /= "None" /\ op'[o].gate /= "none" /\ (Live(o)' => Live(o))
    BY DEF Softened
  <2>5. o \notin cl'.judged => /\ o \notin cl.judged
                               /\ \A i \in DOMAIN got[o] : got[o][i] = got[o][1] + (i - 1)
    BY <2>1 DEF Taken
  <2>6. ASSUME o \notin cl'.judged, Live(o)', got[o] /= <<>> PROVE Begins(Story', o, got[o][1] + Len(got[o]))
    <3>1. Begins(Story, o, got[o][1] + Len(got[o]))
      BY <2>1, <2>4, <2>5, <2>6 DEF Taken
    <3> QED BY <2>6, <3>1
  <2> QED BY <2>2, <2>3, <2>4, <2>5, <2>6 DEF Taken
<1> QED BY <1>1, <1>2, <1>3 DEF InboundInv

\* A step of one OPEN.
LEMMA MovedSoftens ==
  ASSUME InboundInv, Table, OpensGood, NEW o \in Opens, NEW s, Moved(o, s), UNCHANGED man, Onward(op[o], op'[o])
  PROVE  Softened /\ \A g \in Managers : reg'[g] \subseteq reg[g]
<1>1. op' = [op EXCEPT ![o] = s] /\ s.m = op[o].m /\ (reg' = reg \/ Unregister(o))
  BY DEF Moved
<1>2. /\ op'[o] = s /\ \A p \in Opens \ {o} : op'[p] = op[p] /\ Owns(p)' = Owns(p)
      /\ reg' = reg => Owns(o)' = Owns(o)
      /\ Unregister(o) => Owns(o)' = FALSE
  BY <1>1, OwnsAfter
<1>3. \A g \in Managers : reg'[g] \subseteq reg[g]
  <2>1. CASE reg' = reg
    BY <2>1
  <2>2. CASE reg' = [reg EXCEPT ![op[o].m] = @ \ {o}]
    BY <2>2 DEF Table
  <2> QED BY <1>1, <2>1, <2>2 DEF Unregister
<1>4. ASSUME NEW p \in Opens, got[p] /= <<>>
      PROVE  op'[p].tun /= "None" /\ op'[p].gate /= "none" /\ (Live(p)' => Live(p))
  <2>1. op[p].tun /= "None" /\ op[p].gate /= "none"
    BY <1>4 DEF InboundInv, Taken
  <2>2. CASE p /= o
    BY <1>2, <2>1, <2>2 DEF Live
  <2>3. CASE p = o
    <3>1. op'[o].gate /= "none" /\ op'[o].tun /= "None"
      BY <1>2, <2>1, <2>3 DEF Moved, Onward
    <3>2. op'[o].tun \in Established => op[o].tun \notin Terminal
      BY DEF Onward, Established, Terminal
    <3>3. ASSUME Live(o)' PROVE Live(o)
      <4>1. Owns(o)' /\ op'[o].tun \in Established
        BY <3>3 DEF Live
      <4>2. Owns(o)
        BY <1>1, <1>2, <4>1
      <4>3. op[o].tun \in Established
        BY <2>1, <2>3, <3>2, <4>1 DEF OpensGood, OpenInv, OpenType
      <4> QED BY <4>2, <4>3 DEF Live
    <3> QED BY <2>3, <3>1, <3>3
  <2> QED BY <2>2, <2>3
<1> QED BY <1>3, <1>4 DEF Softened

\* The threads of one OPEN leave the queues alone.
LEMMA OpenInbound ==
  ASSUME InboundInv, ServerInv, NEW o \in Opens, OpenSteps(o) \/ OpenEvents(o), UNCHANGED <<friendVars, up>>
  PROVE  InboundInv'
<1>1. Table /\ OpensGood
  BY DEF ServerInv, OpensInv, OpensGood
<1>2. OpenInv(op[o], Owns(o)) /\ DOMAIN op = Opens /\ DOMAIN op[o] = Fields
  BY <1>1 DEF OpensGood, Table, OpenInv, OpenType
<1>3. UNCHANGED <<lane, due, slot, holds, cl, got, man, up>>
  BY DEF friendVars
<1>4. PICK s : Moved(o, s)
  BY <1>2, OpenMoves
<1>5. Onward(op[o], op'[o])
  BY <1>2, OpenOnward
<1>6. Softened /\ \A g \in Managers : reg'[g] \subseteq reg[g]
  BY <1>1, <1>3, <1>4, <1>5, MovedSoftens
<1>7. Story' = Story
  BY <1>3 DEF Story
<1>8. OneInUse' /\ Throttle'
  BY <1>3 DEF InboundInv, OneInUse, InUse, Throttle
<1>9. \A g \in Managers : man'[g].st = "held" /\ ~(reg'[g] \subseteq cl'.judged) => Waits(Story')
  BY <1>3, <1>6, <1>7 DEF InboundInv, HeldWaits
<1>10. Well(Story')
  BY <1>7 DEF InboundInv
<1> QED BY <1>3, <1>6, <1>7, <1>8, <1>9, <1>10, Shortened

----------------------------------------------------------------------------
(* The strand runs an event. *)

\* A queue is its head and what is behind it.
LEMMA HeadFirst ==
  ASSUME NEW l \in Seq(Entry), l /= <<>>, NEW a \in Seq(Entry)
  PROVE  /\ Head(l) \in Entry /\ Tail(l) \in Seq(Entry) /\ Tail(l) \o a \in Seq(Entry)
         /\ l \o a = <<Head(l)>> \o (Tail(l) \o a)
<1>1. Head(l) \in Entry /\ Tail(l) \in Seq(Entry) /\ <<Head(l)>> \in Seq(Entry)
  BY HeadTailProperties
<1>2. l = <<Head(l)>> \o Tail(l)
  <2>1. Len(l) \in Nat \ {0} /\ l = SubSeq(l, 1, Len(l)) /\ Tail(l) = SubSeq(l, 2, Len(l)) /\ Head(l) = l[1]
    BY SubSeqFull, TailIsSubSeq, EmptySeq, LenProperties
  <2>2. SubSeq(l, 1, Len(l)) = <<l[1]>> \o SubSeq(l, 1 + 1, Len(l))
    BY <2>1, SubSeqRecursiveFirst
  <2> QED BY <2>1, <2>2
<1>3. (<<Head(l)>> \o Tail(l)) \o a = <<Head(l)>> \o (Tail(l) \o a)
  BY <1>1, Joined
<1>4. Tail(l) \o a \in Seq(Entry)
  BY <1>1, ConcatProperties
<1> QED BY <1>1, <1>2, <1>3, <1>4

\* What the client is going to send is a queue too.
LEMMA AheadType == ASSUME NEW u, NEW c \in ClientRecord PROVE Ahead(u, c) \in Seq(Entry)
<1>1. <<>> \in Seq(Entry)
  OBVIOUS
<1> QED BY <1>1, AheadAppends

\* The strand's next entry, behind what is parked.
LEMMA StrandNext ==
  ASSUME LaneInv, lane /= <<>>, due = <<>>
  PROVE  /\ Head(lane) \in Entry /\ Tail(lane) \o Ahead(up, cl) \in Seq(Entry) /\ slot.backlog \in Seq(Entry)
         /\ Story = slot.backlog \o (<<Head(lane)>> \o (Tail(lane) \o Ahead(up, cl)))
<1>1. lane \in Seq(Entry) /\ slot.backlog \in Seq(Entry) /\ cl \in ClientRecord
  BY Queues
<1>2. Ahead(up, cl) \in Seq(Entry)
  BY <1>1, AheadType
<1>3. /\ Head(lane) \in Entry /\ Tail(lane) \in Seq(Entry) /\ Tail(lane) \o Ahead(up, cl) \in Seq(Entry)
      /\ lane \o Ahead(up, cl) = <<Head(lane)>> \o (Tail(lane) \o Ahead(up, cl))
  BY <1>1, <1>2, HeadFirst
<1>4. slot.backlog \o (lane \o Ahead(up, cl)) \in Seq(Entry)
  BY <1>1, <1>2, ConcatProperties
<1>5. <<>> \o (slot.backlog \o (lane \o Ahead(up, cl))) = slot.backlog \o (lane \o Ahead(up, cl))
  BY <1>4, ConcatEmptySeq
<1> QED BY <1>1, <1>3, <1>5 DEF Story

\* What is left once it is taken and nothing else moves.
LEMMA StrandTook ==
  ASSUME LaneInv, due' = <<>>, lane' = Tail(lane), lane /= <<>>, UNCHANGED up, cl' \in ClientRecord,
         NEW b \in Seq(Entry), slot'.backlog = b
  PROVE  Story' = b \o (Tail(lane) \o Ahead(up, cl'))
<1>1. lane \in Seq(Entry)
  BY Queues
<1>2. Ahead(up, cl') \in Seq(Entry)
  BY AheadType
<1>3. Tail(lane) \o Ahead(up, cl') \in Seq(Entry)
  BY <1>1, <1>2, HeadFirst
<1>4. b \o (Tail(lane) \o Ahead(up, cl')) \in Seq(Entry)
  BY <1>3, ConcatProperties
<1>5. <<>> \o (b \o (Tail(lane) \o Ahead(up, cl'))) = b \o (Tail(lane) \o Ahead(up, cl'))
  BY <1>4, ConcatEmptySeq
<1> QED BY <1>5 DEF Story

\* setup_tunnel_manager() leaves one manager in use, and none held.
LEMMA SetupOne ==
  ASSUME Table, OneInUse, SetupManager
  PROVE  OneInUse' /\ \A g \in Managers : man'[g].st /= "held"
<1>1. CASE CurrentMgr /= {}
  BY <1>1 DEF SetupManager, CurrentMgr, OneInUse, InUse
<1>2. CASE CurrentMgr = {} /\ HeldMgr /= {} /\ Resume
  <2>1. PICK g \in HeldMgr : man' = [man EXCEPT ![g].st = "current", ![g].dead = FALSE]
    BY <1>2 DEF SetupManager
  <2>2. g \in Managers /\ man[g].st = "held" /\ man'[g].st = "current" /\ \A h \in Managers \ {g} : man'[h] = man[h]
    BY <2>1 DEF HeldMgr, Table, ManRecord
  <2> QED BY <2>2 DEF OneInUse, InUse
<1>3. CASE CurrentMgr = {} /\ ~(HeldMgr /= {} /\ Resume)
  <2> DEFINE g == Min(Unused)
  <2>1. Unused /= {} /\ man' = [man EXCEPT ![g].st = "current"]
    BY <1>3 DEF SetupManager
  <2>2. Unused \in SUBSET Nat
    BY OpenAssumption DEF Unused
  <2>3. g \in Unused
    BY <2>1, <2>2, MinIn
  <2> HIDE DEF g
  <2>4. g \in Managers /\ man'[g].st = "current" /\ \A h \in Managers \ {g} : man'[h] = man[h]
    BY <2>1, <2>3 DEF Unused, Table, ManRecord
  <2>5. \A h \in Managers : ~InUse(h)
    BY <1>3 DEF CurrentMgr, HeldMgr, OneInUse, InUse
  <2> QED BY <2>4, <2>5 DEF OneInUse, InUse
<1> QED BY <1>1, <1>2, <1>3

\* A manager's coming and going touches no tunnel.
LEMMA ManStepSoftens ==
  ASSUME InboundInv, Table, OpensGood, UNCHANGED <<op, reg>>, ManStep
  PROVE  Softened
<1>1. \A o \in Opens : Owns(o)' = Owns(o)
  BY ManStepKeeps
<1>2. \A o \in Opens : Live(o)' = Live(o)
  BY <1>1 DEF Live
<1> QED BY <1>2 DEF Softened, InboundInv, Taken

\* A manager is built for an OPEN.
LEMMA RebuildInbound ==
  ASSUME InboundInv, ServerInv, Rebuild PROVE InboundInv'
<1>1. Table /\ OpensGood /\ LaneInv /\ SetupManager /\ SetupSlot /\ UNCHANGED <<op, reg, lane, due, cl, got, up>>
  BY DEF ServerInv, OpensInv, OpensGood, Rebuild, openVars
<1>2. ManStep /\ OneInUse' /\ \A g \in Managers : man'[g].st /= "held"
  BY <1>1, SetupFacts, SetupOne DEF InboundInv
<1>3. Softened
  BY <1>1, <1>2, ManStepSoftens
<1>4. slot \in SlotRecord
  BY <1>1 DEF LaneInv
<1>5. slot'.backlog = slot.backlog /\ slot'.on
  BY <1>1, <1>4 DEF SetupSlot, SlotRecord
<1>6. Story' = Story
  BY <1>1, <1>5 DEF Story
<1>7. Throttle'
  BY <1>1, <1>5 DEF InboundInv, Throttle
<1>8. Well(Story')
  BY <1>6 DEF InboundInv
<1> QED BY <1>1, <1>2, <1>3, <1>6, <1>7, <1>8, Shortened

\* The link is up again.
LEMMA UpInbound ==
  ASSUME InboundInv, ServerInv, RunEvent, Head(lane).kind = "up" PROVE InboundInv'
<1>1. /\ Table /\ OpensGood /\ LaneInv /\ SetupManager /\ SetupSlot /\ UNCHANGED <<op, reg, due, cl, got, up>>
      /\ lane /= <<>> /\ due = <<>> /\ lane' = Tail(lane)
  BY DEF ServerInv, OpensInv, OpensGood, RunEvent, Next1, openVars
<1>2. ManStep /\ OneInUse' /\ \A g \in Managers : man'[g].st /= "held"
  BY <1>1, SetupFacts, SetupOne DEF InboundInv
<1>3. Softened
  BY <1>1, <1>2, ManStepSoftens
<1>4. slot \in SlotRecord /\ cl \in ClientRecord
  BY <1>1 DEF LaneInv
<1>5. slot'.backlog = slot.backlog /\ slot'.on
  BY <1>1, <1>4 DEF SetupSlot, SlotRecord
<1> DEFINE a == slot.backlog
           h == Head(lane)
           b == Tail(lane) \o Ahead(up, cl)
<1>6. h \in Entry /\ b \in Seq(Entry) /\ a \in Seq(Entry) /\ Story = a \o (<<h>> \o b)
  BY <1>1, StrandNext
<1>7. Story' = a \o b
  BY <1>1, <1>4, <1>5, <1>6, StrandTook
<1>8. \A i \in DOMAIN a : a[i].kind /= "down"
  BY DEF InboundInv, Throttle
<1>9. h.kind = "up"
  OBVIOUS
<1> HIDE DEF a, h, b
<1>10. Well(a \o (<<h>> \o b))
  BY <1>6 DEF InboundInv
<1>11. /\ Well(a \o b)
       /\ \A o, s : Above(a \o (<<h>> \o b), o, s) <=> Above(a \o b, o, s)
       /\ \A o, n : Begins(a \o (<<h>> \o b), o, n) <=> Begins(a \o b, o, n)
  BY <1>6, <1>8, <1>9, <1>10, UpRuns
<1>12. Throttle'
  BY <1>1, <1>5 DEF InboundInv, Throttle
<1>13. /\ \A o, s : Above(Story, o, s) => Above(Story', o, s)
       /\ \A o, n : Begins(Story, o, n) => Begins(Story', o, n)
       /\ Well(Story')
  BY <1>6, <1>7, <1>11
<1> QED BY <1>1, <1>2, <1>3, <1>12, <1>13, Shortened

\* close_all() of a manager that serves the friend or is held.
LEMMA EndsSoftens ==
  ASSUME InboundInv, Table, OpensGood, NEW g \in Managers, man[g].st \in {"current", "held"}, Ends(g)
  PROVE  Softened /\ (\A h \in Managers : reg'[h] \subseteq reg[h]) /\ OneInUse'
         /\ man'[g].st = "gone" /\ \A h \in Managers \ {g} : man'[h] = man[h]
<1>1. /\ \A h \in Managers \ {g} : man'[h] = man[h]
      /\ man' \in [Managers -> ManRecord] /\ man'[g].st = "gone"
  BY DEF Table, ManRecord, Ends
<1>2. \A h \in Managers : reg'[h] = IF h = g THEN {} ELSE reg[h]
  BY DEF Ends, CloseAll, Table
<1>3. \A o \in Opens : op'[o] = IF o \in reg[g] THEN ForceClose(op[o]) ELSE op[o]
  BY DEF Ends, CloseAll
<1>4. ASSUME NEW o \in Opens
      PROVE  ForceClose(op[o]).m = op[o].m /\ (op[o].gate /= "none" => ForceClose(op[o]).gate /= "none")
             /\ (op[o].tun /= "None" => ForceClose(op[o]).tun /= "None")
  <2>1. OpenType(op[o]) /\ DOMAIN op[o] = Fields
    BY DEF OpensGood, OpenInv, OpenType
  <2>2. Onward(op[o], ForceClose(op[o]))
    BY <2>1, OperatorsOnward
  <2>3. Kept(op[o], ForceClose(op[o]))
    BY <2>1, ForceCloseFacts
  <2> QED BY <2>2, <2>3 DEF Kept, Onward
<1>5. ASSUME NEW o \in Opens, got[o] /= <<>>
      PROVE  op'[o].tun /= "None" /\ op'[o].gate /= "none" /\ (Live(o)' => Live(o))
  <2>1. op[o].tun /= "None" /\ op[o].gate /= "none"
    BY <1>5 DEF InboundInv, Taken
  <2>2. CASE o \in reg[g]
    <3>1. op[o].m = g
      BY <2>2 DEF Table
    <3>2. op'[o].m = g /\ reg'[g] = {}
      BY <1>2, <1>3, <1>4, <2>2, <3>1
    <3>3. ~Live(o)'
      BY <3>2 DEF Live, Owns
    <3> QED BY <1>3, <1>4, <2>1, <2>2, <3>3
  <2>3. CASE o \notin reg[g]
    <3>1. op'[o] = op[o]
      BY <1>3, <2>3
    <3>2. Live(o)' => Live(o)
      BY <1>1, <1>2, <3>1 DEF Live, Owns, Alive
    <3> QED BY <2>1, <3>1, <3>2
  <2> QED BY <2>2, <2>3
<1>6. OneInUse'
  BY <1>1 DEF InboundInv, OneInUse, InUse
<1> QED BY <1>1, <1>2, <1>5, <1>6 DEF Softened

\* teardown_tunnel_manager() holds or ends the one manager in use.
LEMMA TeardownOne ==
  ASSUME InboundInv, Table, OpensGood, holds.n \in Nat, Teardown
  PROVE  /\ Softened /\ OneInUse' /\ slot'.backlog = <<>> /\ ~slot'.on
         /\ \A g \in Managers : reg'[g] \subseteq reg[g] /\ (man'[g].st = "held" => InUse(g))
<1>0. slot'.backlog = <<>> /\ ~slot'.on
  BY DEF Teardown
<1>1. CASE CurrentMgr = {} /\ UNCHANGED <<man, op, reg, wire>>
  <2>1. ManStep
    BY <1>1 DEF ManStep, Table
  <2>2. Softened
    BY <1>1, <2>1, ManStepSoftens
  <2> QED BY <1>0, <1>1, <2>2 DEF InboundInv, OneInUse, InUse
<1>2. ASSUME NEW g \in CurrentMgr, Ends(g)
      PROVE  Softened /\ OneInUse' /\ \A h \in Managers : reg'[h] \subseteq reg[h] /\ (man'[h].st = "held" => InUse(h))
  <2>1. g \in Managers /\ man[g].st = "current"
    BY DEF CurrentMgr
  <2>2. Softened /\ (\A h \in Managers : reg'[h] \subseteq reg[h]) /\ OneInUse'
         /\ man'[g].st = "gone" /\ \A h \in Managers \ {g} : man'[h] = man[h]
    BY <1>2, <2>1, EndsSoftens
  <2> QED BY <2>1, <2>2 DEF InUse
<1>3. ASSUME NEW g \in CurrentMgr, Holds(g), ManStep
      PROVE  Softened /\ OneInUse' /\ \A h \in Managers : reg'[h] \subseteq reg[h] /\ (man'[h].st = "held" => InUse(h))
  <2>1. g \in Managers /\ man[g].st = "current"
    BY DEF CurrentMgr
  <2>2. UNCHANGED <<op, reg>> /\ man'[g].st = "held" /\ \A h \in Managers \ {g} : man'[h] = man[h]
    BY <1>3 DEF Holds
  <2>3. Resume
    <3>1. PICK h \in CurrentMgr : Resume \/ man' = [man EXCEPT ![h].st = "gone"]
      BY DEF Teardown
    <3>2. h = g
      BY <2>1, <3>1 DEF CurrentMgr, InboundInv, OneInUse, InUse
    <3>3. man' = [man EXCEPT ![g].st = "gone"] => man'[g].st = "gone"
      BY <2>1 DEF Table, ManRecord
    <3> QED BY <2>2, <3>1, <3>2, <3>3
  <2>4. Softened
    BY <1>3, <2>2, ManStepSoftens
  <2>5. \A h \in Managers : InUse(h)' => InUse(h)
    BY <2>1, <2>2 DEF InUse
  <2>6. OneInUse'
    BY <2>3, <2>5 DEF InboundInv, OneInUse
  <2> QED BY <2>1, <2>2, <2>4, <2>5, <2>6 DEF InUse
<1> QED BY <1>0, <1>1, <1>2, <1>3, TeardownFacts

\* The link broke: everything behind it is resumed first.
LEMMA DownInbound ==
  ASSUME InboundInv, ServerInv, RunEvent, Head(lane).kind = "down" PROVE InboundInv'
<1>1. /\ Table /\ OpensGood /\ LaneInv /\ Teardown /\ UNCHANGED <<due, cl, got, up>>
      /\ lane /= <<>> /\ due = <<>> /\ lane' = Tail(lane)
  BY DEF ServerInv, OpensInv, OpensGood, RunEvent, Next1
<1>2. cl \in ClientRecord /\ holds.n \in Nat
  BY <1>1 DEF LaneInv, HoldRecord
<1>3. Softened /\ OneInUse' /\ slot'.backlog = <<>> /\ ~slot'.on
  BY <1>1, <1>2, TeardownOne
<1> DEFINE a == slot.backlog
           h == Head(lane)
           b == Tail(lane) \o Ahead(up, cl)
<1>6. h \in Entry /\ b \in Seq(Entry) /\ a \in Seq(Entry) /\ Story = a \o (<<h>> \o b)
  BY <1>1, StrandNext
<1>7. Story' = b
  <2>1. <<>> \in Seq(Entry)
    OBVIOUS
  <2>2. Story' = <<>> \o b
    BY <1>1, <1>2, <1>3, <2>1, StrandTook
  <2> QED BY <1>6, <2>2, ConcatEmptySeq
<1>9. h.kind = "down"
  OBVIOUS
<1> HIDE DEF a, h, b
<1>10. Well(a \o (<<h>> \o b))
  BY <1>6 DEF InboundInv
<1>11. /\ Well(b) /\ Waits(b)
       /\ \A o \in Opens : \A n : Begins(b, o, n)
       /\ \A o, s : Above(a \o (<<h>> \o b), o, s) => Above(b, o, s)
  BY <1>6, <1>9, <1>10, DownRuns
<1>12. Throttle'
  BY <1>1, <1>3 DEF InboundInv, Throttle
<1>13. /\ \A o, s : Above(Story, o, s) => Above(Story', o, s)
       /\ \A o \in Opens : \A n : Begins(Story', o, n)
       /\ Well(Story') /\ Waits(Story')
  BY <1>6, <1>7, <1>11
<1> QED BY <1>1, <1>3, <1>12, <1>13, Shortened

\* The keepalive gave the friend up.
LEMMA VerdictInbound ==
  ASSUME InboundInv, ServerInv, RunEvent, Head(lane).kind = "verdict", Verdict_(Head(lane).n) PROVE InboundInv'
<1> DEFINE a == slot.backlog
           h == Head(lane)
           b == Tail(lane) \o Ahead(up, cl)
<1>1. /\ Table /\ OpensGood /\ LaneInv /\ Teardown /\ UNCHANGED <<due, got, up>>
      /\ lane /= <<>> /\ due = <<>> /\ lane' = Tail(lane) /\ cl' = [cl EXCEPT !.judged = @ \cup reg[h.n]]
  BY DEF ServerInv, OpensInv, OpensGood, RunEvent, Next1
<1>2. cl \in ClientRecord /\ holds.n \in Nat
  BY <1>1 DEF LaneInv, HoldRecord
<1>3. /\ Softened /\ OneInUse' /\ slot'.backlog = <<>> /\ ~slot'.on
      /\ \A g \in Managers : reg'[g] \subseteq reg[g] /\ (man'[g].st = "held" => InUse(g))
  BY <1>1, <1>2, TeardownOne
<1>4. h.n \in Managers /\ man[h.n].st = "current"
  <2>1. h \in Message
    <3>1. lane \in Seq(Message)
      BY <1>1 DEF LaneInv
    <3> QED BY <1>1, <3>1, HeadTailProperties
  <2> QED BY <2>1 DEF Message, Verdict_
<1>5. /\ cl' \in ClientRecord /\ cl'.judged = cl.judged \cup reg[h.n]
      /\ cl'.o = cl.o /\ cl'.sent = cl.sent /\ cl'.resume = cl.resume
  <2>1. cl' = [cl EXCEPT !.judged = cl.judged \cup reg[h.n]]
    BY <1>1, Zenon
  <2>2. reg[h.n] \subseteq Opens
    BY <1>1, <1>4 DEF Table
  <2> HIDE DEF h
  <2> QED BY <1>2, <2>1, <2>2 DEF ClientRecord
<1>6. h \in Entry /\ b \in Seq(Entry) /\ a \in Seq(Entry) /\ Story = a \o (<<h>> \o b)
  BY <1>1, StrandNext
<1>7. Story' = b
  <2>1. <<>> \in Seq(Entry) /\ Ahead(up, cl') = Ahead(up, cl)
    BY <1>5 DEF Ahead
  <2>2. Story' = <<>> \o b
    BY <1>1, <1>3, <1>5, <2>1, StrandTook
  <2> QED BY <1>6, <2>2, ConcatEmptySeq
<1> HIDE DEF a, h, b
<1>8. <<h>> \in Seq(Entry) /\ <<h>> \o b \in Seq(Entry)
  BY <1>6, ConcatProperties
<1>9. Well(<<h>> \o b) /\ \A o, s : Above(Story, o, s) => Above(<<h>> \o b, o, s)
  BY <1>6, <1>8, SuffixWell DEF InboundInv
<1>10. Well(b) /\ \A o, s : Above(<<h>> \o b, o, s) => Above(b, o, s)
  BY <1>6, <1>8, <1>9, SuffixWell
<1>11. \A g \in Managers : InUse(g) => g = h.n
  BY <1>4 DEF InboundInv, OneInUse, InUse
<1>12. \A g \in Managers : man'[g].st = "held" => reg'[g] \subseteq cl'.judged
  BY <1>3, <1>5, <1>11
<1>13. ASSUME NEW o \in Opens, o \notin cl'.judged, Live(o)', got[o] /= <<>> PROVE FALSE
  <2>1. Live(o)
    BY <1>3, <1>13 DEF Softened
  <2>2. op[o].m \in Managers /\ InUse(op[o].m) /\ o \in reg[op[o].m]
    BY <2>1 DEF Live, Owns, Alive, InUse
  <2> QED BY <1>5, <1>11, <1>13, <2>2
<1>14. Throttle'
  BY <1>1, <1>3 DEF InboundInv, Throttle
<1>15. /\ \A o, s : Above(Story, o, s) => Above(Story', o, s)
       /\ Well(Story')
  BY <1>7, <1>9, <1>10
<1>16. cl.judged \subseteq cl'.judged
  BY <1>5
<1> QED BY <1>1, <1>3, <1>12, <1>13, <1>14, <1>15, <1>16, Shortened

\* An entry without a meaning for the tunnels leaves the strand.
LEMMA AsideInbound ==
  ASSUME InboundInv, LaneInv, lane /= <<>>, due = <<>>, Head(lane).kind \notin Marks \cup {"up"},
         Story' = slot.backlog \o (Tail(lane) \o Ahead(up, cl)), UNCHANGED <<got, cl>>, Softened, OneInUse', Throttle',
         \A g \in Managers : reg'[g] \subseteq reg[g] /\ (man'[g].st = "held" => man[g].st = "held")
  PROVE  InboundInv'
<1> DEFINE a == slot.backlog
           h == Head(lane)
           b == Tail(lane) \o Ahead(up, cl)
<1>1. h \in Entry /\ b \in Seq(Entry) /\ a \in Seq(Entry) /\ Story = a \o (<<h>> \o b)
  BY StrandNext
<1>2. Story' = a \o b /\ h.kind \notin Marks \cup {"up"}
  OBVIOUS
<1> HIDE DEF a, h, b
<1>3. /\ Well(a \o (<<h>> \o b)) <=> Well(a \o b)
      /\ Waits(a \o (<<h>> \o b)) <=> Waits(a \o b)
      /\ \A o, s : Above(a \o (<<h>> \o b), o, s) <=> Above(a \o b, o, s)
      /\ \A o, n : Begins(a \o (<<h>> \o b), o, n) <=> Begins(a \o b, o, n)
  BY <1>1, <1>2, Immaterial
<1>4. /\ Well(Story') /\ (Waits(Story) => Waits(Story'))
      /\ \A o, s : Above(Story, o, s) => Above(Story', o, s)
      /\ \A o, n : Begins(Story, o, n) => Begins(Story', o, n)
  BY <1>1, <1>2, <1>3 DEF InboundInv
<1>5. \A g \in Managers : man'[g].st = "held" /\ ~(reg'[g] \subseteq cl'.judged) => Waits(Story')
  BY <1>4 DEF InboundInv, HeldWaits
<1> QED BY <1>4, <1>5, Shortened

\* A verdict or a hold that is out of date, or the end of a hold.
LEMMA PruneInbound ==
  ASSUME InboundInv, ServerInv, RunEvent,
         \/ Head(lane).kind = "verdict" /\ ~Verdict_(Head(lane).n)
         \/ Head(lane).kind = "prune"
  PROVE  InboundInv'
<1>1. /\ Table /\ OpensGood /\ LaneInv /\ UNCHANGED <<due, cl, got, up, slot>>
      /\ lane /= <<>> /\ due = <<>> /\ lane' = Tail(lane)
      /\ UNCHANGED <<man, op, reg>> \/ \E h : Prune(h)
  BY DEF ServerInv, OpensInv, OpensGood, RunEvent, Next1, openVars
<1>2. cl \in ClientRecord /\ slot.backlog \in Seq(Entry)
  BY <1>1, Queues
<1>3. Story' = slot.backlog \o (Tail(lane) \o Ahead(up, cl))
  BY <1>1, <1>2, StrandTook
<1>4. Head(lane).kind \notin Marks \cup {"up"}
  BY DEF Marks, StreamKinds
<1>5. Throttle'
  BY <1>1 DEF InboundInv, Throttle
<1>6. /\ Softened /\ OneInUse'
      /\ \A g \in Managers : reg'[g] \subseteq reg[g] /\ (man'[g].st = "held" => man[g].st = "held")
  <2>1. CASE UNCHANGED <<man, op, reg>>
    <3>1. ManStep
      BY <1>1, <2>1 DEF ManStep, Table
    <3>2. Softened
      BY <1>1, <2>1, <3>1, ManStepSoftens
    <3> QED BY <2>1, <3>2 DEF InboundInv, OneInUse, InUse
  <2>2. ASSUME NEW g \in HeldMgr, Ends(g)
        PROVE  /\ Softened /\ OneInUse'
               /\ \A h \in Managers : reg'[h] \subseteq reg[h] /\ (man'[h].st = "held" => man[h].st = "held")
    <3>1. g \in Managers /\ man[g].st = "held"
      BY DEF HeldMgr
    <3>2. Softened /\ (\A h \in Managers : reg'[h] \subseteq reg[h]) /\ OneInUse'
          /\ man'[g].st = "gone" /\ \A h \in Managers \ {g} : man'[h] = man[h]
      BY <1>1, <2>2, <3>1, EndsSoftens
    <3> QED BY <3>1, <3>2
  <2> QED BY <1>1, <2>1, <2>2, PruneFacts DEF openVars
<1> QED BY <1>1, <1>3, <1>4, <1>5, <1>6, AsideInbound

\* A queue cut in two is the same queue.
LEMMA CutJoins ==
  ASSUME NEW q \in Seq(Entry), NEW k \in 0 .. Len(q), NEW b \in Seq(Entry)
  PROVE  /\ SubSeq(q, 1, k) \in Seq(Entry) /\ SubSeq(q, k + 1, Len(q)) \in Seq(Entry)
         /\ SubSeq(q, 1, k) \o (SubSeq(q, k + 1, Len(q)) \o b) = q \o b
         /\ \A i \in DOMAIN SubSeq(q, 1, k) : i \in DOMAIN q /\ SubSeq(q, 1, k)[i] = q[i]
         /\ \A i \in DOMAIN SubSeq(q, k + 1, Len(q)) : k + i \in DOMAIN q /\ SubSeq(q, k + 1, Len(q))[i] = q[k + i]
<1> DEFINE c == SubSeq(q, 1, k)
           d == SubSeq(q, k + 1, Len(q))
<1>1. Len(q) \in Nat /\ DOMAIN q = 1 .. Len(q) /\ k \in Nat /\ k <= Len(q)
  BY LenProperties
<1>2. c \in Seq(Entry) /\ d \in Seq(Entry)
  <2>1. \A i \in 1 .. k : q[i] \in Entry
    BY <1>1, ElementOfSeq
  <2>2. \A i \in k + 1 .. Len(q) : q[i] \in Entry
    BY <1>1, ElementOfSeq
  <2>3. c \in Seq(Entry)
    BY <1>1, <2>1, SubSeqProperties
  <2>4. d \in Seq(Entry)
    BY <1>1, <2>2, SubSeqProperties
  <2> QED BY <2>3, <2>4
<1>3. c \o d = q
  <2>1. 1 \in 1 .. Len(q) + 1 /\ k \in 1 - 1 .. Len(q) /\ Len(q) \in k .. Len(q)
    BY <1>1
  <2>2. SubSeq(q, 1, k) \o SubSeq(q, k + 1, Len(q)) = SubSeq(q, 1, Len(q))
    BY <2>1, ConcatAdjacentSubSeq
  <2> QED BY <2>2, SubSeqFull
<1>4. /\ DOMAIN c \subseteq DOMAIN q /\ \A i \in DOMAIN c : q[i] = c[i]
      /\ Len(c) = k /\ \A i \in DOMAIN d : Len(c) + i \in DOMAIN q /\ q[Len(c) + i] = d[i]
  <2>1. /\ \A i \in DOMAIN d : Len(c) + i \in DOMAIN (c \o d) /\ (c \o d)[Len(c) + i] = d[i]
        /\ \A i \in DOMAIN c : i \in DOMAIN (c \o d) /\ (c \o d)[i] = c[i]
    <3> HIDE DEF c, d
    <3> QED BY <1>2, LaterPart
  <2>2. Len(c) = k
    <3>1. \A i \in 1 .. k : q[i] \in Entry
      BY <1>1, ElementOfSeq
    <3> QED BY <1>1, <3>1, SubSeqProperties
  <2> QED BY <1>3, <2>1, <2>2
<1> HIDE DEF c, d
<1>5. (c \o d) \o b = c \o (d \o b)
  BY <1>2, Joined
<1>6. c \o (d \o b) = q \o b
  BY <1>3, <1>5
<1> QED BY <1>2, <1>4, <1>6 DEF c, d

\* The throttle's retry.
LEMMA RetryInbound ==
  ASSUME InboundInv, ServerInv, NEW k \in 0 .. Len(slot.backlog), RunRetry(k) PROVE InboundInv'
<1>1. /\ Table /\ OpensGood /\ LaneInv /\ UNCHANGED <<op, reg, man, cl, got, up>>
      /\ lane /= <<>> /\ due = <<>> /\ lane' = Tail(lane) /\ Head(lane).kind = "retry" /\ Drain(k)
  BY DEF ServerInv, OpensInv, OpensGood, RunRetry, Next1, openVars
<1> DEFINE a == slot.backlog
           b == Tail(lane) \o Ahead(up, cl)
<1>2. cl \in ClientRecord /\ a \in Seq(Entry) /\ b \in Seq(Entry) /\ slot \in SlotRecord
  BY <1>1, Queues, StrandNext
<1>3. due' = SubSeq(a, 1, k) /\ slot'.backlog = SubSeq(a, k + 1, Len(a)) /\ slot'.on = slot.on
  BY <1>1, <1>2 DEF Drain, SlotRecord
<1>4. Story' = due' \o (slot'.backlog \o b)
  BY <1>1 DEF Story
<1>5. k \in 0 .. Len(a) /\ Head(lane).kind \notin Marks \cup {"up"}
  BY <1>1 DEF Marks, StreamKinds
<1>6. (~slot.on => a = <<>>) /\ \A i \in DOMAIN a : a[i].kind \notin {"up", "down"}
  BY DEF InboundInv, Throttle
<1> HIDE DEF a, b
<1>7. Story' = a \o b
  <2>1. SubSeq(a, 1, k) \o (SubSeq(a, k + 1, Len(a)) \o b) = a \o b
    BY <1>2, <1>5, CutJoins
  <2> QED BY <1>3, <1>4, <2>1
<1>8. Throttle'
  <2>1. \A i \in DOMAIN due' : due'[i].kind \notin {"up", "down"}
    BY <1>2, <1>3, <1>5, <1>6, CutJoins
  <2>2. \A i \in DOMAIN slot'.backlog : slot'.backlog[i].kind \notin {"up", "down"}
    BY <1>2, <1>3, <1>5, <1>6, CutJoins
  <2>3. ~slot'.on => slot'.backlog = <<>>
    <3>1. ASSUME a = <<>> PROVE SubSeq(a, k + 1, Len(a)) = <<>>
      <4>1. Len(a) = 0 /\ k = 0
        BY <1>5, <3>1
      <4> QED BY <1>2, <4>1, SubSeqEmpty
    <3> QED BY <1>3, <1>6, <3>1
  <2> QED BY <2>1, <2>2, <2>3 DEF Throttle
<1>9. ManStep
  BY <1>1 DEF ManStep, Table
<1>10. Softened
  BY <1>1, <1>9, ManStepSoftens
<1>11. OneInUse'
  BY <1>1 DEF InboundInv, OneInUse, InUse
<1>12. Story' = slot.backlog \o (Tail(lane) \o Ahead(up, cl))
  BY <1>7 DEF a, b
<1> QED BY <1>1, <1>5, <1>8, <1>10, <1>11, <1>12, AsideInbound

----------------------------------------------------------------------------
(* The strand takes a frame. *)

\* A frame parked behind the others is where it was.
LEMMA ParkedBehind ==
  ASSUME NEW a \in Seq(Entry), NEW h \in Entry, NEW b \in Seq(Entry)
  PROVE  Append(a, h) \in Seq(Entry) /\ Append(a, h) \o b = a \o (<<h>> \o b)
<1>1. <<h>> \in Seq(Entry) /\ Append(a, h) = a \o <<h>> /\ Append(a, h) \in Seq(Entry)
  BY AppendIsConcat, AppendProperties
<1>2. (a \o <<h>>) \o b = a \o (<<h>> \o b)
  BY <1>1, Joined
<1> QED BY <1>1, <1>2

\* Nothing in front.
LEMMA NothingAhead == ASSUME NEW b \in Seq(Entry) PROVE <<>> \o b = b
BY ConcatEmptySeq

\* A ping overtakes what is parked, and matters to no tunnel.
LEMMA Overtakes ==
  ASSUME NEW a \in Seq(Entry), NEW h \in Entry, NEW b \in Seq(Entry), h.kind \notin Marks \cup {"up"}
  PROVE  LET q == a \o (<<h>> \o b)
             p == <<h>> \o (a \o b)
         IN  /\ Well(q) => Well(p)
             /\ Waits(q) => Waits(p)
             /\ \A o, s : Above(q, o, s) => Above(p, o, s)
             /\ \A o, n : Begins(q, o, n) => Begins(p, o, n)
<1> DEFINE q == a \o (<<h>> \o b)
           r == a \o b
           p == <<h>> \o r
<1>1. /\ Well(q) <=> Well(r)
      /\ Waits(q) <=> Waits(r)
      /\ \A o, s : Above(q, o, s) <=> Above(r, o, s)
      /\ \A o, n : Begins(q, o, n) <=> Begins(r, o, n)
  BY Immaterial
<1>2. r \in Seq(Entry) /\ <<>> \in Seq(Entry)
  BY ConcatProperties
<1> HIDE DEF q, r
<1>3. p \in Seq(Entry)
  BY <1>2, ConcatProperties
<1>4. <<>> \o p = p /\ <<>> \o r = r
  BY <1>2, <1>3, NothingAhead
<1>5. /\ Well(<<>> \o p) <=> Well(<<>> \o r)
      /\ Waits(<<>> \o p) <=> Waits(<<>> \o r)
      /\ \A o, s : Above(<<>> \o p, o, s) <=> Above(<<>> \o r, o, s)
      /\ \A o, n : Begins(<<>> \o p, o, n) <=> Begins(<<>> \o r, o, n)
  BY <1>2, Immaterial
<1> HIDE DEF p
<1>6. /\ Well(q) => Well(p)
      /\ Waits(q) => Waits(p)
      /\ \A o, s : Above(q, o, s) => Above(p, o, s)
      /\ \A o, n : Begins(q, o, n) => Begins(p, o, n)
  BY <1>1, <1>4, <1>5
<1> QED BY <1>6 DEF p, q, r

\* A frame is dispatched, parked, or releases what is parked.
LEMMA FrameInbound ==
  ASSUME InboundInv, ServerInv, RunFrame PROVE InboundInv'
<1> DEFINE a == slot.backlog
           h == Head(lane)
           b == Tail(lane) \o Ahead(up, cl)
<1>1. /\ Table /\ OpensGood /\ LaneInv /\ UNCHANGED <<op, reg, cl, got, up>>
      /\ lane /= <<>> /\ due = <<>> /\ lane' = Tail(lane) /\ Admit(h)
      /\ h.kind \in {"OPEN", "DATA", "CLOSE", "ERROR", "RESUME", "PING"}
  BY DEF ServerInv, OpensInv, OpensGood, RunFrame, Next1, openVars
<1>2. h \in Entry /\ b \in Seq(Entry) /\ a \in Seq(Entry) /\ Story = a \o (<<h>> \o b) /\ slot \in SlotRecord
  BY <1>1, StrandNext, Queues
<1>3. \A g \in Managers : man'[g] \in ManRecord /\ man'[g].st = man[g].st
  <2> SUFFICES ASSUME NEW g \in Managers PROVE man'[g] \in ManRecord /\ man'[g].st = man[g].st
    OBVIOUS
  <2>1. man[g] \in ManRecord
    BY <1>1 DEF Table
  <2>2. man'[g] = man[g] \/ man'[g] = [man[g] EXCEPT !.dead = FALSE]
    BY DEF RunFrame
  <2> QED BY <2>1, <2>2 DEF ManRecord
<1>4. ManStep
  <2>1. man' \in [Managers -> ManRecord]
    BY <1>3 DEF RunFrame
  <2> QED BY <1>3, <2>1 DEF ManStep
<1>5. Softened
  BY <1>1, <1>4, ManStepSoftens
<1>6. OneInUse'
  BY <1>3 DEF InboundInv, OneInUse, InUse
<1>7. Story' = due' \o (slot'.backlog \o b)
  BY <1>1 DEF Story
<1>8. (~slot.on => a = <<>>) /\ \A i \in DOMAIN a : a[i].kind \notin {"up", "down"}
  BY DEF InboundInv, Throttle
<1>9. Admit(h)
  BY <1>1
<1>10. \/ h.kind = "PING" /\ due' = <<h>> /\ UNCHANGED slot
       \/ a = <<>> /\ due' = <<h>> /\ UNCHANGED slot
       \/ slot.on /\ slot'.on /\ due' = <<>> /\ slot'.backlog = Append(a, h)
       \/ slot.on /\ slot'.on /\ due' = Append(a, h) /\ slot'.backlog = <<>>
  <2> HIDE DEF h
  <2>1. CASE (Bypasses(h) \/ ~slot.on \/ slot.backlog = <<>>) /\ due' = <<h>> /\ UNCHANGED slot
    BY <1>8, <2>1 DEF Bypasses
  <2>2. CASE slot.on /\ due' = <<>> /\ slot' = [slot EXCEPT !.backlog = Append(@, h), !.armed = TRUE]
    <3>1. slot' = [slot EXCEPT !.backlog = Append(a, h), !.armed = TRUE]
      BY <2>2, Zenon
    <3> HIDE DEF a
    <3> QED BY <1>2, <2>2, <3>1 DEF SlotRecord
  <2>3. CASE slot.on /\ due' = Append(slot.backlog, h) /\ slot' = [slot EXCEPT !.backlog = <<>>, !.armed = FALSE]
    BY <1>2, <2>3 DEF SlotRecord
  <2> QED BY <1>9, <2>1, <2>2, <2>3 DEF Admit
<1>11. h.kind \notin {"up", "down"}
  BY <1>1
<1>12. \A g \in Managers : reg'[g] = reg[g] /\ cl' = cl
  BY <1>1
<1> HIDE DEF a, h, b
<1>13. Append(a, h) \in Seq(Entry) /\ Append(a, h) \o b = a \o (<<h>> \o b)
  BY <1>2, ParkedBehind
<1>14. \A i \in DOMAIN Append(a, h) : Append(a, h)[i].kind \notin {"up", "down"}
  <2>1. Extended(Append(a, h), a, h, Len(a) + 1)
    BY <1>2, Appended
  <2> QED BY <1>8, <1>11, <2>1 DEF Extended
<1>15. \A i \in DOMAIN <<h>> : <<h>>[i].kind \notin {"up", "down"}
  BY <1>11
<1>16. Throttle'
  <2>1. CASE due' = <<h>> /\ UNCHANGED slot
    BY <1>15, <2>1 DEF InboundInv, Throttle
  <2>2. CASE slot.on /\ slot'.on /\ due' = <<>> /\ slot'.backlog = Append(a, h)
    BY <1>14, <2>2 DEF Throttle
  <2>3. CASE slot.on /\ slot'.on /\ due' = Append(a, h) /\ slot'.backlog = <<>>
    BY <1>14, <2>3 DEF Throttle
  <2> QED BY <1>10, <2>1, <2>2, <2>3
<1>17. /\ Well(Story') /\ (Waits(Story) => Waits(Story'))
       /\ \A o, s : Above(Story, o, s) => Above(Story', o, s)
       /\ \A o, n : Begins(Story, o, n) => Begins(Story', o, n)
  <2>0. Well(Story)
    BY DEF InboundInv
  <2>1. CASE h.kind = "PING" /\ due' = <<h>> /\ UNCHANGED slot
    <3>1. Story' = <<h>> \o (a \o b)
      BY <1>7, <2>1 DEF a
    <3>2. h.kind \notin Marks \cup {"up"}
      BY <2>1 DEF Marks, StreamKinds
    <3>3. /\ Well(a \o (<<h>> \o b)) => Well(<<h>> \o (a \o b))
          /\ Waits(a \o (<<h>> \o b)) => Waits(<<h>> \o (a \o b))
          /\ \A o, s : Above(a \o (<<h>> \o b), o, s) => Above(<<h>> \o (a \o b), o, s)
          /\ \A o, n : Begins(a \o (<<h>> \o b), o, n) => Begins(<<h>> \o (a \o b), o, n)
      BY <1>2, <3>2, Overtakes
    <3> QED BY <1>2, <2>0, <3>1, <3>3
  <2>2. CASE a = <<>> /\ due' = <<h>> /\ UNCHANGED slot
    <3>1. Story' = <<h>> \o (<<>> \o b)
      BY <1>7, <2>2 DEF a
    <3>2. <<>> \o b = b
      BY <1>2, NothingAhead
    <3>3. <<h>> \o b \in Seq(Entry)
      BY <1>2, ConcatProperties
    <3>4. <<>> \o (<<h>> \o b) = <<h>> \o b
      BY <3>3, NothingAhead
    <3>5. Story' = Story
      BY <1>2, <2>2, <3>1, <3>2, <3>4
    <3> QED BY <2>0, <3>5
  <2>3. CASE slot.on /\ slot'.on /\ due' = <<>> /\ slot'.backlog = Append(a, h)
    <3>1. Append(a, h) \o b \in Seq(Entry)
      BY <1>2, <1>13, ConcatProperties
    <3>2. <<>> \o (Append(a, h) \o b) = Append(a, h) \o b
      BY <3>1, NothingAhead
    <3>3. Story' = Story
      BY <1>2, <1>7, <1>13, <2>3, <3>2
    <3> QED BY <2>0, <3>3
  <2>4. CASE slot.on /\ slot'.on /\ due' = Append(a, h) /\ slot'.backlog = <<>>
    <3>1. <<>> \o b = b
      BY <1>2, NothingAhead
    <3>2. Story' = Story
      BY <1>2, <1>7, <1>13, <2>4, <3>1
    <3> QED BY <2>0, <3>2
  <2> QED BY <1>10, <2>1, <2>2, <2>3, <2>4
<1>18. \A g \in Managers : man'[g].st = "held" /\ ~(reg'[g] \subseteq cl'.judged) => Waits(Story')
  BY <1>3, <1>12, <1>17 DEF InboundInv, HeldWaits
<1>19. UNCHANGED got /\ cl.judged \subseteq cl'.judged
  BY <1>1
<1> QED BY <1>5, <1>6, <1>16, <1>17, <1>18, <1>19, Shortened

----------------------------------------------------------------------------
(* The dispatcher. *)

\* What is behind the next frame, for a client c.
Behind(c) == Tail(due) \o (slot.backlog \o (lane \o Ahead(up, c)))

\* The next frame is first.
LEMMA DispatchStory ==
  ASSUME LaneInv, due /= <<>>, due' = Tail(due), UNCHANGED <<lane, slot, up>>
  PROVE  /\ Head(due) \in Entry /\ Behind(cl) \in Seq(Entry)
         /\ Story = <<Head(due)>> \o Behind(cl) /\ Story' = Behind(cl')
<1>1. lane \in Seq(Entry) /\ due \in Seq(Entry) /\ slot.backlog \in Seq(Entry) /\ cl \in ClientRecord
  BY Queues
<1>2. Ahead(up, cl) \in Seq(Entry)
  BY <1>1, AheadType
<1> DEFINE x == slot.backlog \o (lane \o Ahead(up, cl))
<1>3. x \in Seq(Entry)
  <2>1. lane \o Ahead(up, cl) \in Seq(Entry)
    BY <1>1, <1>2, ConcatProperties
  <2> QED BY <1>1, <2>1, ConcatProperties
<1>4. Story = due \o x /\ Behind(cl) = Tail(due) \o x
  BY DEF Story, Behind
<1> HIDE DEF x
<1>5. /\ Head(due) \in Entry /\ Tail(due) \o x \in Seq(Entry)
      /\ due \o x = <<Head(due)>> \o (Tail(due) \o x)
  BY <1>1, <1>3, HeadFirst
<1>6. Story' = Behind(cl')
  BY DEF Story, Behind
<1> QED BY <1>4, <1>5, <1>6

\* Only frames are dispatched.
LEMMA DispatchThrottle ==
  ASSUME InboundInv, LaneInv, due /= <<>>, due' = Tail(due), UNCHANGED slot PROVE Throttle'
<1>1. due \in Seq(Entry)
  BY Queues
<1>2. \A i \in DOMAIN due' : i + 1 \in DOMAIN due /\ due'[i] = due[i + 1]
  <2>1. /\ Tail(due) \in Seq(Entry) /\ Len(Tail(due)) = Len(due) - 1
        /\ \A i \in 1 .. Len(Tail(due)) : Tail(due)[i] = due[i + 1]
    BY <1>1, HeadTailProperties
  <2>2. DOMAIN due = 1 .. Len(due) /\ DOMAIN due' = 1 .. Len(Tail(due)) /\ Len(due) \in Nat
    BY <1>1, <2>1, LenProperties
  <2> QED BY <2>1, <2>2
<1> QED BY <1>2 DEF InboundInv, Throttle

\* While a frame of a stream is dispatched, a held manager has only tunnels that
\* were given up.
LEMMA NoneHeld ==
  ASSUME InboundInv, LaneInv, due /= <<>>, due' = Tail(due), UNCHANGED <<lane, slot, up>>, Head(due).kind \in StreamKinds
  PROVE  \A g \in Managers : man[g].st = "held" => reg[g] \subseteq cl.judged
<1>1. Head(due) \in Entry /\ Behind(cl) \in Seq(Entry) /\ Story = <<Head(due)>> \o Behind(cl)
  BY DispatchStory
<1>2. ~Waits(Story)
  BY <1>1, TakenOff
<1> QED BY <1>2 DEF InboundInv, HeldWaits

\* The friend's CLOSE, ERROR and PING.
LEMMA RouteEndInbound ==
  ASSUME InboundInv, ServerInv, RouteEnd PROVE InboundInv'
<1>1. Table /\ OpensGood /\ LaneInv /\ UNCHANGED <<lane, slot, cl, got, man, up>>
  BY DEF ServerInv, OpensInv, OpensGood, RouteEnd
<1>2. PICK k \in {"CLOSE", "ERROR", "PING"} :
        /\ Dispatching(k)
        /\ \/ UNCHANGED openVars
           \/ /\ Routed(Head(due)) /= {}
              /\ handle_tunnel_close_frame(Head(due).o) \/ handle_tunnel_error_frame(Head(due).o)
  BY DEF RouteEnd
<1>3. due /= <<>> /\ due' = Tail(due) /\ Head(due).kind = k
  BY <1>2 DEF Dispatching
<1>4. Softened /\ \A g \in Managers : reg'[g] \subseteq reg[g]
  <2>1. CASE UNCHANGED openVars
    <3>1. UNCHANGED <<op, reg>> /\ ManStep
      BY <1>1, <2>1 DEF openVars, ManStep, Table
    <3> QED BY <1>1, <3>1, ManStepSoftens
  <2>2. CASE /\ Routed(Head(due)) /= {}
             /\ handle_tunnel_close_frame(Head(due).o) \/ handle_tunnel_error_frame(Head(due).o)
    <3>1. PICK o \in Opens : o = Head(due).o
      BY <2>2 DEF Routed
    <3>2. handle_tunnel_close_frame(o) \/ handle_tunnel_error_frame(o)
      BY <2>2, <3>1
    <3>3. OpenInv(op[o], Owns(o)) /\ DOMAIN op = Opens /\ DOMAIN op[o] = Fields
      BY <1>1 DEF OpensGood, Table, OpenInv, OpenType
    <3>4. PICK s : Moved(o, s)
      BY <3>2, <3>3, PeerEndMoves
    <3>5. Onward(op[o], op'[o])
      BY <3>2, <3>3, CleanupOnward
    <3> QED BY <1>1, <3>4, <3>5, MovedSoftens
  <2> QED BY <1>2, <2>1, <2>2
<1>5. OneInUse' /\ Throttle'
  BY <1>1, <1>3, DispatchThrottle DEF InboundInv, OneInUse, InUse
<1> DEFINE h == Head(due)
           b == Behind(cl)
<1>6. h \in Entry /\ b \in Seq(Entry) /\ Story = <<h>> \o b /\ Story' = b
  BY <1>1, <1>3, DispatchStory
<1>7. h.kind \notin StreamKinds /\ h.kind /= "up" /\ \A o : ~Streams(h, o)
  BY <1>2, <1>3 DEF StreamKinds, Streams
<1> HIDE DEF h, b
<1>8. /\ Well(Story) => Well(b)
      /\ Waits(Story) => Waits(b)
      /\ \A o, s : Above(Story, o, s) => Above(b, o, s)
      /\ \A o, n : Begins(Story, o, n) => Begins(b, o, n)
  BY <1>6, <1>7, TakenOff
<1>9. /\ Well(Story') /\ (Waits(Story) => Waits(Story'))
      /\ \A o, s : Above(Story, o, s) => Above(Story', o, s)
      /\ \A o, n : Begins(Story, o, n) => Begins(Story', o, n)
  BY <1>6, <1>8 DEF InboundInv
<1>10. \A g \in Managers : man'[g].st = "held" /\ ~(reg'[g] \subseteq cl'.judged) => Waits(Story')
  BY <1>1, <1>4, <1>9 DEF InboundInv, HeldWaits
<1>11. UNCHANGED got /\ cl.judged \subseteq cl'.judged
  BY <1>1
<1> QED BY <1>4, <1>5, <1>9, <1>10, <1>11, Shortened

\* handle_tunnel_open().
LEMMA AcceptInbound ==
  ASSUME InboundInv, ServerInv, NEW v, handle_tunnel_open(v) PROVE InboundInv'
<1>1. Table /\ OpensGood /\ LaneInv /\ UNCHANGED <<lane, slot, cl, got, man, up>>
  BY DEF ServerInv, OpensInv, OpensGood, handle_tunnel_open
<1> DEFINE h == Head(due)
           b == Behind(cl)
           o == h.o
<1>2. due /= <<>> /\ due' = Tail(due) /\ h.kind = "OPEN" /\ op[o].phase = "None"
  BY DEF handle_tunnel_open, Dispatching
<1>3. o \in Opens
  <2>1. h \in Message
    BY <1>1, <1>2, HeadTailProperties DEF LaneInv
  <2> QED BY <1>2, <2>1 DEF Message
<1>4. /\ \E s : op' = [op EXCEPT ![o] = s]
      /\ reg' = reg \/ \E g \in CurrentMgr : reg' = [reg EXCEPT ![g] = @ \cup {o}]
  BY DEF handle_tunnel_open, AcceptOpen, Set
<1>5. h \in Entry /\ b \in Seq(Entry) /\ Story = <<h>> \o b /\ Story' = b
  BY <1>1, <1>2, DispatchStory
<1>6. h.kind \in StreamKinds /\ \A p : Streams(h, p) => p = o
  BY <1>2 DEF StreamKinds, Streams
<1>7. \A g \in Managers : man[g].st = "held" => reg[g] \subseteq cl.judged
  BY <1>1, <1>2, <1>6, NoneHeld
<1>8. OneInUse' /\ Throttle'
  BY <1>1, <1>2, DispatchThrottle DEF InboundInv, OneInUse, InUse
<1>9. got[o] = <<>>
  <2>1. op[o].gate = "none"
    BY <1>1, <1>2, <1>3 DEF OpensGood, OpenInv, OpenType, Stage
  <2> QED BY <1>3, <2>1 DEF InboundInv, Taken
<1> HIDE DEF h, b, o
<1>10. /\ \A g \in Managers, p \in Opens \ {o} : p \in reg'[g] <=> p \in reg[g]
       /\ \A g \in Managers : man[g].st = "held" => reg'[g] = reg[g]
  <2>1. CASE reg' = reg
    BY <2>1
  <2>2. ASSUME NEW g \in CurrentMgr, reg' = [reg EXCEPT ![g] = @ \cup {o}]
        PROVE  /\ \A x \in Managers, p \in Opens \ {o} : p \in reg'[x] <=> p \in reg[x]
               /\ \A x \in Managers : man[x].st = "held" => reg'[x] = reg[x]
    BY <1>1, <2>2 DEF Table, CurrentMgr
  <2> QED BY <1>4, <2>1, <2>2
<1>11. \A p \in Opens \ {o} : op'[p] = op[p] /\ (Live(p)' => Live(p))
  <2>1. \A p \in Opens \ {o} : op'[p] = op[p]
    BY <1>1, <1>4 DEF Table
  <2> QED BY <1>1, <1>10, <2>1 DEF Live, Owns, Alive
<1>12. Softened
  BY <1>9, <1>11 DEF Softened, InboundInv, Taken
<1>13. /\ Well(Story) => Well(b)
       /\ \A p, s : Above(Story, p, s) => Above(b, p, s)
       /\ \A p, n : ~Streams(h, p) /\ Begins(Story, p, n) => Begins(b, p, n)
  BY <1>5, TakenOff
<1>14. /\ Well(Story')
       /\ \A p, s : Above(Story, p, s) => Above(Story', p, s)
       /\ \A p \in Opens : \A n : got[p] /= <<>> /\ Begins(Story, p, n) => Begins(Story', p, n)
  BY <1>5, <1>6, <1>9, <1>13 DEF InboundInv
<1>15. \A g \in Managers : man'[g].st = "held" => reg'[g] \subseteq cl'.judged
  BY <1>1, <1>7, <1>10
<1>16. UNCHANGED got /\ cl.judged \subseteq cl'.judged
  BY <1>1
<1> QED BY <1>8, <1>12, <1>14, <1>15, <1>16, Shortened

\* A client without a tunnel asks less of the queue.
LEMMA ClientStops ==
  ASSUME LaneInv, due /= <<>>, NEW c \in ClientRecord, c.o = NoOpen, c.resume = cl.resume
  PROVE  /\ Well(Behind(cl)) => Well(Behind(c))
         /\ \A o \in Opens : \A s \in Seq(Nat) : Above(Behind(cl), o, s) => Above(Behind(c), o, s)
         /\ \A o \in Opens : \A n : Begins(Behind(cl), o, n) => Begins(Behind(c), o, n)
<1>1. lane \in Seq(Entry) /\ due \in Seq(Entry) /\ slot.backlog \in Seq(Entry) /\ cl \in ClientRecord
  BY Queues
<1>2. Tail(due) \in Seq(Entry)
  BY <1>1, HeadTailProperties
<1> DEFINE x == Tail(due) \o (slot.backlog \o lane)
<1>3. x \in Seq(Entry)
  BY <1>1, <1>2, QueueType
<1>4. Regroups(Tail(due), slot.backlog, lane, Ahead(up, cl)) /\ Regroups(Tail(due), slot.backlog, lane, Ahead(up, c))
  BY <1>1, <1>2, AheadBehind
<1>5. Behind(cl) = x \o Ahead(up, cl) /\ Behind(c) = x \o Ahead(up, c)
  BY <1>4 DEF Regroups, Behind
<1> HIDE DEF x
<1>6. /\ Well(x \o Ahead(up, cl)) <=> Well(x) /\ Caught(x, up, cl)
      /\ \A o \in Opens : \A s \in Seq(Nat) : Above(x \o Ahead(up, cl), o, s) => Above(x, o, s)
      /\ \A o \in Opens : \A n : Begins(x \o Ahead(up, cl), o, n) => Begins(x, o, n)
  BY <1>1, <1>3, ClientStory
<1>7. /\ Well(x \o Ahead(up, c)) <=> Well(x) /\ Caught(x, up, c)
      /\ \A o \in Opens : \A s \in Seq(Nat) : Above(x \o Ahead(up, c), o, s) <=>
           Above(x, o, s) /\ (o = c.o => \A i \in DOMAIN s : s[i] <= c.sent)
      /\ \A o \in Opens : \A n : Begins(x \o Ahead(up, c), o, n) <=>
           Begins(x, o, n) /\ (Absent(x, o) /\ o = c.o /\ up /\ ~c.resume => c.sent + 1 = n)
  BY <1>3, ClientStory
<1>8. Caught(x, up, cl) => Caught(x, up, c)
  BY DEF Caught
<1>9. NoOpen \notin Opens
  BY OpenAssumption
<1> QED BY <1>5, <1>6, <1>7, <1>8, <1>9

\* A tunnel that has everything the client sent goes on behind it.
LEMMA ResumesRun ==
  ASSUME NEW s \in Seq(Nat), s /= <<>>, \A i \in DOMAIN s : s[i] = s[1] + (i - 1), \A i \in DOMAIN s : s[i] >= 1,
         \A i \in DOMAIN s : s[i] <= Len(s)
  PROVE  s[1] + Len(s) = Len(s) + 1
<1>1. Len(s) \in Nat /\ Len(s) >= 1 /\ DOMAIN s = 1 .. Len(s)
  BY LenProperties, EmptySeq
<1>2. 1 \in DOMAIN s /\ Len(s) \in DOMAIN s /\ s[1] \in Nat
  BY <1>1, ElementOfSeq
<1>3. s[Len(s)] = s[1] + (Len(s) - 1) /\ s[Len(s)] <= Len(s) /\ s[1] >= 1
  BY <1>2
<1> QED BY <1>1, <1>2, <1>3

\* handle_resume_request().
LEMMA ResumeInbound ==
  ASSUME InboundInv, ServerInv, handle_resume_request PROVE InboundInv'
<1>1. Table /\ OpensGood /\ LaneInv /\ UNCHANGED <<lane, slot, got, man, up>>
  BY DEF ServerInv, OpensInv, OpensGood, handle_resume_request
<1> DEFINE h == Head(due)
           b == Behind(cl)
<1>2. due /= <<>> /\ due' = Tail(due) /\ h.kind = "RESUME"
  BY DEF handle_resume_request, Dispatching
<1>3. h \in Entry /\ b \in Seq(Entry) /\ Story = <<h>> \o b /\ Story' = Behind(cl')
  BY <1>1, <1>2, DispatchStory
<1>4. h.kind \in StreamKinds /\ h.kind /= "DATA" /\ \A p : Streams(h, p) <=> p = h.o
  BY <1>2 DEF StreamKinds, Streams
<1>5. \A g \in Managers : man[g].st = "held" => reg[g] \subseteq cl.judged
  BY <1>1, <1>2, <1>4, NoneHeld
<1>6. OneInUse' /\ Throttle'
  BY <1>1, <1>2, DispatchThrottle DEF InboundInv, OneInUse, InUse
<1>7. cl \in ClientRecord
  BY <1>1, Queues
<1>8. \/ Resumable(h) /\ UNCHANGED <<op, reg, cl>>
      \/ /\ cl' = IF cl.o = h.o THEN [cl EXCEPT !.o = NoOpen] ELSE cl
         /\ \/ Routed(h) = {} /\ UNCHANGED <<op, reg>>
            \/ Routed(h) /= {} /\ Set(h.o, RemoveIf(h.o, op[h.o])) /\ Unregister(h.o)
  BY DEF handle_resume_request, openVars
<1> HIDE DEF h
<1>9. cl' \in ClientRecord /\ cl'.judged = cl.judged
      /\ (cl' = cl \/ (cl'.o = NoOpen /\ cl'.resume = cl.resume))
  BY <1>7, <1>8 DEF ClientRecord
<1>10. Softened /\ (\A g \in Managers : reg'[g] \subseteq reg[g])
       /\ (Routed(h) /= {} => UNCHANGED <<op, reg, cl>> \/ \A o \in Opens : o = h.o => ~Live(o)')
  <2>1. CASE UNCHANGED <<op, reg>> /\ (Routed(h) = {} \/ UNCHANGED cl)
    <3>1. ManStep
      BY <1>1 DEF ManStep, Table
    <3>2. Softened
      BY <1>1, <2>1, <3>1, ManStepSoftens
    <3> QED BY <2>1, <3>2
  <2>2. CASE Routed(h) /= {} /\ Set(h.o, RemoveIf(h.o, op[h.o])) /\ Unregister(h.o)
    <3>1. PICK o \in Opens : o = h.o
      BY <2>2 DEF Routed
    <3>2. OpenInv(op[o], Owns(o)) /\ DOMAIN op = Opens /\ DOMAIN op[o] = Fields
      BY <1>1 DEF OpensGood, Table, OpenInv, OpenType
    <3>3. Set(o, RemoveIf(o, op[o])) /\ Unregister(o)
      BY <2>2, <3>1
    <3>4. Moved(o, RemoveIf(o, op[o]))
      BY <3>2, <3>3, GapMoves
    <3>5. Onward(op[o], op'[o])
      BY <3>2, <3>3, CleanupOnward
    <3>6. Softened /\ \A g \in Managers : reg'[g] \subseteq reg[g]
      BY <1>1, <3>4, <3>5, MovedSoftens
    <3>7. Owns(o)' = FALSE
      <4> DEFINE s == RemoveIf(o, op[o])
      <4>1. op' = [op EXCEPT ![o] = s] /\ s.m = op[o].m
        BY <3>4 DEF Moved
      <4> HIDE DEF s
      <4> QED BY <1>1, <3>3, <4>1, OwnsAfter
    <3>8. ~Live(o)'
      BY <3>7 DEF Live
    <3> QED BY <3>1, <3>6, <3>8
  <2> QED BY <1>8, <2>1, <2>2
<1> HIDE DEF b
<1>11. /\ Well(Story) => Well(b)
       /\ \A o, s : Above(Story, o, s) => /\ Above(b, o, s)
                                          /\ Streams(h, o) => \A i \in DOMAIN s : s[i] <= h.n
       /\ \A o, n : ~Streams(h, o) /\ Begins(Story, o, n) => Begins(b, o, n)
       /\ \A o \in Opens : Well(Story) /\ Streams(h, o) => Begins(b, o, h.n + 1)
  BY <1>3, TakenOff
<1>12. /\ Well(b) => Well(Story')
       /\ \A o \in Opens : \A s \in Seq(Nat) : Above(b, o, s) => Above(Story', o, s)
       /\ \A o \in Opens : \A n : Begins(b, o, n) => Begins(Story', o, n)
  <2>1. CASE cl' = cl
    BY <1>3, <2>1 DEF b
  <2>2. CASE cl'.o = NoOpen /\ cl'.resume = cl.resume
    BY <1>1, <1>2, <1>3, <1>9, <2>2, ClientStops DEF b
  <2> QED BY <1>9, <2>1, <2>2
<1>13. Well(Story) /\ \A o \in Opens : Taken(o)
  BY DEF InboundInv
<1>14. ASSUME NEW o \in Opens, o \notin cl'.judged, Live(o)', got[o] /= <<>>,
              Begins(Story, o, got[o][1] + Len(got[o]))
       PROVE  Begins(b, o, got[o][1] + Len(got[o]))
  <2>1. CASE o /= h.o
    BY <1>4, <1>11, <1>14, <2>1
  <2>2. CASE o = h.o
    <3>1. Live(o) /\ o \notin cl.judged
      BY <1>9, <1>10, <1>14 DEF Softened
    <3>2. op[o].m \in Managers /\ man[op[o].m].st \in {"current", "held"} /\ o \in reg[op[o].m] /\ Owns(o)
      BY <3>1 DEF Live, Owns, Alive
    <3>3. man[op[o].m].st = "current"
      BY <1>5, <3>1, <3>2
    <3>4. o \in Routed(h)
      BY <2>2, <3>2, <3>3 DEF Routed
    <3>5. Resumable(h)
      <4>1. UNCHANGED <<op, reg, cl>>
        BY <1>10, <1>14, <2>2, <3>4
      <4>2. CASE Resumable(h)
        BY <4>2
      <4>3. CASE Unregister(h.o)
        <5>1. reg' = [reg EXCEPT ![op[o].m] = @ \ {o}]
          BY <2>2, <3>2, <4>3 DEF Unregister
        <5>2. o \notin reg'[op[o].m]
          BY <1>1, <3>2, <5>1 DEF Table
        <5> QED BY <3>2, <4>1, <5>2
      <4> QED BY <1>8, <3>4, <4>2, <4>3
    <3>6. Len(got[o]) = h.n
      BY <2>2, <3>5 DEF Resumable, Routed
    <3>7. /\ got[o] \in Seq(Nat) /\ \A i \in DOMAIN got[o] : got[o][i] >= 1
          /\ \A i \in DOMAIN got[o] : got[o][i] = got[o][1] + (i - 1)
          /\ Above(Story, o, got[o])
      BY <1>13, <3>1 DEF Taken
    <3>8. \A i \in DOMAIN got[o] : got[o][i] <= Len(got[o])
      BY <1>4, <1>11, <2>2, <3>6, <3>7
    <3>9. got[o][1] + Len(got[o]) = Len(got[o]) + 1
      BY <1>14, <3>7, <3>8, ResumesRun
    <3>10. Begins(b, o, h.n + 1)
      BY <1>4, <1>11, <1>13, <2>2
    <3> QED BY <3>6, <3>9, <3>10
  <2> QED BY <2>1, <2>2
<1>15. \A o \in Opens : Above(Story, o, got[o]) => Above(Story', o, got[o])
  BY <1>11, <1>12, <1>13 DEF Taken
<1>16. \A o \in Opens : o \notin cl'.judged /\ Live(o)' /\ got[o] /= <<>>
                            /\ Begins(Story, o, got[o][1] + Len(got[o]))
                          => Begins(Story', o, got[o][1] + Len(got[o]))
  BY <1>12, <1>14
<1>17. \A g \in Managers : man'[g].st = "held" => reg'[g] \subseteq cl'.judged
  BY <1>1, <1>5, <1>9, <1>10
<1>18. Well(Story')
  BY <1>11, <1>12, <1>13
<1>19. UNCHANGED got /\ cl.judged \subseteq cl'.judged
  BY <1>1, <1>9
<1> QED BY <1>6, <1>10, <1>15, <1>16, <1>17, <1>18, <1>19, Shortened

\* A run of numbers that goes on.
LEMMA RunGoesOn ==
  ASSUME NEW s \in Seq(Nat), NEW n \in Nat, n >= 1, \A i \in DOMAIN s : s[i] >= 1
  PROVE  LET t == Append(s, n)
         IN  /\ t \in Seq(Nat) /\ t /= <<>> /\ Len(t) = Len(s) + 1 /\ \A i \in DOMAIN t : t[i] >= 1
             /\ \A o, q : Above(q, o, s)
                          /\ (\A j \in DOMAIN q : Of(q, o, j) => n <= q[j].n /\ (q[j].kind = "DATA" => n < q[j].n))
                          => Above(q, o, t)
             /\ (s = <<>> \/ ((\A i \in DOMAIN s : s[i] = s[1] + (i - 1)) /\ n = s[1] + Len(s))) =>
                  /\ \A i \in DOMAIN t : t[i] = t[1] + (i - 1)
                  /\ t[1] + Len(t) = n + 1
<1> DEFINE t == Append(s, n)
<1>1. t \in Seq(Nat) /\ Len(t) = Len(s) + 1 /\ Len(s) \in Nat /\ DOMAIN s = 1 .. Len(s) /\ DOMAIN t = 1 .. Len(s) + 1
  BY AppendProperties, LenProperties
<1>2. t[Len(s) + 1] = n /\ \A i \in DOMAIN s : t[i] = s[i]
  BY <1>1, AppendProperties
<1>3. \A i \in DOMAIN s : s[i] \in Nat
  BY <1>1, ElementOfSeq
<1>4. t /= <<>>
  BY <1>1, EmptySeq
<1> HIDE DEF t
<1>5. \A i \in DOMAIN t : t[i] >= 1
  BY <1>1, <1>2
<1>6. ASSUME NEW o, NEW q, Above(q, o, s),
             \A j \in DOMAIN q : Of(q, o, j) => n <= q[j].n /\ (q[j].kind = "DATA" => n < q[j].n)
      PROVE  Above(q, o, t)
  BY <1>1, <1>2, <1>6 DEF Above
<1>7. ASSUME s = <<>>
      PROVE  (\A i \in DOMAIN t : t[i] = t[1] + (i - 1)) /\ t[1] + Len(t) = n + 1
  <2>1. Len(s) = 0 /\ DOMAIN t = {1} /\ t[1] = n /\ Len(t) = 1
    BY <1>1, <1>2, <1>7
  <2> QED BY <2>1
<1>8. ASSUME s /= <<>>, \A i \in DOMAIN s : s[i] = s[1] + (i - 1), n = s[1] + Len(s)
      PROVE  (\A i \in DOMAIN t : t[i] = t[1] + (i - 1)) /\ t[1] + Len(t) = n + 1
  <2>0. Len(s) /= 0
    <3>1. s /= <<>>
      BY <1>8
    <3> QED BY <3>1, EmptySeq
  <2>00. 1 \in DOMAIN s
    BY <1>1, <2>0
  <2>1. 1 \in DOMAIN s /\ t[1] = s[1] /\ s[1] \in Nat
    BY <1>2, <1>3, <2>00
  <2>2. ASSUME NEW i \in DOMAIN t PROVE t[i] = t[1] + (i - 1)
    <3>1. CASE i \in DOMAIN s
      BY <1>2, <1>8, <2>1, <3>1
    <3>2. CASE i \notin DOMAIN s
      <4>1. i = Len(s) + 1
        BY <1>1, <3>2
      <4> QED BY <1>1, <1>2, <1>8, <2>1, <4>1
    <3> QED BY <3>1, <3>2
  <2>3. t[1] + Len(t) = n + 1
    BY <1>1, <1>8, <2>1
  <2> QED BY <2>2, <2>3
<1>9. (s = <<>> \/ ((\A i \in DOMAIN s : s[i] = s[1] + (i - 1)) /\ n = s[1] + Len(s))) =>
                  /\ \A i \in DOMAIN t : t[i] = t[1] + (i - 1)
                  /\ t[1] + Len(t) = n + 1
  BY <1>7, <1>8
<1> QED BY <1>1, <1>4, <1>5, <1>6, <1>9 DEF t

\* The friend's DATA.
LEMMA DataInbound ==
  ASSUME InboundInv, ServerInv, RouteData PROVE InboundInv'
<1> DEFINE h == Head(due)
           b == Behind(cl)
<1>1. Table /\ OpensGood /\ LaneInv /\ UNCHANGED <<op, reg, lane, slot, cl, man, up>>
      /\ got' = [o \in Opens |-> IF o \in Routed(h) /\ op[o].tun \in Established
                                 THEN Append(got[o], h.n) ELSE got[o]]
  BY DEF ServerInv, OpensInv, OpensGood, RouteData, openVars
<1>2. due /= <<>> /\ due' = Tail(due) /\ h.kind = "DATA"
  BY DEF RouteData, Dispatching
<1>3. h \in Entry /\ b \in Seq(Entry) /\ Story = <<h>> \o b /\ Story' = b
  BY <1>1, <1>2, DispatchStory
<1>4. h.kind \in StreamKinds /\ (\A p : Streams(h, p) <=> p = h.o) /\ h.n \in Nat
  BY <1>2, <1>3 DEF StreamKinds, Streams, Entry
<1>5. \A g \in Managers : man[g].st = "held" => reg[g] \subseteq cl.judged
  BY <1>1, <1>2, <1>4, NoneHeld
<1>6. OneInUse' /\ Throttle'
  BY <1>1, <1>2, DispatchThrottle DEF InboundInv, OneInUse, InUse
<1> HIDE DEF h, b
<1>7. /\ Well(Story) => Well(b)
      /\ \A o, s : Above(Story, o, s) => /\ Above(b, o, s)
                                         /\ Streams(h, o) => \A i \in DOMAIN s : s[i] <= h.n /\ s[i] < h.n
      /\ \A o, n : Begins(Story, o, n) => /\ ~Streams(h, o) => Begins(b, o, n)
                                          /\ Streams(h, o) => h.n = n
      /\ \A o \in Opens : Well(Story) /\ Streams(h, o) =>
           /\ Begins(b, o, h.n + 1)
           /\ \A j \in DOMAIN b : Of(b, o, j) => h.n <= b[j].n /\ (b[j].kind = "DATA" => h.n < b[j].n)
      /\ Well(Story) => h.n >= 1
  BY <1>2, <1>3, TakenOff
<1>8. Well(Story) /\ \A o \in Opens : Taken(o)
  BY DEF InboundInv
<1>9. HeldWaits'
  BY <1>1, <1>5 DEF HeldWaits
<1>10. ASSUME NEW o \in Opens PROVE Taken(o)'
  <2>0. Live(o)' = Live(o) /\ op' = op /\ cl' = cl /\ Story' = b
    BY <1>1, <1>3 DEF Live, Owns, Alive
  <2>1. /\ got[o] \in Seq(Nat) /\ Above(Story, o, got[o]) /\ (\A i \in DOMAIN got[o] : got[o][i] >= 1)
        /\ got[o] /= <<>> => op[o].tun /= "None" /\ op[o].gate /= "none"
        /\ o \notin cl.judged =>
             /\ \A i \in DOMAIN got[o] : got[o][i] = got[o][1] + (i - 1)
             /\ Live(o) /\ got[o] /= <<>> => Begins(Story, o, got[o][1] + Len(got[o]))
    BY <1>8 DEF Taken
  <2>2. CASE o \in Routed(h) /\ op[o].tun \in Established
    <3>1. got'[o] = Append(got[o], h.n) /\ o = h.o /\ Live(o)
      BY <1>1, <2>2 DEF Routed, Live
    <3>2. op[o].tun /= "None" /\ op[o].gate /= "none"
      BY <1>1, <2>2 DEF OpensGood, OpenInv, Ending, Established
    <3>3. h.n >= 1 /\ Begins(b, o, h.n + 1) /\ Above(b, o, got[o])
          /\ \A j \in DOMAIN b : Of(b, o, j) => h.n <= b[j].n /\ (b[j].kind = "DATA" => h.n < b[j].n)
      BY <1>4, <1>7, <1>8, <2>1, <3>1
    <3>4. o \notin cl.judged => got[o] = <<>> \/ ((\A i \in DOMAIN got[o] : got[o][i] = got[o][1] + (i - 1))
                                                  /\ h.n = got[o][1] + Len(got[o]))
      BY <1>4, <1>7, <2>1, <3>1
    <3> DEFINE t == Append(got[o], h.n)
    <3>5. /\ t \in Seq(Nat) /\ t /= <<>> /\ \A i \in DOMAIN t : t[i] >= 1
          /\ Above(b, o, t)
          /\ o \notin cl.judged => /\ \A i \in DOMAIN t : t[i] = t[1] + (i - 1)
                                   /\ t[1] + Len(t) = h.n + 1
      BY <1>4, <2>1, <3>3, <3>4, RunGoesOn
    <3> HIDE DEF t
    <3>6. got'[o] = t
      BY <3>1 DEF t
    <3> QED BY <2>0, <3>2, <3>3, <3>5, <3>6 DEF Taken
  <2>3. CASE ~(o \in Routed(h) /\ op[o].tun \in Established)
    <3>1. got'[o] = got[o]
      BY <1>1, <2>3
    <3>2. ASSUME o \notin cl.judged, Live(o), got[o] /= <<>> PROVE Begins(b, o, got[o][1] + Len(got[o]))
      <4>1. op[o].m \in Managers /\ man[op[o].m].st \in {"current", "held"} /\ o \in reg[op[o].m] /\ Owns(o)
            /\ op[o].tun \in Established
        BY <3>2 DEF Live, Owns, Alive
      <4>2. man[op[o].m].st = "current"
        BY <1>5, <3>2, <4>1
      <4>3. o /= h.o
        BY <2>3, <4>1, <4>2 DEF Routed
      <4> QED BY <1>4, <1>7, <2>1, <3>2, <4>3
    <3>3. Above(b, o, got[o])
      BY <1>7, <2>1
    <3> QED BY <2>0, <2>1, <3>1, <3>2, <3>3 DEF Taken
  <2> QED BY <2>2, <2>3
<1>11. DOMAIN got' = Opens /\ Well(Story')
  BY <1>1, <1>3, <1>7, <1>8
<1> QED BY <1>6, <1>9, <1>10, <1>11 DEF InboundInv

\* Nothing is on its way at the start.
LEMMA InboundStarts == ASSUME Init PROVE InboundInv
<1>1. /\ got = [o \in Opens |-> <<>>] /\ cl = [o |-> NoOpen, sent |-> 0, resume |-> FALSE, judged |-> {}]
      /\ man = [g \in Managers |-> [st |-> "unused", dead |-> FALSE, hold |-> 0]]
      /\ lane = <<>> /\ due = <<>> /\ slot = [on |-> FALSE, backlog |-> <<>>, armed |-> FALSE] /\ up = FALSE
  BY DEF Init, OpenInit, FriendsInit
<1>2. OneInUse /\ Throttle /\ HeldWaits
  BY <1>1 DEF OneInUse, InUse, Throttle, HeldWaits
<1>3. LaneInv
  BY ServerStarts DEF ServerInv, OpensInv
<1>4. Queue = <<>> /\ cl \in ClientRecord /\ <<>> \in Seq(Entry)
  <2>1. <<>> \in Seq(Entry)
    OBVIOUS
  <2>2. <<>> \o (<<>> \o <<>>) = <<>>
    BY <2>1, NothingAhead
  <2>3. Queue = <<>> \o (<<>> \o <<>>)
    BY <1>1 DEF Queue
  <2> QED BY <1>3, <2>1, <2>2, <2>3, Queues
<1>5. Well(Story)
  <2>1. Well(<<>>)
    BY DEF Well, Lifted, Numbered, Chained, Rising, Resumed
  <2>2. Caught(<<>>, up, cl)
    BY <1>1 DEF Caught
  <2>3. Well(<<>> \o Ahead(up, cl))
    BY <1>4, <2>1, <2>2, ClientStory
  <2> QED BY <1>3, <1>4, <2>3, StoryEnds
<1>6. \A o \in Opens : Taken(o)
  BY <1>1 DEF Taken, Above
<1> QED BY <1>1, <1>2, <1>5, <1>6 DEF InboundInv

\* Every step of the server.
LEMMA InboundSteps == ASSUME ServerInv, InboundInv, Next PROVE InboundInv'
<1>1. CASE Strand
  <2>1. CASE RunEvent
    BY <2>1, UpInbound, DownInbound, VerdictInbound, PruneInbound DEF RunEvent
  <2> QED BY <1>1, <2>1, FrameInbound, RebuildInbound, AcceptInbound, DataInbound, RouteEndInbound, ResumeInbound,
             RetryInbound DEF Strand
<1>2. CASE Outside
  BY <1>2, TimersInbound, AcceptInbound, LinkInbound, ClientInbound DEF Outside
<1>3. ASSUME NEW o \in Opens, OpenSteps(o) \/ OpenEvents(o), UNCHANGED <<friendVars, up>> PROVE InboundInv'
  BY <1>3, OpenInbound
<1> QED BY <1>1, <1>2, <1>3 DEF Next

\* A step that changes nothing.
LEMMA InboundStutters == ASSUME InboundInv, UNCHANGED vars PROVE InboundInv'
<1>1. UNCHANGED <<op, reg, man, up, lane, due, slot, holds, cl, got>>
  BY DEF vars, friendVars
<1>2. OneInUse' /\ Throttle'
  BY <1>1 DEF InboundInv, OneInUse, InUse, Throttle
<1>3. Story' = Story
  BY <1>1 DEF Story
<1>4. Softened
  BY <1>1 DEF Softened, InboundInv, Taken, Live, Owns, Alive
<1>5. Well(Story') /\ \A g \in Managers : man'[g].st = "held" /\ ~(reg'[g] \subseteq cl'.judged) => Waits(Story')
  BY <1>1, <1>3 DEF InboundInv, HeldWaits
<1> QED BY <1>1, <1>2, <1>3, <1>4, <1>5, Shortened

\* InboundInv: what is queued and what the client sends next go on, for every
\* tunnel, where the DATA it took left off.
THEOREM InboundInvariant == Spec => []InboundInv
<1>1. Init => InboundInv
  BY InboundStarts
<1>2. ServerInv /\ InboundInv /\ [Next]_vars => InboundInv'
  BY InboundSteps, InboundStutters
<1>3. Spec => []ServerInv
  BY ServerInvariant
<1> QED BY <1>1, <1>2, <1>3, PTL DEF Spec

\* InboundIntact: from the first DATA a tunnel takes on, its inbound stream has
\* no hole and no swap.
THEOREM InboundIntactHolds == Spec => []InboundIntact
<1>1. InboundInv => InboundIntact
  <2> SUFFICES ASSUME InboundInv, NEW o \in Opens \ cl.judged, NEW i \in 1 .. Len(got[o]) - 1
               PROVE  got[o][i + 1] = got[o][i] + 1
    BY DEF InboundIntact, Consecutive
  <2>1. got[o] \in Seq(Nat) /\ \A x \in DOMAIN got[o] : got[o][x] = got[o][1] + (x - 1)
    BY DEF InboundInv, Taken
  <2>2. DOMAIN got[o] = 1 .. Len(got[o]) /\ Len(got[o]) \in Nat
    BY <2>1, LenProperties
  <2>3. i \in DOMAIN got[o] /\ i + 1 \in DOMAIN got[o] /\ 1 \in DOMAIN got[o]
    BY <2>2
  <2>4. got[o][1] \in Nat
    BY <2>1, <2>2, <2>3, ElementOfSeq
  <2>5. got[o][i] = got[o][1] + (i - 1) /\ got[o][i + 1] = got[o][1] + ((i + 1) - 1)
    BY <2>1, <2>3
  <2>6. i \in Nat
    BY <2>2
  <2> QED BY <2>4, <2>5, <2>6
<1> QED BY <1>1, InboundInvariant, PTL
============================================================================
