---------------------------- MODULE TunnelServer ----------------------------
(* The server: the friend's managers and throttle, and its OPENs. *)
EXTENDS ServerFriends

vars == <<op, reg, wire, up, allow, friendVars>>

Init == OpenInit /\ FriendsInit

Strand ==
  /\ \/ RunEvent \/ RunFrame \/ Rebuild \/ handle_tunnel_open("ok")
     \/ RouteData \/ RouteEnd \/ handle_resume_request
     \/ \E k \in 0 .. Len(slot.backlog) : RunRetry(k)
  /\ UNCHANGED allow

Outside ==
  \/ RetryFires /\ UNCHANGED allow
  \/ handle_tunnel_open("denied") /\ Spend("deny")
  \/ LinkUp /\ Spend("up")
  \/ \E k \in 0 .. 1 : LinkDown(k) /\ Spend("down")
  \/ \E g \in Managers : KeepaliveVerdict(g) /\ Spend("verdict")
  \/ \E h \in holds.pending : HoldExpires(h) /\ Spend("expire")
  \/ \E k \in {"OPEN", "DATA", "CLOSE", "ERROR", "RESUME", "PING"} : ClientSends(k) /\ Spend(k)

Next ==
  \/ Strand \/ Outside
  \/ \E o \in Opens :
       /\ \/ OpenSteps(o) /\ UNCHANGED allow
          \/ OpenEvents(o)
       /\ UNCHANGED <<friendVars, up>>

Spec == Init /\ [][Next]_vars

\* The strand and the timers run, and the byte budget refills.
FairSpec ==
  /\ Spec
  /\ WF_vars(Strand) /\ WF_vars(RetryFires /\ UNCHANGED allow)
  /\ SF_vars(\E k \in 1 .. Len(slot.backlog) : RunRetry(k) /\ UNCHANGED allow)

----------------------------------------------------------------------------
Quiet(o) == LET r == op[o] IN /\ r.phase /= "None" /\ r.at = "idle" /\ r.posts = {}
                              /\ ~r.shut /\ ~r.timer /\ r.notify /= "due"
Told(o, k) == [o |-> o, kind |-> k] \in ToSet(wire)

\* However an OPEN ends, and however many threads end it, it is booked at most
\* once, and exactly once when the friend was told it is open.
OneOutcome ==
  \A o \in Opens : LET n == op[o].ok + op[o].failed + op[o].denied
                   IN  n <= 1 /\ (Quiet(o) /\ Told(o, "ACK") => n = 1)

\* The friend learns how its OPEN went: an ACK is never behind the ERROR or
\* CLOSE that ends the tunnel, and once every thread is done with an OPEN whose
\* manager was there all along, the friend holds an ACK if the tunnel lives and
\* an ERROR or CLOSE if the server ended it.
ClientTold ==
  /\ \A i, j \in DOMAIN wire : i < j /\ wire[i].o = wire[j].o => wire[j].kind /= "ACK"
  /\ \A o \in Opens :
       (/\ Quiet(o) /\ ~op[o].byPeer /\ op[o].m \in Managers
        /\ man[op[o].m].st = "current" /\ man[op[o].m].hold = 0
        /\ up /\ Task("down") \notin ToSet(lane))
       => IF Owns(o) THEN Told(o, "ACK") /\ ~Told(o, "ERROR")
          ELSE Told(o, "ERROR") \/ Told(o, "CLOSE")

\* Nothing of an OPEN is left behind: when every thread is done with it, a
\* registered tunnel is established on a live socket and counted as active, and
\* one that is not has neither socket nor count.
NothingLeaks ==
  \A o \in Opens : Quiet(o) =>
    IF Owns(o)
    THEN op[o].tun \in Established /\ op[o].sock = "Connected" /\ op[o].gauge = "Counted"
    ELSE op[o].sock = "Disconnected" /\ op[o].gauge /= "Counted"

\* Every OPEN is accounted for: one outcome, and nothing left when it is over.
OpensAccounted == OneOutcome /\ NothingLeaks

Consecutive(s) == \A i \in 1 .. Len(s) - 1 : s[i + 1] = s[i] + 1

\* From the first DATA a tunnel takes on, its inbound stream has no hole and no
\* swap, whatever was parked, dropped with the link or resumed -- except where
\* the keepalive gave the friend up while its link stayed.
InboundIntact == \A o \in Opens \ cl.judged : Consecutive(got[o])

\* A manager held for a resume is closed only when its own hold has run out,
\* never by the timer of an earlier one.
NoEarlyPrune ==
  [][\A g \in Managers : man[g].st = "held" /\ man'[g].st = "gone"
       => man[g].hold \in holds.expired]_vars

\* Parked frames are dispatched or go with the friend.
BacklogDrains == slot.backlog /= <<>> ~> slot.backlog = <<>>
============================================================================
