--------------------------- MODULE ServerFriends ---------------------------
(***************************************************************************)
(* The server's side of one friend: the TunnelManager it has, or that is   *)
(* held for a resume, and the inbound byte throttle.  Connection events,   *)
(* frames, keepalive verdicts, expired holds and throttle retries all run  *)
(* on inbound_strand_: lane is its queue, and one entry is one step.       *)
(* DATA frames are numbered by the client.  Whether the byte budget covers *)
(* a frame, or a release deadline has passed, may go either way.           *)
(***************************************************************************)
EXTENDS ServerOpen

CONSTANT Resume   \* config_.tunnel.resume.enabled

VARIABLES lane,   \* what is posted to inbound_strand_
          due,    \* frames the current entry still has to dispatch
          slot,   \* inbound_[friend]: on, the parked frames, retry_armed
          holds,  \* prune timers: how many so far, pending, expired
          cl,     \* external: the tunnel the client streams on and what it has sent
          got     \* per OPEN: the DATA its tunnel took

friendVars == <<lane, due, slot, holds, cl, got, man>>

FriendsInit ==
  /\ lane = <<>> /\ due = <<>>
  /\ slot = [on |-> FALSE, backlog |-> <<>>, armed |-> FALSE]
  /\ holds = [n |-> 0, pending |-> {}, expired |-> {}]
  /\ cl = [o |-> NoOpen, sent |-> 0, resume |-> FALSE, judged |-> {}]
  /\ got = [o \in Opens |-> <<>>]

Task(k) == [kind |-> k, o |-> NoOpen, n |-> 0]
Frame(k, o, n) == [kind |-> k, o |-> o, n |-> n]
Post(t) == lane' = Append(lane, t)

CurrentMgr == {g \in Managers : man[g].st = "current"}
HeldMgr == {g \in Managers : man[g].st = "held"}
Unused == {g \in Managers : man[g].st = "unused"}

----------------------------------------------------------------------------
(* The friend's managers. *)

\* setup_tunnel_manager(): keep the one there is, resurrect a held one with its
\* prune timer cancelled, or build a fresh one.
SetupManager ==
  IF CurrentMgr /= {} THEN UNCHANGED <<man, holds>>
  ELSE IF HeldMgr /= {} /\ Resume
  THEN \E g \in HeldMgr :
         /\ man' = [man EXCEPT ![g].st = "current", ![g].dead = FALSE]
         /\ holds' = [holds EXCEPT !.pending = @ \ {man[g].hold}]
  ELSE /\ Unused /= {}
       /\ man' = [man EXCEPT ![Min(Unused)].st = "current"]
       /\ UNCHANGED holds

SetupSlot == slot' = IF slot.on THEN slot ELSE [slot EXCEPT !.on = TRUE]

\* close_all() of manager g, which nobody refers to afterwards.
CloseAll(g) ==
  /\ op' = [o \in Opens |-> IF o \in reg[g] THEN ForceClose(op[o]) ELSE op[o]]
  /\ reg' = [reg EXCEPT ![g] = {}]
  /\ wire' = wire

\* teardown_tunnel_manager(): parked frames go, the manager is held for a
\* resume when it has tunnels, and closed otherwise.
Teardown ==
  /\ slot' = [on |-> FALSE, backlog |-> <<>>, armed |-> FALSE]
  /\ IF CurrentMgr = {} THEN UNCHANGED <<man, holds, op, reg, wire>>
     ELSE \E g \in CurrentMgr :
       IF Resume /\ reg[g] /= {}
       THEN /\ man' = [man EXCEPT ![g].st = "held", ![g].hold = holds.n + 1]
            /\ holds' = [holds EXCEPT !.n = @ + 1, !.pending = @ \cup {holds.n + 1}]
            /\ UNCHANGED <<op, reg, wire>>
       ELSE /\ man' = [man EXCEPT ![g].st = "gone"]
            /\ CloseAll(g) /\ UNCHANGED holds

\* Mutant: an expired hold takes whatever manager is held.
PruneAny(h) ==
  IF HeldMgr = {} THEN UNCHANGED <<man, openVars>>
  ELSE \E g \in HeldMgr : man' = [man EXCEPT ![g].st = "gone"] /\ CloseAll(g)

\* The prune handler: only the hold its own timer belongs to.
Prune(h) ==
  LET mine == {g \in HeldMgr : man[g].hold = h}
  IN  IF mine = {} THEN UNCHANGED <<man, openVars>>
      ELSE \E g \in mine : man' = [man EXCEPT ![g].st = "gone"] /\ CloseAll(g)

\* teardown_after_keepalive_verdict(): the manager judged must still be the
\* current one and still be judged dead.
Verdict_(g) == man[g].st = "current" /\ man[g].dead

----------------------------------------------------------------------------
(* The throttle. *)

Bypasses(f) == f.kind = "PING"
Metered(f) == f.kind = "DATA"

\* Mutant: a frame the budget covers overtakes the parked ones.
AdmitOvertakes(f) ==
  \/ (Bypasses(f) \/ ~slot.on \/ TRUE) /\ due' = <<f>> /\ UNCHANGED slot
  \/ /\ slot.on /\ ~Bypasses(f) /\ Metered(f)
     /\ due' = <<>> /\ slot' = [slot EXCEPT !.backlog = Append(@, f), !.armed = TRUE]

\* admit(): dispatched, parked behind what waits, or the whole backlog released
\* because of its size or a deadline.
Admit(f) ==
  \/ /\ Bypasses(f) \/ ~slot.on \/ slot.backlog = <<>>
     /\ due' = <<f>> /\ UNCHANGED slot
  \/ /\ slot.on /\ ~Bypasses(f) /\ (slot.backlog /= <<>> \/ Metered(f))
     /\ \/ /\ due' = <<>>
           /\ slot' = [slot EXCEPT !.backlog = Append(@, f), !.armed = TRUE]
        \/ /\ due' = Append(slot.backlog, f)
           /\ slot' = [slot EXCEPT !.backlog = <<>>, !.armed = FALSE]

\* Mutant: a drain that leaves frames behind does not arm the next one.
DrainUnarmed(k) ==
  /\ k <= Len(slot.backlog)
  /\ due' = SubSeq(slot.backlog, 1, k)
  /\ slot' = [slot EXCEPT !.backlog = SubSeq(@, k + 1, Len(@)), !.armed = FALSE]

\* drain_inbound_backlog(): the k frames the budget covers, and the next retry.
Drain(k) ==
  /\ k <= Len(slot.backlog)
  /\ due' = SubSeq(slot.backlog, 1, k)
  /\ slot' = [slot EXCEPT !.backlog = SubSeq(@, k + 1, Len(@)), !.armed = k < Len(slot.backlog)]

RetryFires ==
  /\ slot.armed /\ Task("retry") \notin ToSet(lane)
  /\ Post(Task("retry"))
  /\ UNCHANGED <<openVars, due, slot, holds, cl, got, man, up>>

----------------------------------------------------------------------------
(* The strand. *)

Next1 == lane /= <<>> /\ due = <<>> /\ lane' = Tail(lane)

\* on_friend_connection() and the timers' handlers.
RunEvent ==
  /\ Next1 /\ UNCHANGED <<due, got, up>>
  /\ LET t == Head(lane)
     IN  \/ t.kind = "up" /\ SetupManager /\ SetupSlot /\ UNCHANGED <<openVars, cl>>
         \/ t.kind = "down" /\ Teardown /\ UNCHANGED cl
         \/ /\ t.kind = "verdict"
            /\ IF Verdict_(t.n)
               THEN Teardown /\ cl' = [cl EXCEPT !.judged = @ \cup reg[t.n]]
               ELSE UNCHANGED <<openVars, man, holds, slot, cl>>
         \/ t.kind = "prune" /\ Prune(t.n) /\ UNCHANGED <<holds, slot, cl>>

RunRetry(k) ==
  /\ Next1 /\ Head(lane).kind = "retry"
  /\ Drain(k) /\ UNCHANGED <<openVars, man, holds, cl, got, up>>

\* on_lossless_packet(): every frame tells the manager the peer is alive.
RunFrame ==
  /\ Next1 /\ Head(lane).kind \in {"OPEN", "DATA", "CLOSE", "ERROR", "RESUME", "PING"}
  /\ man' = [g \in Managers |-> IF man[g].st = "current" THEN [man[g] EXCEPT !.dead = FALSE] ELSE man[g]]
  /\ Admit(Head(lane))
  /\ UNCHANGED <<openVars, holds, cl, got, up>>

----------------------------------------------------------------------------
(* dispatch_inbound_frame(). *)

Dispatching(k) == due /= <<>> /\ Head(due).kind = k /\ due' = Tail(due)

\* An allowed OPEN that finds no manager has one built first.
Rebuild ==
  /\ due /= <<>> /\ Head(due).kind = "OPEN" /\ CurrentMgr = {}
  /\ SetupManager /\ SetupSlot
  /\ UNCHANGED <<openVars, lane, due, cl, got, up>>

handle_tunnel_open(verdict) ==
  /\ Dispatching("OPEN") /\ op[Head(due).o].phase = "None"
  /\ UNCHANGED <<lane, slot, holds, cl, got, man, up>>
  /\ IF CurrentMgr = {}
     THEN /\ verdict = "denied"
          /\ Set(Head(due).o, [Fresh EXCEPT !.phase = "Resolved", !.denied = 1])
          /\ UNCHANGED <<reg, wire>>
     ELSE \E g \in CurrentMgr : AcceptOpen(Head(due).o, g, verdict)

\* The tunnel a routed frame reaches.
Routed(f) == {o \in Opens : o = f.o /\ Owns(o) /\ man[op[o].m].st = "current"}

RouteData ==
  /\ Dispatching("DATA") /\ UNCHANGED <<openVars, lane, slot, holds, cl, man, up>>
  /\ got' = [o \in Opens |-> IF o \in Routed(Head(due)) /\ op[o].tun \in Established
                             THEN Append(got[o], Head(due).n) ELSE got[o]]

RouteEnd ==
  /\ \/ /\ Dispatching("CLOSE")
        /\ IF Routed(Head(due)) = {} THEN UNCHANGED openVars
           ELSE handle_tunnel_close_frame(Head(due).o)
     \/ /\ Dispatching("ERROR")
        /\ IF Routed(Head(due)) = {} THEN UNCHANGED openVars
           ELSE handle_tunnel_error_frame(Head(due).o)
     \/ Dispatching("PING") /\ UNCHANGED openVars
  /\ UNCHANGED <<lane, slot, holds, cl, got, man, up>>

\* handle_resume_request() with on_gap = close: the tunnel must still be
\* established and have everything the client sent.
Resumable(f) == \E o \in Routed(f) : op[o].tun \in Established /\ Len(got[o]) = f.n

handle_resume_request ==
  /\ Dispatching("RESUME")
  /\ LET f == Head(due)
     IN  IF Resumable(f) THEN UNCHANGED <<openVars, cl>>
         ELSE /\ cl' = IF cl.o = f.o THEN [cl EXCEPT !.o = NoOpen] ELSE cl
              /\ IF Routed(f) = {} THEN UNCHANGED openVars
                 ELSE Set(f.o, RemoveIf(f.o, op[f.o])) /\ Unregister(f.o)
                      /\ Tells(f.o, Farewell(op[f.o]))
  /\ UNCHANGED <<lane, slot, holds, got, man, up>>

----------------------------------------------------------------------------
(* What happens outside the strand. *)

\* The keepalive of a current manager, or the end of a hold's timer.
KeepaliveVerdict(g) ==
  /\ man[g].st = "current" /\ ~man[g].dead
  /\ man' = [man EXCEPT ![g].dead = TRUE]
  /\ Post([kind |-> "verdict", o |-> NoOpen, n |-> g])
  /\ UNCHANGED <<openVars, due, slot, holds, cl, got, up>>

HoldExpires(h) ==
  /\ h \in holds.pending
  /\ holds' = [holds EXCEPT !.pending = @ \ {h}, !.expired = @ \cup {h}]
  /\ Post([kind |-> "prune", o |-> NoOpen, n |-> h])
  /\ UNCHANGED <<openVars, due, slot, cl, got, man, up>>

\* The link comes up, or breaks with k of the client's frames undelivered.
LinkUp ==
  /\ ~up /\ up' = TRUE /\ Post(Task("up"))
  /\ cl' = [cl EXCEPT !.resume = cl.o /= NoOpen]
  /\ UNCHANGED <<openVars, due, slot, holds, got, man>>
LinkDown(k) ==
  /\ up /\ up' = FALSE /\ Post(Task("down"))
  /\ cl' = [cl EXCEPT !.sent = IF cl.o = NoOpen THEN @ ELSE @ + k]
  /\ UNCHANGED <<openVars, due, slot, holds, got, man>>

UnusedOpens ==
  {o \in Opens : op[o].phase = "None" /\ \A f \in ToSet(lane \o due \o slot.backlog) : f.o /= o}
Acked(o) == [o |-> o, kind |-> "ACK"] \in ToSet(wire)

\* The client opens a tunnel, streams into it, ends it, resumes it, or pings.
ClientSends(k) ==
  /\ up /\ cl.resume = (k = "RESUME")
  /\ \/ /\ k = "OPEN" /\ UnusedOpens /= {}
        /\ LET o == CHOOSE x \in UnusedOpens : TRUE
           IN  /\ cl.o = NoOpen \/ IdOf(o) /= IdOf(cl.o)
               /\ Post(Frame(k, o, 0))
               /\ cl' = IF cl.o = NoOpen THEN [cl EXCEPT !.o = o, !.sent = 0] ELSE cl
     \/ /\ k = "DATA" /\ cl.o /= NoOpen /\ Acked(cl.o)
        /\ Post(Frame(k, cl.o, cl.sent + 1)) /\ cl' = [cl EXCEPT !.sent = @ + 1]
     \/ /\ k \in {"CLOSE", "ERROR"} /\ cl.o /= NoOpen
        /\ Post(Frame(k, cl.o, 0)) /\ cl' = [cl EXCEPT !.o = NoOpen]
     \/ k = "RESUME" /\ Post(Frame(k, cl.o, cl.sent)) /\ cl' = [cl EXCEPT !.resume = FALSE]
     \/ k = "PING" /\ Post(Task(k)) /\ UNCHANGED cl
  /\ UNCHANGED <<openVars, due, slot, holds, got, man, up>>
============================================================================
