--------------------------- MODULE TunnelManager ---------------------------
(* TunnelManager: the id bitmap and the tunnel map, the ways a tunnel enters *)
(* and leaves them, the maintenance pass, frame routing, and the two ends of *)
(* a session, composed with the retry queue and the timers.                  *)
(*                                                                           *)
(* A tunnel object is what Tunnel.tla promises of it: "live", then perhaps   *)
(* "owing" a frame, then "silent" for good, which is when its id-release     *)
(* hook fires.  An object is also the sender of its OPEN (or OPEN_ACK).      *)
EXTENDS OutboundQueue, ManagerTimers

CONSTANTS Objs,        \* tunnel objects, the senders that own their frame
          MaxId,       \* 65535
          MaxTunnels,  \* max_tunnels_
          Scenarios    \* budgets of the events

ASSUME ManagerAssumption ==
  /\ Objs = {s \in Senders : Kind[s] /= "control"} /\ "none" \notin Objs
  /\ MaxId \in Nat \ {0} /\ MaxTunnels \in Nat

VARIABLES
  used,   \* used_ids_
  next,   \* next_tunnel_id_
  tun,    \* tunnels_
  ob,     \* the objects: id, registration, life, release hook, removal
  rp      \* the maintenance passes: ids to close, and the object fetched

tableVars == <<used, next, tun, ob, rp>>
vars == <<queueVars, timerVars, tableVars>>

Ids == 1..MaxId
NoObj == "none"
Mapped == {i \in Ids : tun[i] /= NoObj}
Empty == Mapped = {}
Succ(i) == IF i = MaxId THEN 1 ELSE i + 1

Init ==
  /\ QueueInit(Scenarios) /\ TimersInit
  /\ used = [i \in Ids |-> FALSE] /\ next = 1
  /\ tun = [i \in Ids |-> NoObj]
  /\ ob = [o \in Objs |-> [id |-> 0, reg |-> "none", st |-> "none", hook |-> FALSE, rm |-> "none", asks |-> FALSE]]
  /\ rp = [h \in Handlers |-> [todo |-> {}, id |-> 0, obj |-> NoObj]]

\* The removals under way, once the objects in gone have left the map.
Detached(gone) == [o \in Objs |-> IF o \in gone THEN [ob[o] EXCEPT !.rm = "hook"] ELSE ob[o]]
Without(ids) == [i \in Ids |-> IF i \in ids THEN NoObj ELSE tun[i]]
\* Nothing left to lose: the silence that counts starts over.
StakeAfter(map) == staked' = IF \A i \in Ids : map[i] = NoObj THEN 0 ELSE staked
timersButStake == <<tm, hd, age, dead, call, told>>

----------------------------------------------------------------------------
(* Ids. *)

\* find_available_id: the first free id from next_tunnel_id_ round, or none.
find_available_id ==
  LET order == [k \in 1..MaxId |-> ((next + k - 2) % MaxId) + 1]
      free  == {k \in 1..MaxId : ~used[order[k]]}
  IN  IF free = {} THEN 0 ELSE order[CHOOSE k \in free : \A j \in free : k <= j]

\* The client: allocate_tunnel_id before a tunnel is built.
allocate_tunnel_id(o) ==
  /\ ob[o].reg = "none" /\ Spend("alloc")
  /\ LET i == find_available_id IN
       IF i = 0
       THEN ob' = [ob EXCEPT ![o].reg = "refused"] /\ UNCHANGED <<used, next>>
       ELSE /\ ob' = [ob EXCEPT ![o].reg = "reserved", ![o].id = i]
            /\ used' = [used EXCEPT ![i] = TRUE] /\ next' = Succ(i)
  /\ UNCHANGED <<q, gate, timer, dr, snd, clr, mut, wire, dropped, passed, timerVars, tun, rp>>

\* A control frame of the manager's own: a sender that has not been used.
\* Once there is none left, a frame the transport takes.
Unused == {s \in Senders : Kind[s] = "control" /\ snd[s].pc = "off"}
Fresh == IF Unused = {} THEN {} ELSE {CHOOSE s \in Unused : TRUE}
Emit == snd' = [s \in Senders |-> IF s \in Fresh THEN [snd[s] EXCEPT !.pc = "new"] ELSE snd[s]]

\* The server: a TUNNEL_OPEN arrives for an id the peer chose.  At the cap, or
\* with the id reserved or mapped, a TUNNEL_ERROR goes back.
handle_incoming_open(o, i) ==
  /\ ob[o].reg = "none" /\ Spend("incoming")
  /\ note_peer_activity
  /\ IF Cardinality(Mapped) >= MaxTunnels \/ used[i]
     THEN /\ ob' = [ob EXCEPT ![o].reg = "refused"]
          /\ Emit
          /\ UNCHANGED used
     ELSE /\ ob' = [ob EXCEPT ![o].reg = "reserved", ![o].id = i]
          /\ used' = [used EXCEPT ![i] = TRUE]
          /\ UNCHANGED snd
  /\ UNCHANGED <<q, gate, timer, dr, clr, mut, wire, dropped, passed, next, tun, rp>>

\* Mutant: the clock is left to the next tick.
add_tunnel_stale_clock(o) ==
  /\ ob[o].reg = "reserved" /\ Cardinality(Mapped) < MaxTunnels
  /\ ob' = [ob EXCEPT ![o].reg = "added", ![o].st = "live"]
  /\ used' = [used EXCEPT ![ob[o].id] = TRUE]
  /\ tun' = [tun EXCEPT ![ob[o].id] = o]
  /\ UNCHANGED <<queueVars, timerVars, next, rp>>

\* add_tunnel.  The cap refuses it, and the caller gives the id back (the
\* client explicitly, the server through its TunnelIdGuard).  The first tunnel
\* restarts the keepalive clock under the same lock.
add_tunnel(o) ==
  /\ ob[o].reg = "reserved"
  /\ IF Cardinality(Mapped) >= MaxTunnels
     THEN /\ ob' = [ob EXCEPT ![o].reg = "refused"]
          /\ used' = [used EXCEPT ![ob[o].id] = FALSE]
          /\ UNCHANGED <<tun, age, staked>>
     ELSE /\ ob' = [ob EXCEPT ![o].reg = "added", ![o].st = "live"]
          /\ used' = [used EXCEPT ![ob[o].id] = TRUE]
          /\ tun' = [tun EXCEPT ![ob[o].id] = o]
          /\ age' = IF Empty THEN 0 ELSE age
          /\ StakeAfter(tun)
  /\ UNCHANGED <<queueVars, tm, hd, dead, call, told, next, rp>>

\* The tunnel's driver offers its OPEN, or the server's gate its OPEN_ACK.
TunnelOpens(o) ==
  /\ ob[o].st = "live" /\ snd[o].pc = "off" /\ Spend("offer")
  /\ snd' = [snd EXCEPT ![o].pc = "new"]
  /\ UNCHANGED <<q, gate, timer, dr, clr, mut, wire, dropped, passed, timerVars, tableVars>>

----------------------------------------------------------------------------
(* The life of a tunnel, as far as the manager depends on it. *)

\* The tunnel ends by itself (its CLOSE, an ERROR, a lost socket); on_close_
\* asks for its removal.
TunnelEnds(o, st) ==
  /\ ob[o].st = "live" /\ ob[o].reg = "added" /\ Spend("end")
  /\ ob' = [ob EXCEPT ![o].st = st, ![o].asks = TRUE]
  /\ UNCHANGED <<q, gate, timer, dr, snd, clr, mut, wire, dropped, passed, timerVars,
                 used, next, tun, rp>>

TunnelSilent(o) ==
  /\ ob[o].st = "owing"
  /\ ob' = [ob EXCEPT ![o].st = "silent"]
  /\ UNCHANGED <<queueVars, timerVars, used, next, tun, rp>>

\* The id-release hook: release_tunnel_id, once nothing can name the id.
IdReleasable(o) ==
  /\ ob[o].hook /\ ob[o].st = "silent"
  /\ ob' = [ob EXCEPT ![o].hook = FALSE]
  /\ used' = [used EXCEPT ![ob[o].id] = FALSE]
  /\ UNCHANGED <<queueVars, timerVars, next, tun, rp>>

\* remove_tunnel_if(id, o): the identity check is made under the map's lock.
remove_tunnel_if(o) ==
  /\ ob[o].asks
  /\ LET i == ob[o].id IN
       IF tun[i] = o
       THEN /\ tun' = Without({i}) /\ ob' = [Detached({o}) EXCEPT ![o].asks = FALSE]
            /\ StakeAfter(tun')
       ELSE ob' = [ob EXCEPT ![o].asks = FALSE] /\ UNCHANGED <<tun, staked>>
  /\ UNCHANGED <<queueVars, timersButStake, used, next, rp>>

\* Mutant: the id is free as soon as the tunnel has left the map.
SetOnIdReleasableEarly(o) ==
  /\ ob[o].rm = "hook"
  /\ ob' = [ob EXCEPT ![o].rm = "close"]
  /\ used' = [used EXCEPT ![ob[o].id] = FALSE]
  /\ UNCHANGED <<queueVars, timerVars, next, tun, rp>>

\* The tail of a removal, unlocked: hand over the id release, then tear down.
SetOnIdReleasable(o) ==
  /\ ob[o].rm = "hook"
  /\ ob' = [ob EXCEPT ![o].rm = "close", ![o].hook = TRUE]
  /\ UNCHANGED <<queueVars, timerVars, used, next, tun, rp>>
TearDown(o, st) ==
  /\ ob[o].rm = "close"
  /\ ob' = [ob EXCEPT ![o].rm = "done", ![o].st = IF @ = "live" THEN st ELSE @]
  /\ UNCHANGED <<queueVars, timerVars, used, next, tun, rp>>

\* The client's open() was refused for good: remove_tunnel(id), by id alone.
OpenRefused(o) ==
  /\ snd[o].pc = "failed" /\ ob[o].reg = "added"
  /\ snd' = [snd EXCEPT ![o].pc = "gone"]
  /\ LET i == ob[o].id
         x == tun[i]
     IN IF x /= NoObj
        THEN /\ tun' = Without({i}) /\ ob' = Detached({x})
             /\ StakeAfter(tun')
        ELSE UNCHANGED <<tun, ob, staked>>
  /\ UNCHANGED <<q, gate, timer, dr, clr, mut, wire, dropped, passed, budget, timersButStake,
                 used, next, rp>>

----------------------------------------------------------------------------
(* The maintenance pass: reap_idle_tunnels_once. *)

\* The scan takes idle tunnels past their handshake.
ReapScan(h) ==
  /\ hd["reaper"][h].pc = "work"
  /\ \E ids \in SUBSET {i \in Mapped : snd[tun[i]].pc = "sent" \/ ob[tun[i]].st /= "live"} :
       rp' = [rp EXCEPT ![h].todo = ids]
  /\ HandlerGoto("reaper", h, "reap")
  /\ UNCHANGED <<queueVars, tm, age, staked, dead, call, told, used, next, tun, ob>>

\* Per id: look it up again, re-check the generation before the close ...
ReapClose(h, st) ==
  /\ hd["reaper"][h].pc = "reap" /\ rp[h].todo /= {}
  /\ \E i \in rp[h].todo :
       IF tun[i] = NoObj
       THEN rp' = [rp EXCEPT ![h].todo = @ \ {i}] /\ UNCHANGED <<ob, hd>>
       ELSE IF ~Current("reaper", h)
       THEN rp' = [rp EXCEPT ![h].todo = {}] /\ UNCHANGED <<ob, hd>>
       ELSE /\ rp' = [rp EXCEPT ![h] = [todo |-> @.todo \ {i}, id |-> i, obj |-> tun[i]]]
            /\ ob' = [ob EXCEPT ![tun[i]].st = IF @ = "live" THEN st ELSE @]
            /\ HandlerGoto("reaper", h, "remove")
  /\ UNCHANGED <<queueVars, tm, age, staked, dead, call, told, used, next, tun>>

\* ... and remove the object that was closed, not whatever has the id now.
ReapRemove(h) ==
  /\ hd["reaper"][h].pc = "remove"
  /\ IF tun[rp[h].id] = rp[h].obj
     THEN tun' = Without({rp[h].id}) /\ ob' = Detached({rp[h].obj}) /\ StakeAfter(tun')
     ELSE UNCHANGED <<tun, ob, staked>>
  /\ HandlerGoto("reaper", h, "reap")
  /\ UNCHANGED <<queueVars, tm, age, dead, call, told, used, next, rp>>

ReapEnds(h) ==
  /\ hd["reaper"][h].pc = "reap" /\ rp[h].todo = {}
  /\ HandlerGoto("reaper", h, "rearm")
  /\ UNCHANGED <<queueVars, tm, age, staked, dead, call, told, tableVars>>

----------------------------------------------------------------------------
(* The keepalive's PING goes through send_frame; the tick waits for it. *)

Busy == {"new", "barrier", "recheck", "call", "park"}

TickPings(h) ==
  /\ hd["keepalive"][h].pc = "ping"
  /\ Emit
  /\ hd' = [hd EXCEPT !["keepalive"][h].pc = "sending", !["keepalive"][h].sends = Fresh]
  /\ UNCHANGED <<q, gate, timer, dr, clr, mut, wire, dropped, passed, budget,
                 tm, age, staked, dead, call, told, tableVars>>

TickSent(h) ==
  /\ hd["keepalive"][h].pc = "sending"
  /\ \A s \in hd["keepalive"][h].sends : snd[s].pc \notin Busy
  /\ HandlerGoto("keepalive", h, "rearm")
  /\ UNCHANGED <<queueVars, tm, age, staked, dead, call, told, tableVars>>

\* route_frame: the frame proves the peer alive; a PING, or DATA for no
\* tunnel, is answered through send_frame; a tunnel's frame goes to its tunnel.
route_frame ==
  /\ Spend("frame")
  /\ note_peer_activity
  /\ Emit \/ UNCHANGED snd
  /\ UNCHANGED <<q, gate, timer, dr, clr, mut, wire, dropped, passed, tableVars>>

----------------------------------------------------------------------------
(* The ends of a session. *)

\* close_all: the map is swapped out in one step; every tunnel is then torn
\* down like a removed one, its id reserved until it is silent.
close_all ==
  /\ Spend("closeAll")
  /\ ob' = Detached({tun[i] : i \in Mapped})
  /\ tun' = Without(Ids) /\ staked' = 0
  /\ UNCHANGED <<q, gate, timer, dr, snd, clr, mut, wire, dropped, passed, timersButStake,
                 used, next, rp>>

\* close_all_local, step 1: the manager's own frame generators.
AbandonStarts ==
  /\ mut = "idle" /\ Spend("abandon")
  /\ mut' = "mute"
  /\ tm' = [t \in Timers |-> Retired(tm[t])]
  /\ UNCHANGED <<q, gate, timer, dr, snd, clr, wire, dropped, passed,
                 hd, age, staked, dead, call, told, tableVars>>

\* Step 4: under the map's lock every tunnel leaves, its outbound gate closes
\* and its id is free.  (Step 5 releases sockets only.)
AbandonDetaches ==
  /\ mut = "detach" /\ mut' = "done"
  /\ tun' = Without(Ids)
  /\ used' = [i \in Ids |-> used[i] /\ tun[i] = NoObj]
  /\ ob' = [o \in Objs |-> IF \E i \in Ids : tun[i] = o THEN [ob[o] EXCEPT !.st = "silent"] ELSE ob[o]]
  /\ staked' = 0
  /\ UNCHANGED <<q, gate, timer, dr, snd, clr, wire, dropped, passed, budget, timersButStake,
                 next, rp>>

----------------------------------------------------------------------------
(* The owner: timers on and off with the session, and the endpoint switch. *)

OwnerTimers ==
  \/ Spend("enableReaper") /\ enable_reaper
  \/ Spend("disableReaper") /\ disable_reaper
  \/ Spend("enableKeepalive") /\ enable_keepalive
  \/ Spend("disableKeepalive") /\ disable_keepalive

queueButBudget == <<q, gate, timer, dr, snd, clr, mut, wire, dropped, passed>>

QueueNext ==
  \/ \E s \in Senders : SendStart(s) \/ SendBarrier(s) \/ SendRecheck(s) \/ SendCall(s) \/ SendPark(s)
  \/ \E d \in Drains : \/ DrainFire(d) \/ DrainEnter(d) \/ DrainPop(d) \/ DrainCheck(d)
                       \/ DrainCall(d) \/ DrainRequeue(d) \/ DrainGuard(d)
  \/ Clear \/ ClearCancel \/ Mute \/ MuteCancel \/ MuteGate

TimerNext ==
  \/ \E t \in Timers, h \in Handlers : TickEnters(t, h) \/ RearmAfterTick(t, h)
  \/ \E h \in Handlers : TickJudges(h, Empty) \/ TickLatches(h) \/ TellDead(h) \/ TickGate2(h)
  \/ TellAlive

TableNext ==
  \/ \E o \in Objs :
       \/ allocate_tunnel_id(o) \/ add_tunnel(o) \/ TunnelOpens(o) \/ TunnelSilent(o)
       \/ IdReleasable(o) \/ OpenRefused(o) \/ remove_tunnel_if(o) \/ SetOnIdReleasable(o)
       \/ \E i \in Ids : handle_incoming_open(o, i)
       \/ \E st \in {"owing", "silent"} : TunnelEnds(o, st) \/ TearDown(o, st)
  \/ \E h \in Handlers :
       \/ ReapScan(h) \/ ReapRemove(h) \/ ReapEnds(h) \/ TickPings(h) \/ TickSent(h)
       \/ \E st \in {"owing", "silent"} : ReapClose(h, st)
  \/ route_frame \/ close_all \/ AbandonStarts \/ AbandonDetaches

Next ==
  \/ QueueNext /\ UNCHANGED <<timerVars, tableVars>>
  \/ TimerNext /\ UNCHANGED <<queueVars, tableVars>>
  \/ OwnerTimers /\ UNCHANGED <<queueButBudget, tableVars>>
  \/ (\E t \in Timers, h \in Handlers : TimerFires(t, h)) /\ Spend("tick")
       /\ UNCHANGED <<queueButBudget, tableVars>>
  \/ TimePasses(Empty) /\ Spend("time") /\ UNCHANGED <<queueButBudget, tableVars>>
  \/ TableNext

Spec == Init /\ [][Next]_vars

\* The threads that run senders and timer handlers are scheduled, and a wait
\* that is armed completes.  Nothing is promised of peers, owners or faults.
SenderStep(s) == SendStart(s) \/ SendBarrier(s) \/ SendRecheck(s) \/ SendCall(s) \/ SendPark(s)
DrainStep == \E d \in Drains : \/ DrainFire(d) \/ DrainEnter(d) \/ DrainPop(d) \/ DrainCheck(d)
                                \/ DrainCall(d) \/ DrainRequeue(d) \/ DrainGuard(d)
FairSpec == /\ Spec
            /\ WF_vars(DrainStep /\ UNCHANGED <<timerVars, tableVars>>)
            /\ \A s \in Senders \ Objs :
                 WF_vars(SenderStep(s) /\ UNCHANGED <<timerVars, tableVars>>)

----------------------------------------------------------------------------
(* Ids. *)

\* Two tunnels that can still put a frame on the wire never share an id, over
\* removals, reaping, both session ends and peers that reuse an id at once.
OneSpeaker ==
  \A o, p \in Objs : o /= p /\ ob[o].st \in {"live", "owing"} /\ ob[p].st \in {"live", "owing"}
                      => ob[o].id /= ob[p].id

\* An id marked used is on its way back: somebody is registering it, the map
\* holds its tunnel, or a removed tunnel holds the release hook.
NoIdLeak ==
  \A i \in Ids : used[i] =>
    \E o \in Objs : /\ ob[o].id = i
                     /\ \/ ob[o].reg = "reserved" \/ tun[i] = o
                        \/ ob[o].hook \/ ob[o].rm = "hook"

\* An id is held exactly as long as a tunnel may speak under it: never by two,
\* and never by none.
IdsHeld == OneSpeaker /\ NoIdLeak

----------------------------------------------------------------------------
(* The retry queue. *)

\* While the queue has not been invalidated, no frame goes out past a frame
\* that was parked, or popped by a drain, before its sender started.
FifoBarrier == q.epoch = 0 => passed = {}

\* A frame the queue was holding when the session was abandoned, or the
\* endpoint switched, never reaches the peer.
DroppedStaysDropped == dropped \cap ToSet(wire) = {}

\* The retry queue keeps its order, and what was invalidated stays out.
QueueOrdered == FifoBarrier /\ DroppedStaysDropped

\* While the queue has not been invalidated, a parked frame leaves it: a wait or
\* a running drain is behind it.
Invalidated == q.epoch > 0 \/ q.muted
ParkedLeave == q.items /= <<>> ~> (q.items = <<>> \/ Invalidated)

----------------------------------------------------------------------------
(* The timers. *)

\* An enabled timer has exactly one live chain, the pending wait or the one
\* handler of the current generation, and a disabled one has no pending wait.
OneChain ==
  \A t \in Timers :
    LET waiting == IF tm[t].wait = tm[t].epoch THEN 1 ELSE 0
        running == Cardinality({h \in Handlers : hd[t][h].pc /= "idle" /\ Current(t, h)})
    IN  IF tm[t].on THEN waiting + running = 1 ELSE tm[t].wait = Unarmed

\* The keepalive finds a peer dead only after it was silent for the whole
\* timeout with a tunnel at stake all along.
NoHastyVerdict ==
  [][\A h \in Handlers : ~hd["keepalive"][h].late /\ hd'["keepalive"][h].late => staked > Timeout]_vars

\* Over enables, disables and retired generations the keepalive goes on, once,
\* and gives up only a peer that was silent long enough.
KeepaliveHonest == []OneChain /\ NoHastyVerdict
============================================================================
