--------------------------- MODULE ManagerTimers ---------------------------
(* The two self-re-arming timers of TunnelManager, the maintenance reaper    *)
(* and the keepalive, and the peer-liveness clock the keepalive judges.      *)
(* Every enable and disable retires a generation (an epoch); a handler that  *)
(* was already dispatched when it was retired runs on until the next gate.   *)
(* Time is counted in keepalive intervals.                                   *)
EXTENDS Integers, Sequences, FiniteSets

CONSTANTS Handlers,   \* timer handlers that may be running at once, per timer
          Timeout     \* keepalive_timeout_ns_, in intervals

ASSUME TimerAssumption == Timeout \in Nat \ {0}

VARIABLES
  tm,      \* per timer: enabled, generation, and the generation its wait captured
  hd,      \* per timer, the dispatched handlers
  age,     \* now - last_pong_ns_
  staked,  \* how long there has really been silence with a tunnel to lose
  dead,    \* peer_dead_latched_
  call,    \* dead / alive callbacks taken from the latch and not yet delivered
  told     \* what the owner heard, in order

timerVars == <<tm, hd, age, staked, dead, call, told>>

Timers == {"reaper", "keepalive"}
Unarmed == -1
NoHandler == [pc |-> "idle", epoch |-> 0, late |-> FALSE, sends |-> {}]

TimersInit ==
  /\ tm = [t \in Timers |-> [on |-> FALSE, epoch |-> 0, wait |-> Unarmed]]
  /\ hd = [t \in Timers |-> [h \in Handlers |-> NoHandler]]
  /\ age = 0 /\ staked = 0
  /\ dead = FALSE /\ call = {} /\ told = <<>>

Current(t, h) == hd[t][h].epoch = tm[t].epoch
HandlerGoto(t, h, pc) == hd' = [hd EXCEPT ![t][h].pc = pc]
HandlerEnds(t, h) == hd' = [hd EXCEPT ![t][h] = NoHandler]

----------------------------------------------------------------------------
(* Generations: each of these is one critical section of timer_mutex_. *)

\* enable_reaper, enable_half_close_reaper: a new generation, armed at once
\* (expires_after replaces a wait of the previous one).
Armed(x) == [on |-> TRUE, epoch |-> x.epoch + 1, wait |-> x.epoch + 1]
enable_reaper ==
  /\ tm' = [tm EXCEPT !["reaper"] = Armed(@)]
  /\ UNCHANGED <<hd, age, staked, dead, call, told>>

\* enable_keepalive also restarts the clock and clears the verdict.
enable_keepalive ==
  /\ tm' = [tm EXCEPT !["keepalive"] = Armed(@)]
  /\ age' = 0 /\ dead' = FALSE
  /\ UNCHANGED <<hd, staked, call, told>>

\* The generation is retired before the wait is cancelled.
Retired(x) == [on |-> FALSE, epoch |-> x.epoch + 1, wait |-> Unarmed]
disable_reaper ==
  /\ tm' = [tm EXCEPT !["reaper"] = Retired(@)]
  /\ UNCHANGED <<hd, age, staked, dead, call, told>>
disable_keepalive ==
  /\ tm' = [tm EXCEPT !["keepalive"] = Retired(@)]
  /\ UNCHANGED <<hd, age, staked, dead, call, told>>

\* The wait completes; its handler is past the abort check from here on.
TimerFires(t, h) ==
  /\ tm[t].wait /= Unarmed /\ hd[t][h].pc = "idle"
  /\ hd' = [hd EXCEPT ![t][h] = [NoHandler EXCEPT !.pc = "gate1", !.epoch = tm[t].wait]]
  /\ tm' = [tm EXCEPT ![t].wait = Unarmed]
  /\ UNCHANGED <<age, staked, dead, call, told>>

\* Gate 1, at the handler's entry.
TickEnters(t, h) ==
  /\ hd[t][h].pc = "gate1"
  /\ IF Current(t, h) /\ tm[t].on THEN HandlerGoto(t, h, "work") ELSE HandlerEnds(t, h)
  /\ UNCHANGED <<tm, age, staked, dead, call, told>>

\* rearm_reaper_after_tick, rearm_keepalive_after_tick: the generation check
\* and the arm are one step, so a retired handler cannot replace the wait of
\* its successor.
RearmAfterTick(t, h) ==
  /\ hd[t][h].pc = "rearm"
  /\ tm' = [tm EXCEPT ![t].wait = IF Current(t, h) /\ tm[t].on THEN hd[t][h].epoch ELSE @]
  /\ HandlerEnds(t, h)
  /\ UNCHANGED <<age, staked, dead, call, told>>

----------------------------------------------------------------------------
(* Peer liveness. *)

\* An interval passes; empty says whether there is nothing to lose.
TimePasses(empty) ==
  /\ age <= Timeout
  /\ age' = age + 1
  /\ staked' = IF empty THEN 0 ELSE staked + 1
  /\ UNCHANGED <<tm, hd, dead, call, told>>

\* note_peer_activity, on every inbound frame: the clock restarts, and the one
\* thread that clears the latch owes the owner an "alive".
note_peer_activity ==
  /\ age' = 0 /\ staked' = 0
  /\ dead' = FALSE
  /\ call' = IF dead THEN call \cup {"alive"} ELSE call
  /\ UNCHANGED <<tm, hd, told>>

\* The keepalive tick, first half: with no tunnel the clock is rebased before
\* anything is compared; then the silence is compared with the timeout.
TickJudges(h, empty) ==
  /\ hd["keepalive"][h].pc = "work"
  /\ age' = IF empty THEN 0 ELSE age
  /\ hd' = [hd EXCEPT !["keepalive"][h].pc = "latch",
                      !["keepalive"][h].late = age' > Timeout /\ ~dead]
  /\ UNCHANGED <<tm, staked, dead, call, told>>

\* Second half: the thread that sets the latch owes the owner a "dead".
TickLatches(h) ==
  /\ hd["keepalive"][h].pc = "latch"
  /\ IF hd["keepalive"][h].late /\ ~dead
     THEN dead' = TRUE /\ call' = call \cup {"dead"} /\ HandlerGoto("keepalive", h, "verdict")
     ELSE HandlerGoto("keepalive", h, "gate2") /\ UNCHANGED <<dead, call>>
  /\ UNCHANGED <<tm, age, staked, told>>

\* on_peer_dead_ and on_peer_alive_ run with no lock held.
TellDead(h) ==
  /\ hd["keepalive"][h].pc = "verdict"
  /\ told' = Append(told, "dead") /\ call' = call \ {"dead"}
  /\ HandlerGoto("keepalive", h, "gate2")
  /\ UNCHANGED <<tm, age, staked, dead>>
TellAlive ==
  /\ "alive" \in call
  /\ told' = Append(told, "alive") /\ call' = call \ {"alive"}
  /\ UNCHANGED <<tm, hd, age, staked, dead>>

\* Gate 2: the owner may have disabled the chain in its callback.
TickGate2(h) ==
  /\ hd["keepalive"][h].pc = "gate2"
  /\ IF Current("keepalive", h) THEN HandlerGoto("keepalive", h, "ping")
                                ELSE HandlerEnds("keepalive", h)
  /\ UNCHANGED <<tm, age, staked, dead, call, told>>
============================================================================
