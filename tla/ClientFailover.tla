--------------------------- MODULE ClientFailover ---------------------------
(***************************************************************************)
(* The client's servers: which one is active, who is online, the keepalive *)
(* verdict on the active one, the probes of the others, the failover       *)
(* switch and the route of inbound frames (src/src/app/tunnel_client.cpp). *)
(*                                                                         *)
(* Connection events, packets, verdicts, switches, accepts and releases    *)
(* run on inbound_strand_: lane is its queue.  An age ("long offline",     *)
(* "long online", "silent") is a flag that time may set and that the code  *)
(* clears where it takes a new time stamp.                                 *)
(***************************************************************************)
EXTENDS Naturals, Sequences, FiniteSets, SequencesExt, FiniteSetsExt

CONSTANTS Servers,   \* the configured endpoints: 0 is the primary
          NoConn,
          Scenarios  \* how often each outside event may happen

ASSUME ServerAssumption == Servers \subseteq Nat /\ 0 \in Servers

VARIABLES ep,       \* endpoints_: online, link_up and the ages
          active,   \* active_index_, server_friend_number_, server_tox_id_hex_
          so,       \* server_online_
          gen,      \* resume_session_generation_
          route,    \* strand_route_friend_
          handler,  \* the friend the manager's send handler is pinned to
          ka,       \* the manager's keepalive: on, peer_dead, a verdict to report,
                    \* and the server its clock was started for
          lane,     \* what is posted to inbound_strand_
          swap,     \* switch_active_endpoint() has yet to close the old tunnels
          up,       \* external: the link to each server
          allow     \* what may still happen in the chosen scenario

routeVars == <<ep, active, so, gen, route, handler, ka, swap>>

Spend(e) == allow[e] > 0 /\ allow' = [allow EXCEPT ![e] = @ - 1]

Task(k) == [k |-> k, i |-> 0, c |-> NoConn, g |-> 0]
About(k, i) == [Task(k) EXCEPT !.i = i]
Posted(ts) == lane' = lane \o ts

FailoverInit ==
  /\ ep = [i \in Servers |-> [online |-> FALSE, link |-> FALSE, longOff |-> FALSE,
                              longOn |-> FALSE, silent |-> FALSE]]
  /\ active = 0 /\ so = FALSE /\ gen = 0 /\ route = 0 /\ handler = 0
  /\ ka = [on |-> FALSE, dead |-> FALSE, tell |-> FALSE, of |-> 0]
  /\ lane = <<>> /\ swap = FALSE
  /\ up = [i \in Servers |-> FALSE]
  /\ allow \in Scenarios

GoesOnline(r) == [r EXCEPT !.online = TRUE, !.longOn = FALSE]
GoesOffline(r) == [r EXCEPT !.online = FALSE, !.longOff = FALSE]
\* The clock starts over, for the server that is active now.
enable_keepalive == [on |-> TRUE, dead |-> FALSE, tell |-> ka.tell, of |-> active]

----------------------------------------------------------------------------
(* On the strand. *)

\* on_friend_connection(): the active server's event starts a new session.
on_friend_connection(i, connected) ==
  LET r == ep[i]
      seen == IF connected /\ ~r.online THEN GoesOnline(r)
              ELSE IF ~connected /\ r.online THEN GoesOffline(r) ELSE r
      heard == IF connected /\ ~r.link THEN [seen EXCEPT !.silent = FALSE] ELSE seen
  IN  /\ ep' = [ep EXCEPT ![i] = [heard EXCEPT !.link = connected]]
      /\ IF i = active
         THEN /\ so' = connected /\ gen' = gen + 1
              /\ ka' = IF connected THEN enable_keepalive ELSE [ka EXCEPT !.on = FALSE]
         ELSE UNCHANGED <<so, gen, ka>>
      /\ UNCHANGED <<active, route, handler, swap>>

\* Mutant: a verdict is believed whatever has been heard since.
verdict_unchecked(i) ==
  i = route /\ active = i /\ ep[i].link

\* apply_keepalive_dead_verdict(): does the verdict on server i still stand?
verdict_stands(i) ==
  ka.dead /\ i = route /\ active = i /\ ep[i].link

apply_keepalive_dead_verdict(i) ==
  /\ ep' = [ep EXCEPT ![i] = IF @.online THEN GoesOffline(@) ELSE @]
  /\ so' = FALSE
  /\ UNCHANGED <<active, gen, route, handler, ka, swap>>

\* note_peer_activity() and the alive callback.
restores == ka.dead /\ active = route /\ ep[route].link /\ ~ep[route].online
note_peer_activity ==
  /\ ka' = [ka EXCEPT !.dead = FALSE]
  /\ IF restores THEN ep' = [ep EXCEPT ![route] = GoesOnline(@)] /\ so' = TRUE
     ELSE UNCHANGED <<ep, so>>
  /\ UNCHANGED <<active, gen, route, handler, swap>>

\* note_standby_alive(): a PONG of a server that is still not the active one.
note_standby_alive(i) ==
  /\ ep' = IF i = active THEN ep
           ELSE [ep EXCEPT ![i] = IF @.link /\ ~@.online
                                  THEN GoesOnline([@ EXCEPT !.silent = FALSE])
                                  ELSE [@ EXCEPT !.silent = FALSE]]
  /\ UNCHANGED <<active, so, gen, route, handler, ka, swap>>

Usable(e) == {i \in Servers \ {active} : e[i].online}

\* Mutant: only a server behind the active one in the list takes over.
decide_forward_only(e) ==
  LET later == {i \in Usable(e) : i > active}
  IN  IF ~e[active].online /\ e[active].longOff /\ later /= {} THEN {Min(later)}
      ELSE IF active /= 0 /\ e[0].online /\ e[0].longOn /\ e[active].online THEN {0} ELSE {}

\* decide_failover_switch(): the server to switch to, or none ({}).
decide_failover_switch(e) ==
  IF ~e[active].online /\ e[active].longOff /\ Usable(e) /= {} THEN {Min(Usable(e))}
  ELSE IF active /= 0 /\ e[0].online /\ e[0].longOn THEN {0} ELSE {}

\* expire_standbys_locked(): a standby that has not answered is not usable.
Expired(i) == i /= active /\ ep[i].link /\ ep[i].online /\ ep[i].silent
expire_standbys == [i \in Servers |-> IF Expired(i) THEN GoesOffline(ep[i]) ELSE ep[i]]

\* switch_active_endpoint(), under endpoints_mutex_: the new server is published
\* and the repin queued behind what the strand already has.
SwitchPublishes(e, i) ==
  /\ ep' = [e EXCEPT ![active] = [@ EXCEPT !.silent = FALSE]]
  /\ active' = i /\ gen' = gen + 1 /\ so' = e[i].online /\ swap' = TRUE
  /\ lane' = Append(Tail(lane), About("repin", i))

\* apply_failover_on_strand(): look again, and switch if that still holds.
apply_failover_on_strand ==
  LET e == expire_standbys
  IN  /\ IF decide_failover_switch(e) = {}
         THEN /\ ep' = e /\ lane' = Tail(lane)
              /\ UNCHANGED <<active, gen, so, swap>>
         ELSE \E i \in decide_failover_switch(e) : SwitchPublishes(e, i)
      /\ UNCHANGED <<route, handler, ka>>

\* The repin: route, retry queue and send handler in one task.
Repin(i) == route' = i /\ handler' = i /\ UNCHANGED <<ep, active, so, gen, ka, swap>>

----------------------------------------------------------------------------
(* Elsewhere. *)

\* The 1 s tick posts a look at the servers when there is something to do.
run_failover_tick ==
  /\ decide_failover_switch(ep) /= {} \/ \E i \in Servers : Expired(i)
  /\ Task("failover") \notin ToSet(lane)
  /\ Posted(<<Task("failover")>>)
  /\ UNCHANGED <<routeVars, up>>

\* keepalive_tick() latches a silent peer dead, then reports whoever is active.
PeerSilent ==
  /\ ka.on /\ ~ka.dead
  /\ ka' = [ka EXCEPT !.dead = TRUE, !.tell = TRUE]
  /\ UNCHANGED <<ep, active, so, gen, route, handler, swap, lane, up>>
PeerDeadCallback ==
  /\ ka.tell
  /\ ka' = [ka EXCEPT !.tell = FALSE]
  /\ Posted(<<About("verdict", active)>>)
  /\ UNCHANGED <<ep, active, so, gen, route, handler, swap, up>>

\* Time passes for the stamps that decide something about server i.
Ages(i) ==
  /\ \/ /\ ~ep[i].online /\ ~ep[i].longOff /\ i = active /\ ep' = [ep EXCEPT ![i].longOff = TRUE]
     \/ /\ ep[i].online /\ ~ep[i].longOn /\ i = 0 /\ active /= 0 /\ ep' = [ep EXCEPT ![i].longOn = TRUE]
  /\ UNCHANGED <<active, so, gen, route, handler, ka, swap, lane, up>>
Silence(i) ==
  /\ ep[i].link /\ ep[i].online /\ ~ep[i].silent /\ i /= active
  /\ ep' = [ep EXCEPT ![i].silent = TRUE]
  /\ UNCHANGED <<active, so, gen, route, handler, ka, swap, lane, up>>

\* The link to server i changes; its standby probe is answered.
LinkChanges(i) ==
  /\ up' = [up EXCEPT ![i] = ~@]
  /\ Posted(<<[About("conn", i) EXCEPT !.g = IF up[i] THEN 0 ELSE 1]>>)
  /\ UNCHANGED routeVars
StandbyPong(i) ==
  /\ up[i] /\ ep[i].link /\ i /= active
  /\ Posted(<<About("alive", i)>>)
  /\ UNCHANGED <<routeVars, up>>
============================================================================
