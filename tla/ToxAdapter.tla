---------------------------- MODULE ToxAdapter ----------------------------
(* ToxAdapter: the one thread that may drive toxcore, the calls other        *)
(* threads marshal onto it, friends and their connection events, the DHT     *)
(* bootstrap retry with its fetch worker, and stop().                        *)
(* The Tox thread's loop is iterate (toxcore's callbacks, then the gate's    *)
(* tick), tasks, dispatch, maintenance; each toxcore call is one step under  *)
(* tox_mutex_.                                                               *)
EXTENDS FriendSendGate, SequencesExt

CONSTANTS Callers,    \* threads other than the Tox thread
          Driver,     \* the one of them that sends DATA
          MaxSeq,     \* bound on the fences of a ledger
          Friends,    \* the friend list of the save file
          Scenarios   \* budgets of the events

\* toxcore's friend list names a public key at most once.
ASSUME FriendsAssumption ==
  /\ Friends \in [Numbers -> Keys \cup {NoKey}]
  /\ \A m, n \in Numbers : Friends[m] = Friends[n] /\ Friends[n] /= NoKey => m = n

VARIABLES
  fl,      \* external: toxcore's friend list
  link,    \* external: per key, the transport toxcore has to the friend
  echo,    \* external: per key, whether the peer's build echoes fences
  trans,   \* friend_transport_
  events,  \* the connection events in pending_events_, per number in their order
  heard,   \* per number, the edges the application was told, and its own removals
  run,     \* running_, the loop's position, and stop()'s
  tasks,   \* tox_tasks_
  local,   \* the tasks process_tox_tasks() has taken
  cl,      \* the callers of the public API
  boot,    \* bootstrap_retry_, connected_, and the contacts made
  allow    \* how often each event may still happen

adapterVars == <<fl, link, echo, trans, events, heard, run, tasks, local, cl, boot, allow>>

Spend(e) == allow[e] > 0 /\ allow' = [allow EXCEPT ![e] = @ - 1]

None == "none"
Online == [k \in Keys \cup {NoKey} |-> k \in Keys /\ link[k] /= None /\ \E n \in Numbers : fl[n] = k]
IdleCaller == [pc |-> "idle", what |-> "none", n |-> 0]

AdapterInit ==
  /\ GateInit
  /\ fl = Friends
  /\ link = [k \in Keys |-> None]
  /\ trans = [n \in Numbers |-> None]
  /\ echo \in {[k \in Keys |-> e] : e \in BOOLEAN}
  /\ events = [n \in Numbers |-> <<>>] /\ heard = [n \in Numbers |-> <<>>]
  /\ tasks = <<>> /\ local = <<>>
  /\ cl = [c \in Callers |-> IdleCaller]
  /\ boot = [armed |-> FALSE, nodes |-> FALSE, fetched |-> FALSE, fetching |-> FALSE,
             cancelled |-> FALSE, dht |-> FALSE, contacted |-> FALSE]
  /\ allow \in Scenarios
  /\ run = IF allow["start"] = 0 THEN [on |-> TRUE, loop |-> "iterate", stop |-> "idle"]
                                  ELSE [on |-> FALSE, loop |-> "off", stop |-> "idle"]

----------------------------------------------------------------------------
(* Friends: the bodies of the public calls, on the Tox thread or inline.     *)

FreeNumber == CHOOSE n \in Numbers : fl[n] = NoKey

\* tox_friend_add(_norequest): toxcore hands out the lowest free number; a
\* reused one names a new friend from here on.
AddFriend(result) ==
  LET new == {k \in Keys : \A n \in Numbers : fl[n] /= k}
  IN  /\ result = "Added"
      /\ IF new /= {} /\ \E n \in Numbers : fl[n] = NoKey
         THEN /\ \E k \in new : fl' = [fl EXCEPT ![FreeNumber] = k]
              /\ forget_friend_number(FreeNumber)
         ELSE UNCHANGED <<fl, led, keyOf, room, demand>>
      /\ UNCHANGED <<pipe, back, link, trans, heard>>

\* remove_friend: toxcore reports no disconnect for a deleted friend, so its
\* status is forgotten here; what was under way to it is gone.
remove_friend(n, result) ==
  /\ result = "Removed"
  /\ IF fl[n] = NoKey THEN UNCHANGED <<fl, trans, link, heard, gateVars>>
     ELSE /\ fl' = [fl EXCEPT ![n] = NoKey]
          /\ trans' = [trans EXCEPT ![n] = None]
          /\ link' = [link EXCEPT ![fl[n]] = None]
          /\ heard' = [heard EXCEPT ![n] = Append(@, "removed")]
          /\ forget_friend_number(n)
          /\ StreamBreaks(fl[n], FALSE)

\* send_lossless_packet_typed, the part under tox_mutex_.
SendPacket(what, n, result) ==
  /\ IF fl[n] = NoKey THEN result = "PermanentFail" /\ UNCHANGED gateVars
     ELSE IF what = "data" THEN SendData(fl, n, Online, result)
     ELSE SendPing(fl, n, Online, result)
  /\ UNCHANGED <<fl, link, trans, heard>>

Execute(c, result) ==
  CASE cl[c].what \in {"data", "ping"} -> SendPacket(cl[c].what, cl[c].n, result)
    [] cl[c].what = "add" -> AddFriend(result)
    [] cl[c].what = "remove" -> remove_friend(cl[c].n, result)

----------------------------------------------------------------------------
(* run_on_tox_thread *)

\* A call begins; the outer check of running_ decides between posting and
\* running inline.  DATA asks the gate's hint first.
Call(c, what, n) ==
  /\ cl[c].pc = "idle" /\ (c = Driver <=> what = "data") /\ Spend(what)
  /\ cl' = [cl EXCEPT ![c] = [pc |-> IF what = "data" THEN "retry"
                                     ELSE IF run.on THEN "post" ELSE "inline",
                              what |-> what, n |-> n]]
  /\ UNCHANGED <<gateVars, fl, link, echo, trans, events, heard, run, tasks, local, boot>>

\* DATA, at its first and every later attempt of the driver.
Retry(c) ==
  /\ cl[c].pc = "retry"
  /\ IF fast_reject(cl[c].n)
     THEN NoteDemand(cl[c].n) /\ UNCHANGED cl
     ELSE /\ cl' = [cl EXCEPT ![c].pc = IF run.on THEN "post" ELSE "inline"]
          /\ UNCHANGED gateVars
  /\ UNCHANGED <<fl, link, echo, trans, events, heard, run, tasks, local, boot, allow>>

\* Refused DATA stays with its caller, which tries again.
Answered(c, result) ==
  IF cl[c].what = "data" /\ result = "SendqFull"
  THEN [cl EXCEPT ![c].pc = "retry"] ELSE [cl EXCEPT ![c] = IdleCaller]

\* Mutant: the outer check is trusted.
PostUnchecked(c) ==
  /\ cl[c].pc = "post"
  /\ tasks' = Append(tasks, c) /\ cl' = [cl EXCEPT ![c].pc = "wait"]
  /\ UNCHANGED <<gateVars, fl, link, echo, trans, events, heard, run, local, boot, allow>>

\* Under tox_tasks_mutex_ running_ is read again: a task posted while it is
\* true is run by the loop or by stop().
Post(c) ==
  /\ cl[c].pc = "post"
  /\ IF run.on
     THEN tasks' = Append(tasks, c) /\ cl' = [cl EXCEPT ![c].pc = "wait"]
     ELSE UNCHANGED tasks /\ cl' = [cl EXCEPT ![c].pc = "inline"]
  /\ UNCHANGED <<gateVars, fl, link, echo, trans, events, heard, run, local, boot, allow>>

RunInline(c) ==
  /\ cl[c].pc = "inline"
  /\ \E r \in {"Sent", "SendqFull", "PermanentFail", "Added", "Removed"} :
       Execute(c, r) /\ cl' = Answered(c, r)
  /\ UNCHANGED <<echo, events, run, tasks, local, boot, allow>>

\* process_tox_tasks, in the loop, at its end and in stop(): what is queued
\* now is taken; a task posted later waits for the next round.
process_tox_tasks ==
  /\ \/ run.loop = "tasks" /\ run' = [run EXCEPT !.loop = "dispatch"]
     \/ run.loop = "final" /\ run' = [run EXCEPT !.loop = "exit"]
     \/ run.stop = "drain" /\ run' = [run EXCEPT !.stop = "save"]
  /\ local' = tasks /\ tasks' = <<>>
  /\ UNCHANGED <<gateVars, fl, link, echo, trans, events, heard, cl, boot, allow>>
RunTask ==
  /\ local /= <<>>
  /\ \E r \in {"Sent", "SendqFull", "PermanentFail", "Added", "Removed"} :
       Execute(Head(local), r) /\ cl' = Answered(Head(local), r)
  /\ local' = Tail(local)
  /\ UNCHANGED <<echo, events, run, tasks, boot, allow>>

----------------------------------------------------------------------------
(* The loop *)

start ==
  /\ run.loop = "off" /\ run.stop = "idle" /\ Spend("start")
  /\ run' = [run EXCEPT !.on = TRUE, !.loop = "iterate"]
  /\ UNCHANGED <<gateVars, fl, link, echo, trans, events, heard, tasks, local, cl, boot>>

Goto(pc) == run' = [run EXCEPT !.loop = pc]

\* on_friend_connection_status_cb: only an edge reaches the gate and the
\* daemons; a change of transport is not a reconnect.
on_friend_connection_status_cb(n, status) ==
  /\ trans' = [trans EXCEPT ![n] = status]
  /\ IF (trans[n] = None) = (status = None)
     THEN UNCHANGED <<events, led, keyOf, room, demand>>
     ELSE /\ events' = [events EXCEPT ![n] = Append(@, IF status = None THEN "down" ELSE "up")]
          /\ on_connection_status(fl, n, status /= None)

\* tox_iterate finds the friend reachable, at first through a relay, or gone; with a
\* disconnect, either the session and what is under way survive, or they are
\* lost and the peer may come back as another build.
FriendStatus(n, status, kept) ==
  LET k == fl[n]
  IN  /\ run.loop = "iterate" /\ k /= NoKey /\ link[k] /= status
      /\ Spend(IF status = None THEN "down" ELSE IF link[k] = None THEN "up" ELSE "switch")
      /\ status = "udp" => link[k] = "tcp"
      /\ link' = [link EXCEPT ![k] = status]
      /\ on_friend_connection_status_cb(n, status)
      /\ IF status = None
         THEN /\ StreamBreaks(k, kept)
              /\ \E e \in BOOLEAN : (kept => e = echo[k]) /\ echo' = [echo EXCEPT ![k] = e]
         ELSE kept /\ UNCHANGED <<pipe, back, echo>>
      /\ UNCHANGED <<fl, heard, run, tasks, local, cl, boot>>

\* on_friend_lossless_packet_cb, for a PONG.
on_friend_lossless_packet_cb(n) ==
  /\ run.loop = "iterate" /\ fl[n] /= NoKey /\ Online[fl[n]]
  /\ on_received(fl, n)
  /\ UNCHANGED adapterVars

on_self_connection_status_cb(connected) ==
  /\ run.loop = "iterate" /\ boot.dht /= connected
  /\ Spend(IF connected THEN "dhtUp" ELSE "dhtDown")
  /\ boot' = [boot EXCEPT !.dht = connected, !.contacted = FALSE]
  /\ UNCHANGED <<gateVars, fl, link, echo, trans, events, heard, run, tasks, local, cl>>

\* Bound: a recovery or detection deadline that passes while an answer is still
\* under way is an "early", the other deadlines pass as often as allowed, and no
\* recovery is due once a ledger has sent MaxSeq fences.
UnderWay == \E k \in Keys : Named(k) /\ \E x \in ToSet(pipe[k] \o back[k]) : x >= 0
Expires(d) ==
  CASE d = "none" -> UNCHANGED allow
    [] d \in {"due", "old"} -> /\ \A k \in Keys : led[k].seq <= MaxSeq
                              /\ IF UnderWay THEN Spend("early") ELSE UNCHANGED allow
    [] d \in {"aged", "probe"} -> Spend(d)

\* tox_iterate returns; the gate's deadlines, still under tox_mutex_.
IterateEnds(d) ==
  /\ run.loop = "iterate"
  /\ on_tick(Online, d)
  /\ Expires(d)
  /\ Goto("tasks")
  /\ UNCHANGED <<fl, link, echo, trans, events, heard, tasks, local, cl, boot>>

----------------------------------------------------------------------------
(* Bootstrap retry *)

\* bootstrap(): resolves a list (or fails), contacts it, arms the retry.
bootstrap(found) ==
  /\ run.on /\ ~boot.armed /\ Spend("bootstrap")
  /\ boot' = [boot EXCEPT !.armed = TRUE, !.nodes = found, !.contacted = found]
  /\ UNCHANGED <<gateVars, fl, link, echo, trans, events, heard, run, tasks, local, cl>>

\* Mutant: only the startup list is retried; an empty one is never fetched again.
retry_known_only(due) ==
  IF boot.armed /\ ~boot.dht /\ due /\ boot.nodes THEN boot' = [boot EXCEPT !.contacted = TRUE]
                                                   ELSE UNCHANGED boot

\* bootstrap_retry_tick: a fetched list is contacted at once; otherwise, when
\* an attempt is due, the known list is contacted or a fetch is started.
bootstrap_retry_tick(due) ==
  IF ~boot.armed \/ boot.dht THEN UNCHANGED boot
  ELSE IF boot.fetched
  THEN boot' = [boot EXCEPT !.fetched = FALSE, !.nodes = TRUE, !.contacted = TRUE]
  ELSE IF due /\ boot.nodes THEN boot' = [boot EXCEPT !.contacted = TRUE]
  ELSE IF due /\ ~boot.fetching
  THEN boot' = [boot EXCEPT !.fetching = TRUE, !.cancelled = FALSE]
  ELSE UNCHANGED boot

\* The rest of the round: dispatch_pending_events swaps the queue out and
\* delivers it in order, then the bootstrap retry and the test of running_.
dispatch_and_maintain(due) ==
  /\ run.loop = "dispatch" /\ local = <<>>
  /\ heard' = [n \in Numbers |-> heard[n] \o events[n]]
  /\ events' = [n \in Numbers |-> <<>>]
  /\ bootstrap_retry_tick(due)
  /\ Goto(IF run.on THEN "iterate" ELSE "final")
  /\ UNCHANGED <<gateVars, fl, link, echo, trans, tasks, local, cl, allow>>

\* The fetch worker deposits its list unless stop() has flagged it.
FetchEnds(ok) ==
  /\ boot.fetching
  /\ IF ok THEN UNCHANGED allow ELSE Spend("fetchFails")
  /\ boot' = [boot EXCEPT !.fetching = FALSE, !.fetched = @ \/ (ok /\ ~boot.cancelled)]
  /\ UNCHANGED <<gateVars, fl, link, echo, trans, events, heard, run, tasks, local, cl>>

----------------------------------------------------------------------------
(* stop() *)

StopBegins ==
  /\ run.on /\ run.stop = "idle" /\ Spend("stop")
  /\ run' = [run EXCEPT !.on = FALSE, !.stop = "worker"]
  /\ UNCHANGED <<gateVars, fl, link, echo, trans, events, heard, tasks, local, cl, boot>>

\* stop_bootstrap_retry_worker: disarm and flag, then join.
StopWorker ==
  /\ run.stop = "worker"
  /\ boot' = [boot EXCEPT !.armed = FALSE, !.fetched = FALSE, !.cancelled = TRUE]
  /\ run' = [run EXCEPT !.stop = "join"]
  /\ UNCHANGED <<gateVars, fl, link, echo, trans, events, heard, tasks, local, cl, allow>>

\* The loop's last process_tox_tasks(), and its end.
LoopEnds ==
  /\ run.loop = "exit" /\ local = <<>>
  /\ Goto("ended")
  /\ UNCHANGED <<gateVars, fl, link, echo, trans, events, heard, tasks, local, cl, boot, allow>>

Join ==
  /\ run.stop = "join" /\ run.loop = "ended" /\ ~boot.fetching
  /\ run' = [run EXCEPT !.stop = "drain"]
  /\ UNCHANGED <<gateVars, fl, link, echo, trans, events, heard, tasks, local, cl, boot, allow>>

\* The tasks that slipped in are run, then the state is saved.
StopEnds ==
  /\ run.stop = "save" /\ local = <<>>
  /\ run' = [run EXCEPT !.stop = "idle", !.loop = "off"]
  /\ UNCHANGED <<gateVars, fl, link, echo, trans, events, heard, tasks, local, cl, boot, allow>>

----------------------------------------------------------------------------

\* Somebody is trying to send DATA to k.
Wanted(k) == \E c \in Callers : cl[c].pc /= "idle" /\ cl[c].what = "data" /\ fl[cl[c].n] = k

GateNext == \E k \in Keys :
  \/ Online[k] /\ PeerReads(k, echo[k])
  \/ ~Wanted(k) /\ DemandExpires(k)

LoopNext ==
  \/ \E n \in Numbers : on_friend_lossless_packet_cb(n)
  \/ \E n \in Numbers, s \in {None, "tcp", "udp"}, kept \in BOOLEAN : FriendStatus(n, s, kept)
  \/ \E c \in BOOLEAN : on_self_connection_status_cb(c)
  \/ process_tox_tasks \/ RunTask \/ LoopEnds
  \/ \E due \in BOOLEAN : dispatch_and_maintain(due)

CallerNext == \E c \in Callers :
  \/ \E what \in {"data", "ping", "add", "remove"}, n \in Numbers : Call(c, what, n)
  \/ Retry(c) \/ Post(c) \/ RunInline(c)

OtherNext ==
  \/ start \/ StopBegins \/ StopWorker \/ Join \/ StopEnds
  \/ \E b \in BOOLEAN : bootstrap(b) \/ FetchEnds(b)
============================================================================
