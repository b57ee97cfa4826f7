------------------------------ MODULE ToxNode ------------------------------
(* The Tox side of a daemon: the adapter with its send gate, and the         *)
(* watchdog its loop feeds.                                                  *)
EXTENDS ToxAdapter, ToxWatchdog

VARIABLE wedged   \* external: toxcore does not return from tox_iterate

vars == <<gateVars, adapterVars, watchVars, wedged>>

Init == AdapterInit /\ WatchInit /\ wedged = FALSE

\* The heartbeat is bumped right after tox_iterate returns.
Ds == {"none", "old", "aged", "probe", "due"}
Iterate(d) ==
  /\ ~wedged
  /\ IterateEnds(d)
  /\ IF wd.on THEN heartbeat ELSE UNCHANGED watchVars
  /\ UNCHANGED wedged

Wedge == /\ run.loop = "iterate" /\ ~wedged /\ Spend("wedge")
         /\ wedged' = TRUE
         /\ UNCHANGED <<gateVars, fl, link, echo, trans, events, heard, run, tasks, local, cl, boot,
                        watchVars>>

Watching ==
  /\ \/ start_watchdog /\ run.on /\ Spend("watch")
     \/ stop_watchdog /\ ~run.on /\ UNCHANGED allow
     \/ SecondPasses /\ UNCHANGED allow
     \/ Suspended /\ Spend("suspend")
     \/ check_once /\ UNCHANGED allow
  /\ UNCHANGED <<gateVars, fl, link, echo, trans, events, heard, run, tasks, local, cl, boot, wedged>>

AdapterStep(A) == ~wd.aborted /\ A /\ UNCHANGED <<watchVars, wedged>>
GateStep(A) == AdapterStep(A /\ UNCHANGED adapterVars)

Next ==
  \/ GateStep(GateNext)
  \/ AdapterStep(~wedged /\ LoopNext)
  \/ \E d \in Ds : ~wd.aborted /\ Iterate(d)
  \/ AdapterStep(CallerNext)
  \/ AdapterStep(OtherNext)
  \/ Wedge \/ Watching

Spec == Init /\ [][Next]_vars

\* The threads run, toxcore's links deliver while they are up, and a deadline
\* is found expired once it has passed.
FairSpec ==
  /\ Spec
  /\ WF_vars(\/ AdapterStep(~wedged /\ (process_tox_tasks \/ RunTask \/ LoopEnds))
             \/ ~wd.aborted /\ Iterate("none"))
  /\ SF_vars(~wd.aborted /\ Iterate("due"))
  /\ SF_vars(AdapterStep(~wedged /\ dispatch_and_maintain(TRUE)))
  /\ SF_vars(\/ AdapterStep(~wedged /\ \E n \in Numbers : on_friend_lossless_packet_cb(n))
             \/ GateStep(\E k \in Keys : Online[k] /\ PeerReads(k, echo[k])))
  /\ \A c \in Callers : WF_vars(AdapterStep(Retry(c) \/ Post(c) \/ RunInline(c)))
  /\ WF_vars(AdapterStep(StopWorker \/ Join \/ StopEnds))
  /\ SF_vars(AdapterStep(FetchEnds(TRUE)))
  /\ WF_vars(Watching /\ wd' /= wd)

\* Whoever calls into the adapter gets an answer, also when stop() runs between
\* the post and the loop's last round of tasks.
CallsReturn == \A c \in Callers \ {Driver} : cl[c].pc /= "idle" ~> cl[c].pc = "idle"

\* DATA the gate holds back is taken in the end while the friend is there,
\* whatever was lost with an earlier connection and whichever build the peer
\* came back as.
DataFlows ==
  cl[Driver].pc /= "idle" ~> (cl[Driver].pc = "idle" \/ ~Online[fl[cl[Driver].n]])

\* A daemon that is cut off from the DHT keeps contacting nodes: the startup
\* list or one it fetched since.
CutOffContacts ==
  (boot.armed /\ ~boot.dht) ~> (boot.contacted \/ boot.dht \/ ~boot.armed \/ wedged)

\* A Tox thread that hangs in toxcore takes the process down.
WedgeAborts == (wedged /\ wd.on) ~> (wd.aborted \/ ~wd.on)

\* The application is never told of a reconnect that was a change of transport:
\* the edges of a friend that is not removed alternate.
NoFalseReconnect ==
  \A n \in Numbers : "removed" \notin ToSet(heard[n]) =>
    \A i \in 1 .. Len(heard[n]) - 1 : heard[n][i] /= heard[n][i + 1]

\* The books kept about a friend agree with what really happened to its link: no
\* undelivered byte credited, no frame turned away by a hint out of date, no
\* change of transport taken for a reconnect.
GateExact == NoOverCredit /\ HintAgrees /\ NoFalseReconnect

\* The watchdog aborts a hung process and no other.
WatchdogHonest == []NoHastyAbort /\ WedgeAborts
============================================================================
