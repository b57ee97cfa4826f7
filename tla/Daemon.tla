------------------------------ MODULE Daemon -------------------------------
(***************************************************************************)
(* run_server(), run_client() and the commands beside them (src/cli/main   *)
(* .cpp): start, reload, stop, print-id, reload; kill and power cut.  A    *)
(* client is three threads: main, which waits; the signal thread; the io   *)
(* workers that apply a reload.                                            *)
(***************************************************************************)
EXTENDS DataDir

NoJob == [kind |-> "none"]

Init ==
  /\ allow \in Scenarios
  /\ \E x \in {NoFile, Squat} : dir = [save |-> FileHolding(x), pid |-> FileHolding(NoFile)]
  /\ lock = NoProc
  /\ pr = [p \in Procs |-> Gone]
  /\ files = [rules |-> allow.rules[1], config |-> allow.configs[1], edits |-> 1, taken |-> {}]
  /\ cl = [config |-> NoId, live |-> <<>>, lsn |-> 1, sig |-> "idle", job |-> NoJob, hangup |-> FALSE]
  /\ past = [minted |-> 0, addresses |-> {}, settled |-> {}, unsure |-> FALSE]

Spend(e) == allow.left[e] > 0 /\ allow' = [allow EXCEPT !.left[e] = @ - 1]

----------------------------------------------------------------------------
(* Coming up. *)

\* print-id takes no lock; it is run alone here, beside no daemon and no other print-id.
Apart(p) == \A q \in Procs : pr[q].pc /= "off" => ~PrintId(p) /\ ~PrintId(q)

\* main(): an unusable config ends it at once.
Start(p) ==
  /\ At(p, "off") /\ Apart(p)
  /\ Client(p) => files.config /= Bad
  /\ Set(p, [Gone EXCEPT !.pc = IF PrintId(p) THEN "load" ELSE "guard"])
  /\ cl' = IF Client(p) THEN [cl EXCEPT !.config = files.config, !.live = <<>>, !.sig = "idle",
                                        !.job = NoJob, !.hangup = FALSE]
           ELSE cl
  /\ UNCHANGED <<dir, lock, files, past>>

\* initialize() returns; a client has bound every forward by then.  The
\* signals are handled from here on.
Up(p) ==
  /\ At(p, "seeding") /\ pr[p].rules \subseteq pr[p].mem.friends
  /\ IF Client(p) /\ ~pr[p].armed
     THEN LET a == ApplyForwards(<<>>, cl.lsn, [added |-> cl.config.forwards, removed |-> <<>>], files.taken)
          IN  IF Len(a.live) = Len(cl.config.forwards)
              THEN cl' = [cl EXCEPT !.live = a.live, !.lsn = a.next]
                   /\ Set(p, [pr[p] EXCEPT !.pc = "up", !.armed = TRUE])
              ELSE Leave(p) /\ UNCHANGED cl
     ELSE Set(p, [pr[p] EXCEPT !.pc = "up", !.armed = TRUE]) /\ UNCHANGED cl
  /\ UNCHANGED <<dir, lock, files, past>>

----------------------------------------------------------------------------
(* Signals. *)

\* A signal that comes before its handler ends the process, as a kill does.
Dies(p) ==
  /\ Set(p, Gone) /\ lock' = IF lock = p THEN NoProc ELSE lock
  /\ UNCHANGED <<dir, files, cl, past>>
Kill(p) == pr[p].pc /= "off" /\ Dies(p)

Signal(p, s) ==
  IF pr[p].armed THEN Set(p, s) /\ UNCHANGED <<dir, lock, files, cl, past>> ELSE Dies(p)
\* cmd_reload(): the pid of the pid file, when it is a toxtunnel.
ReloadCommand(p) ==
  dir.pid.seen = p /\ pr[p].pc /= "off" /\ Signal(p, [pr[p] EXCEPT !.hup = TRUE])
Terminate(p) ==
  pr[p].pc \notin {"off", "unguard", "unlink", "unlock"} /\ Signal(p, [pr[p] EXCEPT !.term = TRUE])

\* The server's signal context: reload or stop, one at a time.
ServerReload(p) ==
  /\ At(p, "up") /\ KindOf(p) = "server" /\ pr[p].hup
  /\ Set(p, IF files.rules = Bad THEN [pr[p] EXCEPT !.hup = FALSE]
            ELSE [pr[p] EXCEPT !.hup = FALSE, !.pc = "seeding", !.rules = files.rules])
  /\ UNCHANGED <<dir, lock, files, cl, past>>
ServerStop(p) ==
  /\ At(p, "up") /\ KindOf(p) = "server" /\ pr[p].term
  /\ StopSaves(p) /\ UNCHANGED <<dir, lock, files, cl, past>>

----------------------------------------------------------------------------
(* The client's threads. *)

Diff(next) == [added |-> Added(cl.live, next), removed |-> Removed(cl.live, next)]
Pipe == cl.config.pipe

\* reload() on the signal thread: check, diff, post, wait.
ClientReload(p) ==
  /\ Client(p) /\ pr[p].hup /\ pr[p].pc \in {"up", "saving", "iostop"} /\ cl.sig = "idle"
  /\ Set(p, [pr[p] EXCEPT !.hup = FALSE])
  /\ LET next == files.config
         ok == next /= Bad /\ check_reloadable(cl.config, next)
         d == Diff(next.forwards)
     IN  cl' = IF ok /\ ~(Pipe /\ d.added \o d.removed /= <<>>)
               THEN [cl EXCEPT !.sig = "waiting", !.job = [kind |-> "apply", config |-> next, diff |-> d]]
               ELSE cl
  /\ UNCHANGED <<dir, lock, files, past>>

\* An io worker runs the posted apply; none runs after the io context stops.
ClientApply(p) ==
  /\ Client(p) /\ cl.job /= NoJob /\ pr[p].pc \in {"up", "saving", "iostop"}
  /\ LET a == ApplyForwards(cl.live, cl.lsn, cl.job.diff, files.taken)
     IN  cl' = [cl EXCEPT !.live = a.live, !.lsn = a.next, !.config = cl.job.config,
                          !.job = NoJob, !.sig = "idle"]
  /\ UNCHANGED <<dir, lock, pr, files, past>>

\* request_stop(): a pipe whose stream or server has gone.
PipeEnds(p) ==
  /\ Client(p) /\ At(p, "up") /\ Pipe /\ ~cl.hangup
  /\ cl' = [cl EXCEPT !.hangup = TRUE] /\ UNCHANGED <<dir, lock, pr, files, past>>

\* stop(), once: on main when a callback asked, on the signal thread when a
\* signal did.
ClientStop(p) ==
  /\ Client(p) /\ At(p, "up")
  /\ \/ cl.hangup /\ UNCHANGED cl
     \/ pr[p].term /\ cl.sig = "idle" /\ cl' = [cl EXCEPT !.sig = "stopping"]
  /\ StopSaves(p) /\ UNCHANGED <<dir, lock, files, past>>
IoStop(p) == At(p, "iostop") /\ Goto(p, "join") /\ UNCHANGED <<dir, lock, files, cl, past>>

\* main joins the signal thread.
Join(p) ==
  /\ At(p, "join") /\ cl.sig /= "waiting"
  /\ Goto(p, "unguard") /\ UNCHANGED <<dir, lock, files, cl, past>>

----------------------------------------------------------------------------
(* The operator and the machine. *)

Edit ==
  /\ files.edits < Len(allow.rules)
  /\ files' = [files EXCEPT !.edits = @ + 1, !.rules = allow.rules[files.edits + 1],
                            !.config = allow.configs[files.edits + 1]]
  /\ UNCHANGED <<dir, lock, pr, cl, past, allow>>
\* Another program takes or frees an endpoint.
TakePort ==
  /\ \E e \in allow.ports :
       /\ (\E p \in Procs : Client(p) /\ pr[p].armed) =>
            \A i \in DOMAIN cl.live : Endpoint(cl.live[i].rule) /= e
       /\ files' = [files EXCEPT !.taken = IF e \in @ THEN @ \ {e} ELSE @ \cup {e}]
  /\ UNCHANGED <<dir, lock, pr, cl, past>>

PowerCut ==
  /\ pr' = [p \in Procs |-> Gone] /\ lock' = NoProc
  /\ \E s \in dir.save.sure, x \in dir.pid.sure :
       dir' = [save |-> FileHolding(s), pid |-> FileHolding(x)]
  /\ UNCHANGED <<files, cl, past>>

Outside ==
  \/ \E p \in Procs :
       \/ Start(p) /\ Spend("start")
       \/ Kill(p) /\ Spend("kill")
       \/ ReloadCommand(p) /\ Spend("hup")
       \/ Terminate(p) /\ Spend("term")
       \/ PipeEnds(p) /\ Spend("hangup")
       \/ WriteError(p) /\ Spend("error")
       \/ LoadRefused(p) /\ Spend("error")
  \/ PowerCut /\ Spend("cut")
  \/ TakePort /\ Spend("take")
  \/ Edit

Runs(p) ==
  \/ Guard(p) \/ Published(p) \/ LoadRules(p) \/ Load(p) \/ Persisted(p) \/ Seed(p) \/ FriendSaved(p)
  \/ Up(p) \/ StopSaved(p) \/ WriteStep(p) \/ Unguard(p) \/ Unlink(p) \/ Unlock(p)
  \/ ServerReload(p) \/ ServerStop(p)
  \/ ClientReload(p) \/ ClientApply(p) \/ ClientStop(p) \/ IoStop(p) \/ Join(p)

Next == Outside \/ \E p \in Procs : Runs(p) /\ UNCHANGED allow

Spec == Init /\ [][Next]_vars
\* Every thread of a live process runs on.
FairSpec == Spec /\ \A p \in Procs : WF_vars(Runs(p) /\ UNCHANGED allow)

----------------------------------------------------------------------------
(* Properties. *)

\* The daemon that owns the directory is the one the pid file names, from the
\* moment it reads the directory until it gives it back: no daemon on its way
\* out, killed or refused takes the file of another away (PidFileGuard).
DataDirOwned ==
  \A p \in Procs :
    ~PrintId(p) /\ pr[p].pc \in {"rules", "load", "persisting", "seeding", "adding", "up",
                                 "saving", "iostop", "join"}
      => lock = p /\ dir.pid.seen = p

\* An address once told stays the address, and a friend once saved stays one,
\* across kills and power cuts at any step of a save, as long as the directory
\* could be synced (ToxAdapter::initialize refuses to run otherwise).
IdentityKept ==
  past.addresses /= {} /\ ~past.unsure =>
    \A x \in dir.save.sure \cup {dir.save.seen} :
      IsSave(x) /\ past.addresses = {x.id} /\ past.settled \subseteq x.friends

\* A reload of the forwards: a forward in both configs keeps its listener; a
\* new one is served unless its endpoint is not free; what else is served was
\* served before and stands in for a new one that failed; and a forward whose
\* new address cannot be bound stays in service on the old one if that is
\* still free (TunnelClient::reload).
ReloadServes ==
  LET next == ToSet(cl.job.config.forwards)
      was == ToSet(cl.live)
      now == ToSet(cl'.live)
      served == {f.rule : f \in now}
      Free(r) == Bindable(cl'.live, files.taken, r)
  IN  /\ \A f \in was : f.rule \in next => f \in now
      /\ \A r \in next \ served :
           /\ ~Free(r)
           /\ \A f \in was : Rebinds(f.rule, r) /\ Free(f.rule) => \E o \in served : Rebinds(o, r)
      /\ \A f \in now : f.rule \notin next =>
           f.rule \in {g.rule : g \in was} /\ \E r \in next \ served : Rebinds(f.rule, r)
ReloadKeepsService == [][(\E p \in Procs : ClientApply(p)) => ReloadServes]_vars

\* A client whose pipe has ended exits.
ClientExits == \A p \in Procs : Client(p) => (cl.hangup /\ pr[p].pc /= "off" ~> pr[p].pc = "off")
============================================================================
