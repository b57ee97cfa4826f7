------------------------------ MODULE DataDir ------------------------------
(***************************************************************************)
(* The processes that use one data directory: daemons, which claim it with *)
(* PidFileGuard (src/src/util/pid_file.cpp) and keep their Tox identity in *)
(* it (ToxAdapter::initialize and write_save_data), and the print-id       *)
(* command, which claims nothing.  A process may be killed and the machine *)
(* may lose power at any step.                                             *)
(***************************************************************************)
EXTENDS ConfigReload

CONSTANTS Procs, KindOf(_),   \* "server", "client" or "print_id"; a process is its pid
          NoProc, NoId, Bad,
          Servers,            \* the servers of the client's config
          Friends,            \* the public keys a rules file or a config may name
          Scenarios           \* how often each outside event may happen

SaveRecord == [id : Nat, friends : SUBSET Friends]
RulesFile(x) == x = Bad \/ x \in SUBSET Friends

\* Nothing but a save looks like one, the files name known keys, and the free
\* lock is no process.
ASSUME FilesAssumption ==
  /\ \A x \in {NoFile, Torn, Squat} : x \notin SaveRecord
  /\ Servers \subseteq Friends
  /\ \A s \in Scenarios :
       /\ {"left", "rules"} \subseteq DOMAIN s
       /\ Len(s.rules) \in Nat \ {0} /\ \A i \in 1 .. Len(s.rules) : RulesFile(s.rules[i])
ASSUME PidAssumption == NoProc \notin Procs

VARIABLES dir,     \* the files "save" and "pid"
          lock,    \* who holds toxtunnel.lock
          pr,      \* the processes
          files,   \* the operator's files: the rules file, the config
          cl,      \* the client: forwards, threads
          past,    \* what has been promised: addresses, friends
          allow    \* what may still happen in the chosen scenario

vars == <<dir, lock, pr, files, cl, past, allow>>

Gone == [pc |-> "off", mem |-> NoId, rules |-> {}, w |-> NoWrite, armed |-> FALSE,
         hup |-> FALSE, term |-> FALSE]

Set(p, r) == pr' = [pr EXCEPT ![p] = r]
Goto(p, l) == Set(p, [pr[p] EXCEPT !.pc = l])
At(p, l) == pr[p].pc = l
PrintId(p) == KindOf(p) = "print_id"
Client(p) == KindOf(p) = "client"
IsSave(x) == x \notin {NoFile, Torn, Squat}

\* A return before run_server() or run_client() is done: the guard's destructor.
Leave(p) == Goto(p, IF PrintId(p) THEN "off" ELSE "unguard")

----------------------------------------------------------------------------
(* PidFileGuard. *)

\* The constructor: take the lock or exit, then publish the pid.
Guard(p) ==
  /\ At(p, "guard")
  /\ IF lock = NoProc
     THEN lock' = p /\ Set(p, [pr[p] EXCEPT !.pc = "publishing", !.w = Begin("pid", p)])
     ELSE Set(p, Gone) /\ UNCHANGED lock
  /\ UNCHANGED <<dir, files, cl, past>>

Published(p) ==
  /\ At(p, "publishing") /\ ~Writing(pr[p].w)
  /\ IF pr[p].w.step = "done" THEN Goto(p, "rules") /\ UNCHANGED lock
     ELSE Set(p, Gone) /\ lock' = NoProc
  /\ UNCHANGED <<dir, files, cl, past>>

\* Mutant: the lock is let go before the pid file.
UnguardUnlocks(p) ==
  /\ At(p, "unguard")
  /\ Goto(p, IF dir.pid.seen = p THEN "unlink" ELSE "unlock")
  /\ lock' = NoProc /\ UNCHANGED <<dir, files, cl, past>>

\* remove_pid_file() reads, then unlinks.
Unguard(p) ==
  /\ At(p, "unguard")
  /\ Goto(p, IF dir.pid.seen = p THEN "unlink" ELSE "unlock")
  /\ UNCHANGED <<dir, lock, files, cl, past>>
Unlink(p) ==
  /\ At(p, "unlink")
  /\ dir' = [dir EXCEPT !.pid = Unlinked(@)] /\ Goto(p, "unlock")
  /\ UNCHANGED <<lock, files, cl, past>>
Unlock(p) ==
  /\ At(p, "unlock")
  /\ lock' = (IF lock = p THEN NoProc ELSE lock) /\ Set(p, Gone)
  /\ UNCHANGED <<dir, files, cl, past>>

----------------------------------------------------------------------------
(* The identity. *)

\* The rules are read before the identity; a client takes its servers.
LoadRules(p) ==
  /\ At(p, "rules")
  /\ IF Client(p) THEN Set(p, [pr[p] EXCEPT !.pc = "load", !.rules = Servers])
     ELSE IF files.rules = Bad THEN Leave(p)
     ELSE Set(p, [pr[p] EXCEPT !.pc = "load", !.rules = files.rules])
  /\ UNCHANGED <<dir, lock, files, cl, past>>

\* load_save_data() and tox_new(): the saved identity, or a fresh one when
\* there is no file, a directory or an empty file.
load_save_data(x) == {IF IsSave(x) THEN x ELSE [id |-> past.minted + 1, friends |-> {}]}

Load(p) ==
  /\ At(p, "load")
  /\ \E m \in load_save_data(dir.save.seen) :
       /\ Set(p, [pr[p] EXCEPT !.pc = "persisting", !.mem = m, !.w = Begin("save", m)])
       /\ past' = [past EXCEPT !.minted = IF m.id > @ THEN m.id ELSE @]
  /\ UNCHANGED <<dir, lock, files, cl>>
\* An unreadable or oversized file, a failing tox_new().
LoadRefused(p) == At(p, "load") /\ Leave(p) /\ UNCHANGED <<dir, lock, files, cl, past>>

\* The end of a save: its friends are kept from here on.
Settle(p) == IF pr[p].w.step = "done" THEN past.settled \cup pr[p].mem.friends ELSE past.settled

\* The address is logged, or printed, once the identity is on disk.
Persisted(p) ==
  /\ At(p, "persisting") /\ ~Writing(pr[p].w)
  /\ IF pr[p].w.step = "failed" THEN Leave(p) /\ UNCHANGED past
     ELSE /\ Set(p, IF PrintId(p) THEN Gone ELSE [pr[p] EXCEPT !.pc = "seeding"])
          /\ past' = [past EXCEPT !.addresses = @ \cup {pr[p].mem.id}, !.settled = Settle(p)]
  /\ UNCHANGED <<dir, lock, files, cl>>

\* preseed_friends_from_rules(), add_friend(): each friend is saved as it is
\* added, a failing save ignored.
Seed(p) ==
  /\ At(p, "seeding")
  /\ \E f \in pr[p].rules \ pr[p].mem.friends :
       LET m == [pr[p].mem EXCEPT !.friends = @ \cup {f}]
       IN  Set(p, [pr[p] EXCEPT !.pc = "adding", !.mem = m, !.w = Begin("save", m)])
  /\ UNCHANGED <<dir, lock, files, cl, past>>
FriendSaved(p) ==
  /\ At(p, "adding") /\ ~Writing(pr[p].w)
  /\ Goto(p, "seeding") /\ past' = [past EXCEPT !.settled = Settle(p)]
  /\ UNCHANGED <<dir, lock, files, cl>>

\* The save of ToxAdapter::stop().
StopSaves(p) == Set(p, [pr[p] EXCEPT !.pc = "saving", !.w = Begin("save", pr[p].mem)])
StopSaved(p) ==
  /\ At(p, "saving") /\ ~Writing(pr[p].w)
  /\ Goto(p, IF Client(p) THEN "iostop" ELSE "unguard") /\ past' = [past EXCEPT !.settled = Settle(p)]
  /\ UNCHANGED <<dir, lock, files, cl>>

\* One step of a write, and one that fails.
WriteStep(p) ==
  /\ Writing(pr[p].w)
  /\ LET s == posix_write(pr[p].w, dir[pr[p].w.path])
     IN  Set(p, [pr[p] EXCEPT !.w = s[1]]) /\ dir' = [dir EXCEPT ![pr[p].w.path] = s[2]]
  /\ UNCHANGED <<lock, files, cl, past>>
WriteError(p) ==
  /\ Writing(pr[p].w)
  /\ Set(p, [pr[p] EXCEPT !.w = WriteFails(@)])
  /\ past' = [past EXCEPT !.unsure = @ \/ pr[p].w.step = "dirsync"]
  /\ UNCHANGED <<dir, lock, files, cl>>
============================================================================
