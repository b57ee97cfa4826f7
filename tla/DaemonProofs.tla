---------------------------- MODULE DaemonProofs ----------------------------
(***************************************************************************)
(* The data directory of Daemon for any set of processes, any scenario and *)
(* any number of kills and power cuts: one owner at a time, and an         *)
(* identity that, once told, is never lost.                                *)
(***************************************************************************)
EXTENDS Daemon, TLAPS

----------------------------------------------------------------------------
(* The inductive invariant. *)

SaveFile == SaveRecord \cup {NoFile, Torn, Squat}
PidFile == Procs \cup {NoFile, Torn}
FileOf(V) == [seen : V, sure : SUBSET V]

WriteRecord == [step : {"idle", "stage", "sync", "rename", "dirsync", "done", "failed"},
                path : {"save", "pid"}, val : SaveRecord \cup Procs \cup {NoFile},
                synced : BOOLEAN]

Ways == {"off", "guard", "publishing", "rules", "load", "persisting", "seeding", "adding", "up",
         "saving", "iostop", "join", "unguard", "unlink", "unlock"}
Saving == {"persisting", "adding", "saving"}
Using == {"persisting", "seeding", "adding", "up", "saving", "iostop", "join"}
Owning == {"rules", "load"} \cup Using

ProcRecord == [pc : Ways, mem : SaveRecord \cup {NoId}, rules : SUBSET Friends, w : WriteRecord,
               armed : BOOLEAN, hup : BOOLEAN, term : BOOLEAN]

PastRecord == [minted : Nat, addresses : SUBSET Nat, settled : SUBSET Friends, unsure : BOOLEAN]

\* The operator's rules files are rules files.
FilesOK ==
  /\ {"rules", "edits"} \subseteq DOMAIN files
  /\ RulesFile(files.rules) /\ files.edits \in Nat
  /\ {"left", "rules"} \subseteq DOMAIN allow
  /\ Len(allow.rules) \in Nat /\ \A i \in 1 .. Len(allow.rules) : RulesFile(allow.rules[i])

TypeOK ==
  /\ dir \in [save : FileOf(SaveFile), pid : FileOf(PidFile)]
  /\ lock \in Procs \cup {NoProc}
  /\ pr \in [Procs -> ProcRecord]
  /\ past \in PastRecord
  /\ FilesOK

\* A daemon holds the lock from the guard's constructor to its destructor.
LockHeld(p) == ~PrintId(p) /\ pr[p].pc \notin {"off", "guard"} => lock = p

\* What each place in the program says of the pid file,
PidNamed(p) == ~PrintId(p) /\ pr[p].pc \in Owning => dir.pid.seen = p

\* of the write of it,
Publishing(p) ==
  pr[p].pc = "publishing" =>
    /\ pr[p].w.path = "pid" /\ pr[p].w.val = p /\ pr[p].w.step /= "dirsync"
    /\ pr[p].w.step = "done" => dir.pid.seen = p

\* of the write of the identity,
SaveUnderWay(p) ==
  pr[p].pc \in Saving =>
    /\ pr[p].w.path = "save" /\ pr[p].w.val = pr[p].mem /\ pr[p].w.step /= "idle"
    /\ pr[p].w.step = "rename" => pr[p].w.synced
    /\ pr[p].w.step \in {"dirsync", "done"} => dir.save.seen = pr[p].mem
    /\ pr[p].w.step = "done" /\ ~past.unsure => dir.save.sure = {pr[p].mem}

\* and of the identity in memory.
InMemory(p) ==
  pr[p].pc \in Using =>
    /\ pr[p].mem \in SaveRecord
    /\ pr[p].pc /= "persisting" => past.addresses /= {}
    /\ past.addresses /= {} /\ ~past.unsure =>
         past.addresses = {pr[p].mem.id} /\ past.settled \subseteq pr[p].mem.friends

WritesWhere(p) == Writing(pr[p].w) => pr[p].pc \in Saving \cup {"publishing"}
PrintIdWhere(p) == PrintId(p) => pr[p].pc \in {"off", "load", "persisting"}

ProcInv(p) ==
  /\ LockHeld(p) /\ PidNamed(p) /\ Publishing(p) /\ SaveUnderWay(p) /\ InMemory(p)
  /\ WritesWhere(p) /\ PrintIdWhere(p)

PrintIdAlone ==
  \A p, q \in Procs : PrintId(p) /\ pr[p].pc /= "off" /\ pr[q].pc /= "off" => p = q

SettledAfterTold == past.settled /= {} => past.addresses /= {}

DirInv ==
  /\ TypeOK
  /\ \A p \in Procs : ProcInv(p)
  /\ PrintIdAlone /\ SettledAfterTold /\ IdentityKept

----------------------------------------------------------------------------
(* Facts about one process. *)

LEMMA GoneRecord == Gone \in ProcRecord /\ Gone.pc = "off" /\ ~Writing(Gone.w)
BY DEF Gone, NoWrite, ProcRecord, WriteRecord, Ways, Writing

\* Two processes past the guard are one: daemons by the lock, print-id because
\* it is run alone.
LEMMA OneActive ==
  ASSUME DirInv, NEW p \in Procs, NEW q \in Procs,
         pr[p].pc \notin {"off", "guard"}, pr[q].pc \notin {"off", "guard"}
  PROVE  p = q
<1>1. CASE PrintId(p) \/ PrintId(q)
  BY <1>1 DEF DirInv, PrintIdAlone
<1>2. CASE ~PrintId(p) /\ ~PrintId(q)
  <2>1. LockHeld(p) /\ LockHeld(q)
    BY DEF DirInv, ProcInv
  <2> QED BY <1>2, <2>1 DEF LockHeld
<1> QED BY <1>1, <1>2

\* A process before the guard, or gone, asks nothing of the directory.
LEMMA IdleInv ==
  ASSUME NEW q \in Procs, pr'[q].pc \in {"off", "guard"}, ~Writing(pr'[q].w), PrintIdWhere(q)'
  PROVE  ProcInv(q)'
<1>1. LockHeld(q)' BY DEF LockHeld
<1>2. PidNamed(q)' BY DEF PidNamed, Owning, Using
<1>3. Publishing(q)' BY DEF Publishing
<1>4. SaveUnderWay(q)' BY DEF SaveUnderWay, Saving
<1>5. InMemory(q)' BY DEF InMemory, Using
<1>6. WritesWhere(q)'
  BY DEF WritesWhere, Writing
<1> QED BY <1>1, <1>2, <1>3, <1>4, <1>5, <1>6 DEF ProcInv

\* A process that does not move keeps its part of the invariant when the
\* files and the promises do not change either.
LEMMA OtherInv ==
  ASSUME NEW q \in Procs, ProcInv(q), pr'[q] = pr[q], UNCHANGED <<dir, past>>, LockHeld(q)'
  PROVE  ProcInv(q)'
<1>1. PidNamed(q)' BY DEF ProcInv, PidNamed
<1>2. Publishing(q)' BY DEF ProcInv, Publishing
<1>3. SaveUnderWay(q)' BY DEF ProcInv, SaveUnderWay
<1>4. InMemory(q)' BY DEF ProcInv, InMemory
<1>5. WritesWhere(q)' BY DEF ProcInv, WritesWhere, Writing
<1>6. PrintIdWhere(q)' BY DEF ProcInv, PrintIdWhere
<1> QED BY <1>1, <1>2, <1>3, <1>4, <1>5, <1>6 DEF ProcInv

\* A step of a process past the guard: only its own part is to be shown.
LEMMA ActiveStep ==
  ASSUME DirInv, NEW p \in Procs, pr[p].pc \notin {"off", "guard"},
         NEW r, pr' = [pr EXCEPT ![p] = r],
         TypeOK', ProcInv(p)', SettledAfterTold', IdentityKept'
  PROVE  DirInv'
<1>1. ASSUME NEW q \in Procs, q /= p PROVE ProcInv(q)' /\ pr'[q] = pr[q]
  <2>1. pr'[q] = pr[q]
    BY <1>1 DEF DirInv, TypeOK
  <2>2. pr[q].pc \in {"off", "guard"}
    BY <1>1, OneActive
  <2>3. ProcInv(q)
    BY DEF DirInv
  <2>4. ~Writing(pr'[q].w)
    BY <2>1, <2>2, <2>3 DEF ProcInv, WritesWhere, Saving
  <2>5. PrintIdWhere(q)'
    BY <2>1, <2>3 DEF ProcInv, PrintIdWhere
  <2> QED BY <2>1, <2>2, <2>4, <2>5, IdleInv
<1>2. PrintIdAlone'
  <2> SUFFICES ASSUME NEW a \in Procs, NEW b \in Procs,
                      PrintId(a), pr'[a].pc /= "off", pr'[b].pc /= "off"
               PROVE  a = b
    BY DEF PrintIdAlone, PrintId
  <2>1. pr[a].pc /= "off" /\ pr[b].pc /= "off"
    BY <1>1
  <2> QED BY <2>1 DEF DirInv, PrintIdAlone
<1>3. \A q \in Procs : ProcInv(q)'
  BY <1>1
<1> QED BY <1>2, <1>3 DEF DirInv

\* One that changes neither the files nor a promise.
LEMMA QuietStep ==
  ASSUME DirInv, NEW p \in Procs, pr[p].pc \notin {"off", "guard"},
         NEW r \in ProcRecord, pr' = [pr EXCEPT ![p] = r],
         UNCHANGED <<dir, past>>, lock' \in Procs \cup {NoProc}, FilesOK', ProcInv(p)'
  PROVE  DirInv'
<1>1. TypeOK'
  BY DEF DirInv, TypeOK
<1>2. SettledAfterTold' /\ IdentityKept'
  BY DEF DirInv, SettledAfterTold, IdentityKept
<1> QED BY <1>1, <1>2, ActiveStep

LEMMA SpendOK ==
  ASSUME FilesOK, UNCHANGED files, NEW e, Spend(e) \/ UNCHANGED allow PROVE FilesOK'
<1>1. CASE UNCHANGED allow
  BY <1>1 DEF FilesOK
<1>2. CASE Spend(e)
  <2>1. DOMAIN allow' = DOMAIN allow /\ allow'.rules = allow.rules
    BY <1>2 DEF Spend, FilesOK
  <2> QED BY <2>1 DEF FilesOK
<1> QED BY <1>1, <1>2

\* A process that changes no more than its flags.
LEMMA FlagStep ==
  ASSUME DirInv, NEW p \in Procs, pr[p].pc \notin {"off", "guard"},
         NEW r \in ProcRecord, pr' = [pr EXCEPT ![p] = r],
         r.pc = pr[p].pc, r.mem = pr[p].mem, r.w = pr[p].w,
         UNCHANGED <<dir, lock, past>>, FilesOK'
  PROVE  DirInv'
<1>1. pr'[p] = r
  BY DEF DirInv, TypeOK
<1>2. ProcInv(p)
  BY DEF DirInv
<1>3. ProcInv(p)'
  BY <1>1, <1>2 DEF ProcInv, LockHeld, PidNamed, Publishing, SaveUnderWay, InMemory, WritesWhere,
     Writing, PrintIdWhere
<1>4. lock' \in Procs \cup {NoProc}
  BY DEF DirInv, TypeOK
<1> QED BY <1>3, <1>4, QuietStep

\* A process that goes on between two saves.
LEMMA GoOnStep ==
  ASSUME DirInv, NEW p \in Procs, pr[p].pc \in Using \ Saving,
         NEW r \in ProcRecord, pr' = [pr EXCEPT ![p] = r],
         r.pc \in Using \ Saving, r.mem = pr[p].mem, r.w = pr[p].w,
         UNCHANGED <<dir, lock, past>>, FilesOK'
  PROVE  DirInv'
<1>1. pr'[p] = r
  BY DEF DirInv, TypeOK
<1>2. ProcInv(p)
  BY DEF DirInv
<1>3. ~PrintId(p)
  BY <1>2 DEF ProcInv, PrintIdWhere, Using, Saving
<1>4. LockHeld(p)' /\ PidNamed(p)' /\ PrintIdWhere(p)'
  BY <1>1, <1>2, <1>3 DEF ProcInv, LockHeld, PidNamed, PrintIdWhere, Using, Saving, Owning
<1>5. Publishing(p)' /\ SaveUnderWay(p)' /\ WritesWhere(p)'
  BY <1>1, <1>2 DEF ProcInv, Publishing, SaveUnderWay, WritesWhere, Writing, Using, Saving
<1>6. InMemory(p)'
  BY <1>1, <1>2 DEF ProcInv, InMemory, Using, Saving
<1>7. lock' \in Procs \cup {NoProc}
  BY DEF DirInv, TypeOK
<1> QED BY <1>4, <1>5, <1>6, <1>7, QuietStep DEF ProcInv, Using

\* A process on its way out.
LEMMA RetreatStep ==
  ASSUME DirInv, NEW p \in Procs, pr[p].pc \notin {"off", "guard"}, ~Writing(pr[p].w),
         NEW l \in {"off", "unguard", "unlink", "unlock"}, Goto(p, l), PrintId(p) => l = "off",
         UNCHANGED <<dir, lock, past>>, FilesOK'
  PROVE  DirInv'
<1> DEFINE r == [pr[p] EXCEPT !.pc = l]
<1>1. pr[p] \in ProcRecord /\ pr \in [Procs -> ProcRecord]
  BY DEF DirInv, TypeOK
<1>2. r \in ProcRecord /\ r.pc = l /\ r.w = pr[p].w
  BY <1>1 DEF ProcRecord, Ways
<1>3. pr' = [pr EXCEPT ![p] = r]
  BY DEF Goto, Set
<1>4. pr'[p] = r
  BY <1>1, <1>3
<1>5. ProcInv(p)
  BY DEF DirInv
<1> HIDE DEF r
<1>6. LockHeld(p)' /\ PidNamed(p)' /\ PrintIdWhere(p)'
  BY <1>2, <1>4, <1>5 DEF ProcInv, LockHeld, PidNamed, PrintIdWhere, Owning, Using
<1>7. Publishing(p)' /\ SaveUnderWay(p)' /\ InMemory(p)' /\ WritesWhere(p)'
  BY <1>2, <1>4 DEF Publishing, SaveUnderWay, InMemory, WritesWhere, Writing, Using, Saving
<1>8. lock' \in Procs \cup {NoProc}
  BY DEF DirInv, TypeOK
<1> QED BY <1>2, <1>3, <1>6, <1>7, <1>8, QuietStep DEF ProcInv

\* Leave() from a place that is not writing.
LEMMA LeaveStep ==
  ASSUME DirInv, NEW p \in Procs, pr[p].pc \notin {"off", "guard"}, ~Writing(pr[p].w), Leave(p),
         UNCHANGED <<dir, lock, past>>, FilesOK'
  PROVE  DirInv'
<1>1. CASE PrintId(p)
  BY <1>1, RetreatStep DEF Leave
<1>2. CASE ~PrintId(p)
  BY <1>2, RetreatStep DEF Leave
<1> QED BY <1>1, <1>2

\* A process that ends: the lock goes with it.
LEMMA EndStep ==
  ASSUME DirInv, NEW p \in Procs, Set(p, Gone),
         lock' = lock \/ (lock = p /\ lock' = NoProc), UNCHANGED <<dir, past>>, FilesOK'
  PROVE  DirInv'
<1>1. pr'[p] = Gone /\ \A q \in Procs : q /= p => pr'[q] = pr[q]
  BY DEF DirInv, TypeOK, Set
<1>2. ProcInv(p)'
  BY <1>1, GoneRecord, IdleInv DEF PrintIdWhere
<1>3. ASSUME NEW q \in Procs, q /= p PROVE ProcInv(q)'
  <2>1. ProcInv(q)
    BY DEF DirInv
  <2>2. LockHeld(q)'
    BY <1>1, <1>3, <2>1 DEF ProcInv, LockHeld, PrintId
  <2> QED BY <1>1, <1>3, <2>1, <2>2, OtherInv
<1>4. TypeOK'
  BY GoneRecord DEF DirInv, TypeOK, Set
<1>5. SettledAfterTold' /\ IdentityKept'
  BY DEF DirInv, SettledAfterTold, IdentityKept
<1>6. PrintIdAlone'
  BY <1>1, GoneRecord DEF DirInv, PrintIdAlone, PrintId
<1> QED BY <1>2, <1>3, <1>4, <1>5, <1>6 DEF DirInv

----------------------------------------------------------------------------
(* PidFileGuard. *)

LEMMA GuardKeeps == ASSUME DirInv, NEW p \in Procs, Guard(p), UNCHANGED allow PROVE DirInv'
<1>1. FilesOK'
  BY SpendOK DEF Guard, DirInv, TypeOK
<1>2. CASE lock /= NoProc
  BY <1>1, <1>2, EndStep DEF Guard
<1>3. CASE lock = NoProc
  <2> DEFINE r == [pr[p] EXCEPT !.pc = "publishing", !.w = Begin("pid", p)]
  <2>1. pr[p] \in ProcRecord /\ pr \in [Procs -> ProcRecord] /\ pr[p].pc = "guard"
    BY DEF DirInv, TypeOK, Guard, At
  <2>2. Begin("pid", p) \in WriteRecord
    BY DEF Begin, WriteRecord
  <2>3. r \in ProcRecord /\ r.pc = "publishing" /\ r.w = Begin("pid", p)
    BY <2>1, <2>2 DEF ProcRecord, Ways
  <2>4. pr' = [pr EXCEPT ![p] = r] /\ lock' = p /\ UNCHANGED <<dir, past>>
    BY <1>3 DEF Guard, Set
  <2> HIDE DEF r
  <2>5. pr'[p] = r /\ \A q \in Procs : q /= p => pr'[q] = pr[q]
    BY <2>1, <2>4
  <2>6. ~PrintId(p)
    BY <2>1 DEF DirInv, ProcInv, PrintIdWhere
  <2>7. ProcInv(p)'
    <3>1. LockHeld(p)' /\ PidNamed(p)' /\ PrintIdWhere(p)'
      BY <2>3, <2>4, <2>5, <2>6 DEF LockHeld, PidNamed, PrintIdWhere, Owning, Using, PrintId
    <3>2. Publishing(p)' /\ SaveUnderWay(p)' /\ InMemory(p)' /\ WritesWhere(p)'
      BY <2>3, <2>5 DEF Publishing, SaveUnderWay, InMemory, WritesWhere, Writing, Saving, Using, Begin
    <3> QED BY <3>1, <3>2 DEF ProcInv
  <2>8. ASSUME NEW q \in Procs, q /= p PROVE ProcInv(q)'
    <3>1. ProcInv(q) /\ lock /= q
      BY <1>3, PidAssumption DEF DirInv
    <3>2. LockHeld(q)'
      BY <2>5, <2>8, <3>1 DEF ProcInv, LockHeld, PrintId
    <3> QED BY <2>4, <2>5, <2>8, <3>1, <3>2, OtherInv
  <2>9. TypeOK' /\ SettledAfterTold' /\ IdentityKept'
    BY <1>1, <2>3, <2>4 DEF DirInv, TypeOK, SettledAfterTold, IdentityKept
  <2>10. PrintIdAlone'
    BY <2>1, <2>3, <2>5 DEF DirInv, PrintIdAlone, PrintId
  <2> QED BY <2>7, <2>8, <2>9, <2>10 DEF DirInv
<1> QED BY <1>2, <1>3

LEMMA PublishedKeeps == ASSUME DirInv, NEW p \in Procs, Published(p), UNCHANGED allow PROVE DirInv'
<1>1. FilesOK'
  BY SpendOK DEF Published, DirInv, TypeOK
<1>2. ProcInv(p) /\ pr[p].pc = "publishing" /\ ~PrintId(p) /\ lock = p
  BY DEF Published, At, DirInv, ProcInv, PrintIdWhere, LockHeld
<1>3. CASE pr[p].w.step /= "done"
  BY <1>1, <1>2, <1>3, EndStep DEF Published
<1>4. CASE pr[p].w.step = "done"
  <2> DEFINE r == [pr[p] EXCEPT !.pc = "rules"]
  <2>1. pr[p] \in ProcRecord /\ pr \in [Procs -> ProcRecord]
    BY DEF DirInv, TypeOK
  <2>2. r \in ProcRecord /\ r.pc = "rules" /\ r.w = pr[p].w
    BY <2>1 DEF ProcRecord, Ways
  <2>3. pr' = [pr EXCEPT ![p] = r] /\ UNCHANGED <<dir, lock, past>>
    BY <1>4 DEF Published, Goto, Set
  <2> HIDE DEF r
  <2>4. pr'[p] = r
    BY <2>1, <2>3
  <2>5. ProcInv(p)'
    <3>1. LockHeld(p)' /\ PidNamed(p)' /\ PrintIdWhere(p)'
      BY <1>2, <1>4, <2>2, <2>3, <2>4
      DEF LockHeld, PidNamed, PrintIdWhere, ProcInv, Publishing, PrintId
    <3>2. Publishing(p)' /\ SaveUnderWay(p)' /\ InMemory(p)' /\ WritesWhere(p)'
      BY <1>4, <2>2, <2>4 DEF Publishing, SaveUnderWay, InMemory, WritesWhere, Writing, Saving, Using
    <3> QED BY <3>1, <3>2 DEF ProcInv
  <2>6. lock' \in Procs \cup {NoProc}
    BY <1>2, <2>3
  <2> QED BY <1>1, <1>2, <2>2, <2>3, <2>5, <2>6, QuietStep
<1> QED BY <1>3, <1>4

LEMMA UnguardKeeps == ASSUME DirInv, NEW p \in Procs, Unguard(p), UNCHANGED allow PROVE DirInv'
<1>1. FilesOK'
  BY SpendOK DEF Unguard, DirInv, TypeOK
<1>2. pr[p].pc = "unguard" /\ ~PrintId(p) /\ ~Writing(pr[p].w)
  BY DEF Unguard, At, DirInv, ProcInv, PrintIdWhere, WritesWhere, Saving
<1>3. CASE dir.pid.seen = p
  BY <1>1, <1>2, <1>3, RetreatStep DEF Unguard
<1>4. CASE dir.pid.seen /= p
  BY <1>1, <1>2, <1>4, RetreatStep DEF Unguard
<1> QED BY <1>3, <1>4

LEMMA UnlinkKeeps == ASSUME DirInv, NEW p \in Procs, Unlink(p), UNCHANGED allow PROVE DirInv'
<1> DEFINE r == [pr[p] EXCEPT !.pc = "unlock"]
<1>1. FilesOK'
  BY SpendOK DEF Unlink, DirInv, TypeOK
<1>2. /\ pr[p] \in ProcRecord /\ pr \in [Procs -> ProcRecord]
      /\ ProcInv(p) /\ pr[p].pc = "unlink" /\ ~PrintId(p)
  BY DEF Unlink, At, DirInv, TypeOK, ProcInv, PrintIdWhere
<1>3. r \in ProcRecord /\ r.pc = "unlock" /\ r.w = pr[p].w
  BY <1>2 DEF ProcRecord, Ways
<1>4. pr' = [pr EXCEPT ![p] = r] /\ UNCHANGED <<lock, past>>
  BY DEF Unlink, Goto, Set
<1> HIDE DEF r
<1>5. pr'[p] = r
  BY <1>2, <1>4
<1>6. dir' \in [save : FileOf(SaveFile), pid : FileOf(PidFile)] /\ dir'.save = dir.save
  <2>1. dir \in [save : FileOf(SaveFile), pid : FileOf(PidFile)]
    BY DEF DirInv, TypeOK
  <2>2. Unlinked(dir.pid) \in FileOf(PidFile)
    BY <2>1 DEF Unlinked, FileOf, PidFile
  <2>3. dir' = [dir EXCEPT !.pid = Unlinked(dir.pid)]
    BY DEF Unlink
  <2> QED BY <2>1, <2>2, <2>3
<1>7. TypeOK' /\ SettledAfterTold' /\ IdentityKept'
  BY <1>1, <1>3, <1>4, <1>6 DEF DirInv, TypeOK, SettledAfterTold, IdentityKept
<1>8. ProcInv(p)'
  <2>1. LockHeld(p)' /\ PidNamed(p)' /\ PrintIdWhere(p)'
    BY <1>2, <1>3, <1>4, <1>5 DEF LockHeld, PidNamed, PrintIdWhere, ProcInv, PrintId, Owning, Using
  <2>2. Publishing(p)' /\ SaveUnderWay(p)' /\ InMemory(p)' /\ WritesWhere(p)'
    BY <1>2, <1>3, <1>5
    DEF ProcInv, Publishing, SaveUnderWay, InMemory, WritesWhere, Writing, Saving, Using
  <2> QED BY <2>1, <2>2 DEF ProcInv
<1> QED BY <1>2, <1>4, <1>7, <1>8, ActiveStep

LEMMA UnlockKeeps == ASSUME DirInv, NEW p \in Procs, Unlock(p), UNCHANGED allow PROVE DirInv'
<1>1. FilesOK'
  BY SpendOK DEF Unlock, DirInv, TypeOK
<1> QED BY <1>1, EndStep DEF Unlock

----------------------------------------------------------------------------
(* The identity. *)

LEMMA LoadRulesKeeps == ASSUME DirInv, NEW p \in Procs, LoadRules(p), UNCHANGED allow PROVE DirInv'
<1>1. FilesOK'
  BY SpendOK DEF LoadRules, DirInv, TypeOK
<1>2. /\ pr[p] \in ProcRecord /\ pr \in [Procs -> ProcRecord]
      /\ ProcInv(p) /\ pr[p].pc = "rules" /\ ~PrintId(p) /\ ~Writing(pr[p].w)
  BY DEF LoadRules, At, DirInv, TypeOK, ProcInv, PrintIdWhere, WritesWhere, Saving
<1>3. CASE ~Client(p) /\ files.rules = Bad
  BY <1>1, <1>2, <1>3, LeaveStep DEF LoadRules
<1>4. ASSUME NEW R \in SUBSET Friends, Set(p, [pr[p] EXCEPT !.pc = "load", !.rules = R])
      PROVE  DirInv'
  <2> DEFINE r == [pr[p] EXCEPT !.pc = "load", !.rules = R]
  <2>1. r \in ProcRecord /\ r.pc = "load" /\ r.w = pr[p].w
    BY <1>2 DEF ProcRecord, Ways
  <2>2. pr' = [pr EXCEPT ![p] = r] /\ UNCHANGED <<dir, lock, past>>
    BY <1>4 DEF LoadRules, Set
  <2> HIDE DEF r
  <2>3. pr'[p] = r
    BY <1>2, <2>2
  <2>4. LockHeld(p)' /\ PidNamed(p)' /\ PrintIdWhere(p)'
    BY <1>2, <2>1, <2>2, <2>3 DEF LockHeld, PidNamed, PrintIdWhere, ProcInv, PrintId, Owning
  <2>5. Publishing(p)' /\ SaveUnderWay(p)' /\ InMemory(p)' /\ WritesWhere(p)'
    BY <1>2, <2>1, <2>3 DEF Publishing, SaveUnderWay, InMemory, WritesWhere, Writing, Saving, Using
  <2>6. lock' \in Procs \cup {NoProc}
    BY <2>2 DEF DirInv, TypeOK
  <2> QED BY <1>1, <1>2, <2>1, <2>2, <2>4, <2>5, <2>6, QuietStep DEF ProcInv
<1>5. CASE Client(p)
  <2>1. Servers \in SUBSET Friends
    BY FilesAssumption
  <2> QED BY <1>4, <1>5, <2>1 DEF LoadRules
<1>6. CASE ~Client(p) /\ files.rules /= Bad
  <2>1. files.rules \in SUBSET Friends
    BY <1>6 DEF DirInv, TypeOK, FilesOK, RulesFile
  <2> QED BY <1>4, <1>6, <2>1 DEF LoadRules
<1> QED BY <1>3, <1>5, <1>6

\* A save of m begins: the memory and the write agree, and so do the promises
\* if m was loaded or has grown.
LEMMA SaveBegins ==
  ASSUME DirInv, NEW p \in Procs, pr[p].pc \in Owning,
         NEW m \in SaveRecord, NEW c \in Saving, PrintId(p) => c = "persisting",
         NEW r \in ProcRecord, pr' = [pr EXCEPT ![p] = r],
         r.pc = c, r.mem = m, r.w = Begin("save", m),
         UNCHANGED <<dir, lock>>, FilesOK', past' \in PastRecord,
         past'.addresses = past.addresses, past'.settled = past.settled, past'.unsure = past.unsure,
         c /= "persisting" => past.addresses /= {},
         past.addresses /= {} /\ ~past.unsure => past.addresses = {m.id} /\ past.settled \subseteq m.friends
  PROVE  DirInv'
<1>1. pr'[p] = r /\ ProcInv(p) /\ pr[p].pc \notin {"off", "guard"}
  BY DEF DirInv, TypeOK, Owning, Using
<1>2. LockHeld(p)' /\ PidNamed(p)' /\ PrintIdWhere(p)'
  BY <1>1 DEF LockHeld, PidNamed, PrintIdWhere, ProcInv, PrintId, Owning, Using, Saving
<1>3. Publishing(p)' /\ SaveUnderWay(p)' /\ WritesWhere(p)'
  BY <1>1 DEF Publishing, SaveUnderWay, WritesWhere, Saving, Begin
<1>4. InMemory(p)'
  BY <1>1 DEF InMemory
<1>5. TypeOK' /\ SettledAfterTold' /\ IdentityKept'
  BY DEF DirInv, TypeOK, SettledAfterTold, IdentityKept
<1> QED BY <1>1, <1>2, <1>3, <1>4, <1>5, ActiveStep DEF ProcInv

LEMMA BeginType == \A m \in SaveRecord : Begin("save", m) \in WriteRecord
BY DEF Begin, WriteRecord

LEMMA LoadKeeps == ASSUME DirInv, NEW p \in Procs, Load(p), UNCHANGED allow PROVE DirInv'
<1>1. FilesOK'
  BY SpendOK DEF Load, DirInv, TypeOK
<1>2. /\ pr[p] \in ProcRecord /\ pr \in [Procs -> ProcRecord] /\ past \in PastRecord
      /\ pr[p].pc = "load" /\ dir.save.seen \in SaveFile
  BY DEF Load, At, DirInv, TypeOK, FileOf
<1>3. PICK m \in load_save_data(dir.save.seen) :
        /\ Set(p, [pr[p] EXCEPT !.pc = "persisting", !.mem = m, !.w = Begin("save", m)])
        /\ past' = [past EXCEPT !.minted = IF m.id > @ THEN m.id ELSE @]
  BY DEF Load
<1>4. m \in SaveRecord
  <2>1. past.minted + 1 \in Nat
    BY <1>2 DEF PastRecord
  <2>2. CASE IsSave(dir.save.seen)
    BY <1>2, <1>3, <2>2 DEF load_save_data, IsSave, SaveFile
  <2>3. CASE ~IsSave(dir.save.seen)
    BY <1>3, <2>1, <2>3 DEF load_save_data, SaveRecord
  <2> QED BY <2>2, <2>3
<1>5. past.addresses /= {} /\ ~past.unsure =>
        past.addresses = {m.id} /\ past.settled \subseteq m.friends
  BY <1>3 DEF DirInv, IdentityKept, load_save_data
<1>6. /\ past' \in PastRecord /\ past'.addresses = past.addresses
      /\ past'.settled = past.settled /\ past'.unsure = past.unsure
  <2>1. m.id \in Nat
    BY <1>4 DEF SaveRecord
  <2> QED BY <1>2, <1>3, <2>1 DEF PastRecord
<1> DEFINE r == [pr[p] EXCEPT !.pc = "persisting", !.mem = m, !.w = Begin("save", m)]
<1>7. r \in ProcRecord /\ r.pc = "persisting" /\ r.mem = m /\ r.w = Begin("save", m)
  BY <1>2, <1>4, BeginType DEF ProcRecord, Ways
<1>8. pr' = [pr EXCEPT ![p] = r] /\ UNCHANGED <<dir, lock>>
  BY <1>3 DEF Load, Set
<1> HIDE DEF r
<1>9. "persisting" \in Saving /\ pr[p].pc \in Owning
  BY <1>2 DEF Saving, Owning
<1> QED BY <1>1, <1>4, <1>5, <1>6, <1>7, <1>8, <1>9, SaveBegins

LEMMA LoadRefusedKeeps ==
  ASSUME DirInv, NEW p \in Procs, LoadRefused(p), FilesOK' PROVE DirInv'
<1>1. pr[p].pc = "load" /\ ~Writing(pr[p].w)
  BY DEF LoadRefused, At, DirInv, ProcInv, WritesWhere, Saving
<1> QED BY <1>1, LeaveStep DEF LoadRefused

LEMMA SeedKeeps == ASSUME DirInv, NEW p \in Procs, Seed(p), UNCHANGED allow PROVE DirInv'
<1>1. FilesOK'
  BY SpendOK DEF Seed, DirInv, TypeOK
<1>2. /\ pr[p] \in ProcRecord /\ pr \in [Procs -> ProcRecord] /\ past \in PastRecord
      /\ pr[p].pc = "seeding" /\ ProcInv(p) /\ pr[p].mem \in SaveRecord /\ pr[p].rules \subseteq Friends
  BY DEF Seed, At, DirInv, TypeOK, ProcInv, InMemory, Using, ProcRecord
<1>3. PICK f \in pr[p].rules \ pr[p].mem.friends :
        LET m == [pr[p].mem EXCEPT !.friends = @ \cup {f}]
        IN  Set(p, [pr[p] EXCEPT !.pc = "adding", !.mem = m, !.w = Begin("save", m)])
  BY DEF Seed
<1> DEFINE m == [pr[p].mem EXCEPT !.friends = @ \cup {f}]
           r == [pr[p] EXCEPT !.pc = "adding", !.mem = m, !.w = Begin("save", m)]
<1>4. m \in SaveRecord /\ m.id = pr[p].mem.id /\ pr[p].mem.friends \subseteq m.friends
  <2>1. pr[p].mem.friends \cup {f} \in SUBSET Friends
    BY <1>2, <1>3 DEF SaveRecord
  <2> QED BY <1>2, <2>1 DEF SaveRecord
<1>5. pr' = [pr EXCEPT ![p] = r] /\ UNCHANGED <<dir, lock, past>>
  BY <1>3 DEF Seed, Set
<1> HIDE DEF m
<1>6. r \in ProcRecord /\ r.pc = "adding" /\ r.mem = m /\ r.w = Begin("save", m)
  BY <1>2, <1>4, BeginType DEF ProcRecord, Ways
<1> HIDE DEF r
<1>7. /\ past.addresses /= {}
      /\ ~past.unsure => past.addresses = {m.id} /\ past.settled \subseteq m.friends
  BY <1>2, <1>4 DEF ProcInv, InMemory, Using
<1>8. "adding" \in Saving /\ pr[p].pc \in Owning /\ ~PrintId(p)
  BY <1>2 DEF Saving, Owning, Using, ProcInv, PrintIdWhere
<1> QED BY <1>1, <1>2, <1>4, <1>5, <1>6, <1>7, <1>8, SaveBegins

LEMMA StopSavesKeeps ==
  ASSUME DirInv, NEW p \in Procs, At(p, "up"), StopSaves(p), UNCHANGED <<dir, lock, past>>, FilesOK'
  PROVE  DirInv'
<1> DEFINE m == pr[p].mem
           r == [pr[p] EXCEPT !.pc = "saving", !.w = Begin("save", m)]
<1>1. /\ pr[p] \in ProcRecord /\ pr \in [Procs -> ProcRecord] /\ past \in PastRecord
      /\ pr[p].pc = "up" /\ ProcInv(p) /\ m \in SaveRecord
  BY DEF At, DirInv, TypeOK, ProcInv, InMemory, Using, ProcRecord
<1>2. pr' = [pr EXCEPT ![p] = r]
  BY DEF StopSaves, Set
<1>3. r \in ProcRecord /\ r.pc = "saving" /\ r.mem = m /\ r.w = Begin("save", m)
  BY <1>1, BeginType DEF ProcRecord, Ways
<1> HIDE DEF r
<1>4. /\ past.addresses /= {}
      /\ ~past.unsure => past.addresses = {m.id} /\ past.settled \subseteq m.friends
  BY <1>1 DEF ProcInv, InMemory, Using
<1>5. "saving" \in Saving /\ pr[p].pc \in Owning /\ ~PrintId(p)
  BY <1>1 DEF Saving, Owning, Using, ProcInv, PrintIdWhere
<1> HIDE DEF m
<1> QED BY <1>1, <1>2, <1>3, <1>4, <1>5, SaveBegins

\* The end of a save, told or not: what is promised is on the disk.
LEMMA Settles ==
  ASSUME DirInv, NEW p \in Procs, pr[p].pc \in Saving, ~Writing(pr[p].w), UNCHANGED dir,
         past' \in PastRecord, past'.settled = Settle(p), past'.unsure = past.unsure,
         \/ past'.addresses = past.addresses /\ past.addresses /= {}
         \/ past'.addresses = past.addresses \cup {pr[p].mem.id} /\ pr[p].w.step = "done"
  PROVE  /\ SettledAfterTold' /\ IdentityKept' /\ past'.addresses /= {}
         /\ ~past'.unsure => past'.addresses = {pr[p].mem.id} /\ past'.settled \subseteq pr[p].mem.friends
<1> DEFINE m == pr[p].mem
<1>1. ProcInv(p) /\ m \in SaveRecord
  BY DEF DirInv, ProcInv, InMemory, Using, Saving
<1>2. past'.addresses /= {}
  OBVIOUS
<1>3. CASE past.unsure
  BY <1>2, <1>3 DEF SettledAfterTold, IdentityKept
<1>4. CASE ~past.unsure
  <2>1. past.addresses /= {} => past.addresses = {m.id} /\ past.settled \subseteq m.friends
    BY <1>1, <1>4 DEF ProcInv, InMemory, Using, Saving
  <2>2. past.addresses = {} => past.settled = {}
    BY DEF DirInv, SettledAfterTold
  <2>3. past'.addresses = {m.id}
    BY <2>1
  <2>4. past'.settled \subseteq m.friends
    BY <2>1, <2>2 DEF Settle
  <2>5. CASE pr[p].w.step = "done"
    <3>1. dir.save.sure = {m} /\ dir.save.seen = m
      BY <1>1, <1>4, <2>5 DEF ProcInv, SaveUnderWay
    <3>2. IsSave(m)
      BY <1>1, FilesAssumption DEF IsSave
    <3> QED BY <1>2, <2>3, <2>4, <3>1, <3>2 DEF SettledAfterTold, IdentityKept, IsSave
  <2>6. CASE pr[p].w.step /= "done"
    <3>1. past'.settled = past.settled /\ past'.addresses = past.addresses
      BY <2>6 DEF Settle
    <3>2. IdentityKept'
      BY <3>1 DEF DirInv, IdentityKept, IsSave
    <3> QED BY <1>2, <2>3, <2>4, <3>2 DEF SettledAfterTold
  <2> QED BY <2>5, <2>6
<1> QED BY <1>3, <1>4

\* A daemon goes on after a save.
LEMMA SavedStep ==
  ASSUME DirInv, NEW p \in Procs, pr[p].pc \in Saving, ~Writing(pr[p].w), ~PrintId(p),
         NEW l \in {"seeding", "iostop", "unguard"}, Goto(p, l),
         UNCHANGED <<dir, lock>>, FilesOK',
         past' \in PastRecord, past'.settled = Settle(p), past'.unsure = past.unsure,
         \/ past'.addresses = past.addresses /\ past.addresses /= {}
         \/ past'.addresses = past.addresses \cup {pr[p].mem.id} /\ pr[p].w.step = "done"
  PROVE  DirInv'
<1> DEFINE r == [pr[p] EXCEPT !.pc = l]
<1>1. pr[p] \in ProcRecord /\ pr \in [Procs -> ProcRecord] /\ ProcInv(p) /\ pr[p].mem \in SaveRecord
  BY DEF DirInv, TypeOK, ProcInv, InMemory, Using, Saving
<1>2. r \in ProcRecord /\ r.pc = l /\ r.w = pr[p].w /\ r.mem = pr[p].mem
  BY <1>1 DEF ProcRecord, Ways
<1>3. pr' = [pr EXCEPT ![p] = r]
  BY DEF Goto, Set
<1> HIDE DEF r
<1>4. pr'[p] = r
  BY <1>1, <1>3
<1>5. /\ SettledAfterTold' /\ IdentityKept' /\ past'.addresses /= {}
      /\ ~past'.unsure => past'.addresses = {pr[p].mem.id} /\ past'.settled \subseteq pr[p].mem.friends
  BY Settles
<1>6. LockHeld(p)' /\ PidNamed(p)' /\ PrintIdWhere(p)'
  BY <1>1, <1>2, <1>4 DEF LockHeld, PidNamed, PrintIdWhere, ProcInv, PrintId, Owning, Using, Saving
<1>7. Publishing(p)' /\ SaveUnderWay(p)' /\ WritesWhere(p)'
  BY <1>2, <1>4 DEF Publishing, SaveUnderWay, WritesWhere, Saving, Writing
<1>8. InMemory(p)'
  BY <1>1, <1>2, <1>4, <1>5 DEF InMemory
<1>9. TypeOK'
  BY <1>2, <1>3 DEF DirInv, TypeOK
<1> QED BY <1>3, <1>5, <1>6, <1>7, <1>8, <1>9, ActiveStep DEF ProcInv, Saving

LEMMA PastTypes ==
  ASSUME DirInv, NEW p \in Procs, pr[p].pc \in Saving
  PROVE  Settle(p) \in SUBSET Friends /\ past.addresses \cup {pr[p].mem.id} \in SUBSET Nat
<1>1. pr[p].mem \in SaveRecord /\ past \in PastRecord
  BY DEF DirInv, TypeOK, ProcInv, InMemory, Using, Saving
<1>2. pr[p].mem.friends \subseteq Friends /\ pr[p].mem.id \in Nat
  BY <1>1 DEF SaveRecord
<1> QED BY <1>1, <1>2 DEF Settle, PastRecord

LEMMA PersistedKeeps == ASSUME DirInv, NEW p \in Procs, Persisted(p), UNCHANGED allow PROVE DirInv'
<1>1. FilesOK'
  BY SpendOK DEF Persisted, DirInv, TypeOK
<1>2. /\ pr[p] \in ProcRecord /\ pr \in [Procs -> ProcRecord] /\ past \in PastRecord /\ ProcInv(p)
      /\ pr[p].pc = "persisting" /\ pr[p].pc \in Saving /\ ~Writing(pr[p].w)
  BY DEF Persisted, At, DirInv, TypeOK, Saving
<1>3. CASE pr[p].w.step = "failed"
  BY <1>1, <1>2, <1>3, LeaveStep DEF Persisted
<1>4. CASE pr[p].w.step /= "failed"
  <2>1. pr[p].w.step = "done"
    BY <1>2, <1>4 DEF ProcInv, SaveUnderWay, Writing, ProcRecord, WriteRecord
  <2>2. past' = [past EXCEPT !.addresses = @ \cup {pr[p].mem.id}, !.settled = Settle(p)]
    BY <1>4 DEF Persisted
  <2>3. /\ past' \in PastRecord /\ past'.settled = Settle(p) /\ past'.unsure = past.unsure
        /\ past'.addresses = past.addresses \cup {pr[p].mem.id}
    BY <1>2, <2>2, PastTypes DEF PastRecord
  <2>4. CASE ~PrintId(p)
    <3>1. Goto(p, "seeding")
      BY <1>4, <2>4 DEF Persisted, Goto
    <3> QED BY <1>1, <1>2, <2>1, <2>3, <2>4, <3>1, SavedStep DEF Persisted
  <2>5. CASE PrintId(p)
    <3>1. pr' = [pr EXCEPT ![p] = Gone] /\ UNCHANGED <<dir, lock>>
      BY <1>4, <2>5 DEF Persisted, Set
    <3>2. pr'[p] = Gone
      BY <1>2, <3>1
    <3>3. ProcInv(p)'
      BY <3>2, GoneRecord, IdleInv DEF PrintIdWhere
    <3>4. SettledAfterTold' /\ IdentityKept'
      BY <1>2, <2>1, <2>3, <3>1, Settles
    <3>5. TypeOK'
      BY <1>1, <2>3, <3>1, GoneRecord DEF DirInv, TypeOK
    <3> QED BY <1>2, <3>1, <3>3, <3>4, <3>5, ActiveStep
  <2> QED BY <2>4, <2>5
<1> QED BY <1>3, <1>4

LEMMA FriendSavedKeeps == ASSUME DirInv, NEW p \in Procs, FriendSaved(p), UNCHANGED allow PROVE DirInv'
<1>1. FilesOK'
  BY SpendOK DEF FriendSaved, DirInv, TypeOK
<1>2. /\ past \in PastRecord /\ past.addresses /= {} /\ ~PrintId(p)
      /\ pr[p].pc = "adding" /\ pr[p].pc \in Saving /\ ~Writing(pr[p].w)
  BY DEF FriendSaved, At, DirInv, TypeOK, Saving, ProcInv, InMemory, Using, PrintIdWhere
<1>3. /\ past' \in PastRecord /\ past'.settled = Settle(p) /\ past'.unsure = past.unsure
      /\ past'.addresses = past.addresses
  BY <1>2, PastTypes DEF FriendSaved, PastRecord
<1> QED BY <1>1, <1>2, <1>3, SavedStep DEF FriendSaved

LEMMA StopSavedKeeps == ASSUME DirInv, NEW p \in Procs, StopSaved(p), UNCHANGED allow PROVE DirInv'
<1>1. FilesOK'
  BY SpendOK DEF StopSaved, DirInv, TypeOK
<1>2. /\ past \in PastRecord /\ past.addresses /= {} /\ ~PrintId(p)
      /\ pr[p].pc = "saving" /\ pr[p].pc \in Saving /\ ~Writing(pr[p].w)
  BY DEF StopSaved, At, DirInv, TypeOK, Saving, ProcInv, InMemory, Using, PrintIdWhere
<1>3. /\ past' \in PastRecord /\ past'.settled = Settle(p) /\ past'.unsure = past.unsure
      /\ past'.addresses = past.addresses
  BY <1>2, PastTypes DEF StopSaved, PastRecord
<1>4. CASE Client(p)
  BY <1>1, <1>2, <1>3, <1>4, SavedStep DEF StopSaved
<1>5. CASE ~Client(p)
  BY <1>1, <1>2, <1>3, <1>5, SavedStep DEF StopSaved
<1> QED BY <1>4, <1>5

----------------------------------------------------------------------------
(* The steps of a write. *)

\* What one step of posix_write() does to the write and to the file.
LEMMA PosixWrite ==
  ASSUME NEW w \in WriteRecord, Writing(w), NEW V, NEW f \in FileOf(V),
         w.val \in V, NoFile \in V, Torn \in V
  PROVE  LET s == posix_write(w, f)
         IN  /\ s[1] \in WriteRecord /\ s[2] \in FileOf(V)
             /\ s[1].path = w.path /\ s[1].val = w.val /\ s[1].step /= "idle"
             /\ w.path = "pid" /\ w.step /= "dirsync" => s[1].step /= "dirsync"
             /\ s[1].step = "rename" => s[1].synced
             /\ s[1].step = "dirsync" => s[2].seen = w.val
             /\ s[1].step = "done" => w.step = "dirsync" \/ s[2].seen = w.val
             /\ w.step = "dirsync" => s[2].seen = f.seen /\ s[2].sure = {f.seen}
             /\ w.path = "save" /\ s[1].step = "done" => w.step = "dirsync"
             /\ f.seen /= Squat /\ (w.step = "rename" => w.synced) =>
                  s[2].sure \cup {s[2].seen} \subseteq f.sure \cup {f.seen, w.val}
<1> DEFINE s == posix_write(w, f)
<1>1. CASE w.step = "stage"
  <2>1. s = <<[w EXCEPT !.step = "sync"], RemoveSquat(f)>>
    BY <1>1 DEF posix_write
  <2>2. RemoveSquat(f) \in FileOf(V)
    BY DEF RemoveSquat, FileOf
  <2> QED BY <1>1, <2>1, <2>2 DEF WriteRecord, RemoveSquat, FileOf
<1>2. CASE w.step = "sync"
  <2>1. s = <<[w EXCEPT !.step = "rename", !.synced = TRUE], f>>
    BY <1>2 DEF posix_write
  <2> DEFINE v == [w EXCEPT !.step = "rename", !.synced = TRUE]
  <2>2. v \in WriteRecord /\ v.path = w.path /\ v.val = w.val /\ v.step = "rename" /\ v.synced
    BY DEF WriteRecord
  <2>3. s[1] = v /\ s[2] = f
    BY <2>1
  <2> HIDE DEF v, s
  <2> QED BY <1>2, <2>2, <2>3 DEF s
<1>3. CASE w.step = "rename"
  <2>1. s = <<[w EXCEPT !.step = IF w.path = "save" THEN "dirsync" ELSE "done"], Renamed(f, w)>>
    BY <1>3 DEF posix_write
  <2>2. Renamed(f, w) \in FileOf(V) /\ Renamed(f, w).seen = w.val
    BY DEF Renamed, FileOf
  <2> QED BY <1>3, <2>1, <2>2 DEF WriteRecord, Renamed, FileOf
<1>4. CASE w.step = "dirsync"
  <2>1. s = <<[w EXCEPT !.step = "done"], [f EXCEPT !.sure = {f.seen}]>>
    BY <1>4 DEF posix_write
  <2> QED BY <1>4, <2>1 DEF WriteRecord, FileOf
<1> QED BY <1>1, <1>2, <1>3, <1>4 DEF Writing

LEMMA WriteStepKeeps == ASSUME DirInv, NEW p \in Procs, WriteStep(p), UNCHANGED allow PROVE DirInv'
<1> DEFINE w == pr[p].w
           s == posix_write(w, dir[w.path])
           r == [pr[p] EXCEPT !.w = s[1]]
<1>1. FilesOK'
  BY SpendOK DEF WriteStep, DirInv, TypeOK
<1>2. /\ pr[p] \in ProcRecord /\ pr \in [Procs -> ProcRecord] /\ ProcInv(p) /\ w \in WriteRecord
      /\ Writing(w) /\ pr[p].pc \in Saving \cup {"publishing"}
      /\ dir \in [save : FileOf(SaveFile), pid : FileOf(PidFile)]
  BY DEF WriteStep, DirInv, TypeOK, ProcRecord, ProcInv, WritesWhere
<1>3. /\ pr' = [pr EXCEPT ![p] = r] /\ dir' = [dir EXCEPT ![w.path] = s[2]]
      /\ UNCHANGED <<lock, past>>
  BY DEF WriteStep, Set
<1>4. ASSUME s[1] \in WriteRecord
      PROVE  r \in ProcRecord /\ r.pc = pr[p].pc /\ r.mem = pr[p].mem /\ r.w = s[1]
  BY <1>2, <1>4 DEF ProcRecord
<1> HIDE DEF s, r
<1>5. CASE pr[p].pc = "publishing"
  <2>1. w.path = "pid" /\ w.val = p /\ w.step /= "dirsync" /\ ~PrintId(p) /\ lock = p
    BY <1>2, <1>5 DEF ProcInv, Publishing, LockHeld, PrintIdWhere
  <2>2. dir[w.path] = dir.pid /\ dir.pid \in FileOf(PidFile) /\ w.val \in PidFile
    BY <1>2, <2>1 DEF PidFile
  <2>3. /\ s[1] \in WriteRecord /\ s[2] \in FileOf(PidFile)
        /\ s[1].path = "pid" /\ s[1].val = p /\ s[1].step /= "dirsync"
        /\ s[1].step = "done" => s[2].seen = p
    BY <1>2, <2>1, <2>2, PosixWrite DEF s, PidFile
  <2>4. dir' \in [save : FileOf(SaveFile), pid : FileOf(PidFile)] /\ dir'.save = dir.save /\ dir'.pid = s[2]
    BY <1>2, <1>3, <2>1, <2>3
  <2>5. r \in ProcRecord /\ r.pc = pr[p].pc /\ r.w = s[1] /\ pr'[p] = r
    BY <1>2, <1>3, <1>4, <2>3
  <2>6. TypeOK' /\ SettledAfterTold' /\ IdentityKept'
    BY <1>1, <1>3, <2>4, <2>5 DEF DirInv, TypeOK, SettledAfterTold, IdentityKept
  <2>7. LockHeld(p)' /\ PidNamed(p)' /\ PrintIdWhere(p)'
    BY <1>3, <1>5, <2>1, <2>5 DEF LockHeld, PidNamed, PrintIdWhere, PrintId, Owning, Using
  <2>8. Publishing(p)' /\ SaveUnderWay(p)' /\ InMemory(p)' /\ WritesWhere(p)'
    BY <1>5, <2>3, <2>4, <2>5 DEF Publishing, SaveUnderWay, InMemory, WritesWhere, Saving, Using
  <2> QED BY <1>3, <1>5, <2>6, <2>7, <2>8, ActiveStep DEF ProcInv
<1>6. CASE pr[p].pc \in Saving
  <2> DEFINE m == pr[p].mem
  <2>1. /\ w.path = "save" /\ w.val = m /\ (w.step = "rename" => w.synced)
        /\ w.step = "dirsync" => dir.save.seen = m
        /\ m \in SaveRecord
    BY <1>2, <1>6 DEF ProcInv, SaveUnderWay, InMemory, Using, Saving
  <2>2. dir[w.path] = dir.save /\ dir.save \in FileOf(SaveFile) /\ w.val \in SaveFile
    BY <1>2, <2>1 DEF SaveFile
  <2>3. /\ s[1] \in WriteRecord /\ s[2] \in FileOf(SaveFile)
        /\ s[1].path = "save" /\ s[1].val = m /\ s[1].step /= "idle"
        /\ s[1].step = "rename" => s[1].synced
        /\ s[1].step \in {"dirsync", "done"} => s[2].seen = m
        /\ s[1].step = "done" => s[2].sure = {m}
        /\ dir.save.seen /= Squat => s[2].sure \cup {s[2].seen} \subseteq dir.save.sure \cup {dir.save.seen, m}
    BY <1>2, <2>1, <2>2, PosixWrite DEF s, SaveFile
  <2>4. dir' \in [save : FileOf(SaveFile), pid : FileOf(PidFile)] /\ dir'.save = s[2] /\ dir'.pid = dir.pid
    BY <1>2, <1>3, <2>1, <2>3
  <2>5. r \in ProcRecord /\ r.pc = pr[p].pc /\ r.w = s[1] /\ r.mem = m /\ pr'[p] = r
    BY <1>2, <1>3, <1>4, <2>3
  <2>6. TypeOK' /\ SettledAfterTold'
    BY <1>1, <1>3, <2>4, <2>5 DEF DirInv, TypeOK, SettledAfterTold
  <2>7. IdentityKept'
    <3> SUFFICES ASSUME past.addresses /= {}, ~past.unsure, NEW x \in s[2].sure \cup {s[2].seen}
                 PROVE  IsSave(x) /\ past.addresses = {x.id} /\ past.settled \subseteq x.friends
      BY <1>3, <2>4 DEF IdentityKept, IsSave
    <3>1. \A y \in dir.save.sure \cup {dir.save.seen} :
            IsSave(y) /\ past.addresses = {y.id} /\ past.settled \subseteq y.friends
      BY DEF DirInv, IdentityKept
    <3>2. IsSave(m) /\ past.addresses = {m.id} /\ past.settled \subseteq m.friends
      BY <1>2, <1>6, <2>1, FilesAssumption DEF ProcInv, InMemory, Using, Saving, IsSave
    <3>3. dir.save.seen /= Squat
      BY <3>1 DEF IsSave
    <3> QED BY <2>3, <3>1, <3>2, <3>3
  <2>8. LockHeld(p)' /\ PidNamed(p)' /\ PrintIdWhere(p)'
    BY <1>2, <1>3, <2>4, <2>5 DEF ProcInv, LockHeld, PidNamed, PrintIdWhere, PrintId
  <2>9. Publishing(p)' /\ SaveUnderWay(p)' /\ InMemory(p)' /\ WritesWhere(p)'
    BY <1>2, <1>3, <1>6, <2>3, <2>4, <2>5
    DEF ProcInv, Publishing, SaveUnderWay, InMemory, WritesWhere, Saving
  <2> QED BY <1>3, <1>6, <2>6, <2>7, <2>8, <2>9, ActiveStep DEF ProcInv, Saving
<1> QED BY <1>2, <1>5, <1>6

LEMMA WriteErrorKeeps ==
  ASSUME DirInv, NEW p \in Procs, WriteError(p), FilesOK' PROVE DirInv'
<1> DEFINE w == pr[p].w
           v == WriteFails(w)
           r == [pr[p] EXCEPT !.w = v]
<1>1. /\ pr[p] \in ProcRecord /\ pr \in [Procs -> ProcRecord] /\ ProcInv(p) /\ w \in WriteRecord
      /\ Writing(w) /\ pr[p].pc \in Saving \cup {"publishing"} /\ past \in PastRecord
  BY DEF WriteError, DirInv, TypeOK, ProcRecord, ProcInv, WritesWhere
<1>2. /\ v \in WriteRecord /\ v.path = w.path /\ v.val = w.val
      /\ v.step = IF w.step = "dirsync" THEN "done" ELSE "failed"
  BY <1>1 DEF WriteFails, WriteRecord
<1>3. pr' = [pr EXCEPT ![p] = r] /\ UNCHANGED <<dir, lock>>
  BY DEF WriteError, Set
<1> HIDE DEF v
<1>4. r \in ProcRecord /\ r.pc = pr[p].pc /\ r.mem = pr[p].mem /\ r.w = v
  BY <1>1, <1>2 DEF ProcRecord
<1> HIDE DEF r
<1>5. pr'[p] = r
  BY <1>1, <1>3
<1>6. /\ past' \in PastRecord /\ past'.addresses = past.addresses /\ past'.settled = past.settled
      /\ past'.unsure = (past.unsure \/ w.step = "dirsync")
  <2>1. past' = [past EXCEPT !.unsure = past.unsure \/ w.step = "dirsync"]
    BY DEF WriteError
  <2>2. (past.unsure \/ w.step = "dirsync") \in BOOLEAN
    OBVIOUS
  <2> QED BY <1>1, <2>1, <2>2 DEF PastRecord
<1>7. TypeOK' /\ SettledAfterTold'
  BY <1>3, <1>4, <1>6 DEF DirInv, TypeOK, SettledAfterTold
<1>8. IdentityKept'
  BY <1>3, <1>6 DEF DirInv, IdentityKept, IsSave
<1>9. LockHeld(p)' /\ PidNamed(p)' /\ PrintIdWhere(p)'
  BY <1>1, <1>3, <1>4, <1>5 DEF ProcInv, LockHeld, PidNamed, PrintIdWhere, PrintId
<1>10. Publishing(p)' /\ WritesWhere(p)'
  BY <1>1, <1>2, <1>3, <1>4, <1>5 DEF ProcInv, Publishing, WritesWhere, Writing
<1>11. SaveUnderWay(p)' /\ InMemory(p)'
  BY <1>1, <1>2, <1>3, <1>4, <1>5, <1>6 DEF ProcInv, SaveUnderWay, InMemory
<1>12. pr[p].pc \notin {"off", "guard"}
  BY <1>1 DEF Saving
<1> QED BY <1>3, <1>7, <1>8, <1>9, <1>10, <1>11, <1>12, ActiveStep DEF ProcInv

----------------------------------------------------------------------------
(* Starting, signals, the client's threads. *)

LEMMA StartKeeps == ASSUME DirInv, NEW p \in Procs, Start(p), FilesOK' PROVE DirInv'
<1> DEFINE l == IF PrintId(p) THEN "load" ELSE "guard"
           r == [Gone EXCEPT !.pc = l]
<1>1. r \in ProcRecord /\ r.pc = l /\ ~Writing(r.w)
  BY DEF Gone, NoWrite, ProcRecord, WriteRecord, Ways, Writing
<1>2. pr' = [pr EXCEPT ![p] = r] /\ UNCHANGED <<dir, lock, past>> /\ pr[p].pc = "off" /\ Apart(p)
  BY DEF Start, Set, At
<1> HIDE DEF r
<1>3. pr'[p] = r /\ \A q \in Procs : q /= p => pr'[q] = pr[q]
  BY <1>2 DEF DirInv, TypeOK
<1>4. ProcInv(p)'
  <2>1. LockHeld(p)' /\ PidNamed(p)' /\ PrintIdWhere(p)'
    BY <1>1, <1>3 DEF LockHeld, PidNamed, PrintIdWhere, PrintId, Owning, Using
  <2>2. Publishing(p)' /\ SaveUnderWay(p)' /\ InMemory(p)' /\ WritesWhere(p)'
    BY <1>1, <1>3 DEF Publishing, SaveUnderWay, InMemory, WritesWhere, Writing, Saving, Using
  <2> QED BY <2>1, <2>2 DEF ProcInv
<1>5. ASSUME NEW q \in Procs, q /= p PROVE ProcInv(q)'
  <2>1. ProcInv(q)
    BY DEF DirInv
  <2>2. LockHeld(q)'
    BY <1>2, <1>3, <1>5, <2>1 DEF ProcInv, LockHeld, PrintId
  <2> QED BY <1>2, <1>3, <1>5, <2>1, <2>2, OtherInv
<1>6. TypeOK' /\ SettledAfterTold' /\ IdentityKept'
  BY <1>1, <1>2 DEF DirInv, TypeOK, SettledAfterTold, IdentityKept
<1>7. PrintIdAlone'
  <2> SUFFICES ASSUME NEW a \in Procs, NEW b \in Procs,
                      PrintId(a), pr'[a].pc /= "off", pr'[b].pc /= "off"
               PROVE  a = b
    BY DEF PrintIdAlone, PrintId
  <2>1. CASE a /= p /\ b /= p
    BY <1>3, <2>1 DEF DirInv, PrintIdAlone
  <2>2. CASE a = p \/ b = p
    BY <1>2, <1>3, <2>2 DEF Apart
  <2> QED BY <2>1, <2>2
<1> QED BY <1>4, <1>5, <1>6, <1>7 DEF DirInv

LEMMA SignalKeeps ==
  ASSUME DirInv, NEW p \in Procs, NEW r \in ProcRecord, Signal(p, r), pr[p].pc /= "off",
         r.pc = pr[p].pc, r.mem = pr[p].mem, r.w = pr[p].w, FilesOK'
  PROVE  DirInv'
<1>1. CASE ~pr[p].armed
  BY <1>1, EndStep DEF Signal, Dies
<1>2. CASE pr[p].armed /\ pr[p].pc /= "guard"
  BY <1>2, FlagStep DEF Signal, Set
<1>3. CASE pr[p].armed /\ pr[p].pc = "guard"
  <2>1. pr' = [pr EXCEPT ![p] = r] /\ UNCHANGED <<dir, lock, past>> /\ pr \in [Procs -> ProcRecord]
    BY <1>3 DEF Signal, Set, DirInv, TypeOK
  <2>2. \A q \in Procs : pr'[q].pc = pr[q].pc /\ pr'[q].mem = pr[q].mem /\ pr'[q].w = pr[q].w
    BY <2>1
  <2>3. ASSUME NEW q \in Procs PROVE ProcInv(q)'
    <3>1. ProcInv(q)
      BY DEF DirInv
    <3> QED
      BY <2>1, <2>2, <3>1
      DEF ProcInv, LockHeld, PidNamed, Publishing, SaveUnderWay, InMemory, WritesWhere,
          Writing, PrintIdWhere, PrintId
  <2>4. TypeOK' /\ SettledAfterTold' /\ IdentityKept'
    BY <2>1 DEF DirInv, TypeOK, SettledAfterTold, IdentityKept
  <2>5. PrintIdAlone'
    BY <2>2 DEF DirInv, PrintIdAlone, PrintId
  <2> QED BY <2>3, <2>4, <2>5 DEF DirInv
<1> QED BY <1>1, <1>2, <1>3

LEMMA ReloadCommandKeeps == ASSUME DirInv, NEW p \in Procs, ReloadCommand(p), FilesOK' PROVE DirInv'
<1> DEFINE r == [pr[p] EXCEPT !.hup = TRUE]
<1>1. pr[p] \in ProcRecord
  BY DEF DirInv, TypeOK
<1>2. r \in ProcRecord /\ r.pc = pr[p].pc /\ r.mem = pr[p].mem /\ r.w = pr[p].w
  BY <1>1 DEF ProcRecord
<1>3. Signal(p, r) /\ pr[p].pc /= "off"
  BY DEF ReloadCommand
<1> HIDE DEF r
<1> QED BY <1>2, <1>3, SignalKeeps

LEMMA TerminateKeeps == ASSUME DirInv, NEW p \in Procs, Terminate(p), FilesOK' PROVE DirInv'
<1> DEFINE r == [pr[p] EXCEPT !.term = TRUE]
<1>1. pr[p] \in ProcRecord
  BY DEF DirInv, TypeOK
<1>2. r \in ProcRecord /\ r.pc = pr[p].pc /\ r.mem = pr[p].mem /\ r.w = pr[p].w
  BY <1>1 DEF ProcRecord
<1>3. Signal(p, r) /\ pr[p].pc /= "off"
  BY DEF Terminate
<1> HIDE DEF r
<1> QED BY <1>2, <1>3, SignalKeeps

LEMMA UpKeeps == ASSUME DirInv, NEW p \in Procs, Up(p), UNCHANGED allow PROVE DirInv'
<1> DEFINE r == [pr[p] EXCEPT !.pc = "up", !.armed = TRUE]
<1>1. FilesOK' /\ UNCHANGED <<dir, lock, past>>
  BY SpendOK DEF Up, DirInv, TypeOK
<1>2. pr[p].pc = "seeding" /\ ~Writing(pr[p].w) /\ pr[p] \in ProcRecord
  BY DEF Up, At, DirInv, TypeOK, ProcInv, WritesWhere, Saving
<1>3. Set(p, r) \/ Leave(p)
  BY DEF Up
<1>4. CASE Leave(p)
  BY <1>1, <1>2, <1>4, LeaveStep
<1>5. CASE Set(p, r)
  <2>1. r \in ProcRecord /\ r.pc = "up" /\ r.mem = pr[p].mem /\ r.w = pr[p].w
    BY <1>2 DEF ProcRecord, Ways
  <2>2. pr' = [pr EXCEPT ![p] = r]
    BY <1>5 DEF Set
  <2> HIDE DEF r
  <2> QED BY <1>1, <1>2, <2>1, <2>2, GoOnStep DEF Using, Saving
<1> QED BY <1>3, <1>4, <1>5

LEMMA ServerReloadKeeps == ASSUME DirInv, NEW p \in Procs, ServerReload(p), UNCHANGED allow PROVE DirInv'
<1>1. FilesOK' /\ UNCHANGED <<dir, lock, past>>
  BY SpendOK DEF ServerReload, DirInv, TypeOK
<1>2. pr[p].pc = "up" /\ pr[p] \in ProcRecord
  BY DEF ServerReload, At, DirInv, TypeOK
<1>3. CASE files.rules = Bad
  <2> DEFINE r == [pr[p] EXCEPT !.hup = FALSE]
  <2>1. r \in ProcRecord /\ r.pc = pr[p].pc /\ r.mem = pr[p].mem /\ r.w = pr[p].w
    BY <1>2 DEF ProcRecord
  <2>2. pr' = [pr EXCEPT ![p] = r]
    BY <1>3 DEF ServerReload, Set
  <2> HIDE DEF r
  <2> QED BY <1>1, <1>2, <2>1, <2>2, FlagStep
<1>4. CASE files.rules /= Bad
  <2> DEFINE r == [pr[p] EXCEPT !.hup = FALSE, !.pc = "seeding", !.rules = files.rules]
  <2>1. files.rules \in SUBSET Friends
    BY <1>4 DEF DirInv, TypeOK, FilesOK, RulesFile
  <2>2. r \in ProcRecord /\ r.pc = "seeding" /\ r.mem = pr[p].mem /\ r.w = pr[p].w
    BY <1>2, <2>1 DEF ProcRecord, Ways
  <2>3. pr' = [pr EXCEPT ![p] = r]
    BY <1>4 DEF ServerReload, Set
  <2> HIDE DEF r
  <2> QED BY <1>1, <1>2, <2>2, <2>3, GoOnStep DEF Using, Saving
<1> QED BY <1>3, <1>4

LEMMA ClientReloadKeeps == ASSUME DirInv, NEW p \in Procs, ClientReload(p), UNCHANGED allow PROVE DirInv'
<1> DEFINE r == [pr[p] EXCEPT !.hup = FALSE]
<1>1. FilesOK' /\ UNCHANGED <<dir, lock, past>>
  BY SpendOK DEF ClientReload, DirInv, TypeOK
<1>2. pr[p].pc \notin {"off", "guard"} /\ pr[p] \in ProcRecord
  BY DEF ClientReload, DirInv, TypeOK
<1>3. r \in ProcRecord /\ r.pc = pr[p].pc /\ r.mem = pr[p].mem /\ r.w = pr[p].w
  BY <1>2 DEF ProcRecord
<1>4. pr' = [pr EXCEPT ![p] = r]
  BY DEF ClientReload, Set
<1> HIDE DEF r
<1> QED BY <1>1, <1>2, <1>3, <1>4, FlagStep

LEMMA IoStopKeeps == ASSUME DirInv, NEW p \in Procs, IoStop(p), UNCHANGED allow PROVE DirInv'
<1> DEFINE r == [pr[p] EXCEPT !.pc = "join"]
<1>1. FilesOK' /\ UNCHANGED <<dir, lock, past>>
  BY SpendOK DEF IoStop, DirInv, TypeOK
<1>2. pr[p].pc = "iostop" /\ pr[p] \in ProcRecord
  BY DEF IoStop, At, DirInv, TypeOK
<1>3. r \in ProcRecord /\ r.pc = "join" /\ r.mem = pr[p].mem /\ r.w = pr[p].w
  BY <1>2 DEF ProcRecord, Ways
<1>4. pr' = [pr EXCEPT ![p] = r]
  BY DEF IoStop, Goto, Set
<1> HIDE DEF r
<1> QED BY <1>1, <1>2, <1>3, <1>4, GoOnStep DEF Using, Saving

LEMMA JoinKeeps == ASSUME DirInv, NEW p \in Procs, Join(p), UNCHANGED allow PROVE DirInv'
<1>1. FilesOK' /\ UNCHANGED <<dir, lock, past>>
  BY SpendOK DEF Join, DirInv, TypeOK
<1>2. pr[p].pc = "join" /\ ~PrintId(p) /\ ~Writing(pr[p].w)
  BY DEF Join, At, DirInv, ProcInv, PrintIdWhere, WritesWhere, Saving
<1> QED BY <1>1, <1>2, RetreatStep DEF Join

\* A step that touches neither a process nor a file of the directory.
LEMMA AsideKeeps ==
  ASSUME DirInv, UNCHANGED <<dir, lock, pr, past>>, FilesOK' PROVE DirInv'
<1>1. ASSUME NEW q \in Procs PROVE ProcInv(q)'
  <2>1. ProcInv(q)
    BY DEF DirInv
  <2>2. LockHeld(q)'
    BY <2>1 DEF ProcInv, LockHeld, PrintId
  <2> QED BY <2>1, <2>2, OtherInv
<1>2. TypeOK' /\ SettledAfterTold' /\ IdentityKept' /\ PrintIdAlone'
  BY DEF DirInv, TypeOK, SettledAfterTold, IdentityKept, PrintIdAlone, PrintId
<1> QED BY <1>1, <1>2 DEF DirInv

LEMMA PowerCutKeeps == ASSUME DirInv, PowerCut, FilesOK' PROVE DirInv'
<1>1. \A q \in Procs : pr'[q] = Gone
  BY DEF PowerCut
<1>2. \A q \in Procs : ProcInv(q)'
  BY <1>1, GoneRecord, IdleInv DEF PrintIdWhere
<1>3. PICK s \in dir.save.sure, x \in dir.pid.sure :
        dir' = [save |-> FileHolding(s), pid |-> FileHolding(x)]
  BY DEF PowerCut
<1>4. s \in SaveFile /\ x \in PidFile
  BY DEF DirInv, TypeOK, FileOf
<1>5. TypeOK'
  BY <1>3, <1>4, GoneRecord DEF PowerCut, DirInv, TypeOK, FileHolding, FileOf
<1>6. IdentityKept' /\ SettledAfterTold'
  BY <1>3 DEF PowerCut, DirInv, IdentityKept, IsSave, FileHolding, SettledAfterTold
<1>7. PrintIdAlone'
  BY <1>1, GoneRecord DEF PrintIdAlone
<1> QED BY <1>2, <1>5, <1>6, <1>7 DEF DirInv

----------------------------------------------------------------------------
(* The theorems. *)

LEMMA DirInit == Init => DirInv
<1> SUFFICES ASSUME Init PROVE DirInv
  OBVIOUS
<1>1. PICK x \in {NoFile, Squat} : dir = [save |-> FileHolding(x), pid |-> FileHolding(NoFile)]
  BY DEF Init
<1>2. pr \in [Procs -> ProcRecord] /\ \A q \in Procs : pr[q] = Gone
  BY GoneRecord DEF Init
<1>3. FilesOK
  BY FilesAssumption DEF Init, FilesOK
<1>4. dir \in [save : FileOf(SaveFile), pid : FileOf(PidFile)] /\ past \in PastRecord
  BY <1>1 DEF Init, FileHolding, FileOf, SaveFile, PidFile, PastRecord
<1>5. \A q \in Procs : ProcInv(q)
  BY <1>2, GoneRecord
  DEF ProcInv, LockHeld, PidNamed, Publishing, SaveUnderWay, InMemory, WritesWhere, PrintIdWhere,
      Owning, Using, Saving
<1>6. PrintIdAlone /\ SettledAfterTold /\ IdentityKept
  BY <1>2, GoneRecord DEF Init, PrintIdAlone, SettledAfterTold, IdentityKept
<1> QED BY <1>2, <1>3, <1>4, <1>5, <1>6 DEF Init, DirInv, TypeOK

LEMMA DirNext == DirInv /\ [Next]_vars => DirInv'
<1> SUFFICES ASSUME DirInv, [Next]_vars PROVE DirInv'
  OBVIOUS
<1>0. FilesOK
  BY DEF DirInv, TypeOK
<1>1. ASSUME NEW p \in Procs, Runs(p), UNCHANGED allow PROVE DirInv'
  <2>1. CASE ServerStop(p)
    BY <1>0, <1>1, <2>1, StopSavesKeeps, SpendOK DEF ServerStop
  <2>2. CASE ClientStop(p)
    BY <1>0, <1>1, <2>2, StopSavesKeeps, SpendOK DEF ClientStop
  <2>3. CASE ClientApply(p)
    BY <1>0, <1>1, <2>3, AsideKeeps, SpendOK DEF ClientApply
  <2>4. CASE Guard(p) \/ Published(p) \/ Unguard(p) \/ Unlink(p) \/ Unlock(p)
    BY <1>1, <2>4, GuardKeeps, PublishedKeeps, UnguardKeeps, UnlinkKeeps, UnlockKeeps
  <2>5. CASE LoadRules(p) \/ Load(p) \/ Persisted(p) \/ Seed(p) \/ FriendSaved(p) \/ StopSaved(p)
    BY <1>1, <2>5, LoadRulesKeeps, LoadKeeps, PersistedKeeps, SeedKeeps, FriendSavedKeeps,
       StopSavedKeeps
  <2>6. CASE Up(p) \/ WriteStep(p) \/ ServerReload(p) \/ ClientReload(p) \/ IoStop(p) \/ Join(p)
    BY <1>1, <2>6, UpKeeps, WriteStepKeeps, ServerReloadKeeps, ClientReloadKeeps, IoStopKeeps,
       JoinKeeps
  <2> QED BY <1>1, <2>1, <2>2, <2>3, <2>4, <2>5, <2>6 DEF Runs
<1>2. CASE Outside
  <2>1. ASSUME NEW p \in Procs, Start(p), Spend("start") PROVE DirInv'
    BY <1>0, <2>1, StartKeeps, SpendOK DEF Start
  <2>2. ASSUME NEW p \in Procs, Kill(p), Spend("kill") PROVE DirInv'
    BY <1>0, <2>2, EndStep, SpendOK DEF Kill, Dies
  <2>3. ASSUME NEW p \in Procs, ReloadCommand(p), Spend("hup") PROVE DirInv'
    BY <1>0, <2>3, ReloadCommandKeeps, SpendOK DEF ReloadCommand, Signal, Dies
  <2>4. ASSUME NEW p \in Procs, Terminate(p), Spend("term") PROVE DirInv'
    BY <1>0, <2>4, TerminateKeeps, SpendOK DEF Terminate, Signal, Dies
  <2>5. ASSUME NEW p \in Procs, PipeEnds(p), Spend("hangup") PROVE DirInv'
    BY <1>0, <2>5, AsideKeeps, SpendOK DEF PipeEnds
  <2>6. ASSUME NEW p \in Procs, WriteError(p), Spend("error") PROVE DirInv'
    BY <1>0, <2>6, WriteErrorKeeps, SpendOK DEF WriteError
  <2>7. ASSUME NEW p \in Procs, LoadRefused(p), Spend("error") PROVE DirInv'
    BY <1>0, <2>7, LoadRefusedKeeps, SpendOK DEF LoadRefused
  <2>8. CASE PowerCut /\ Spend("cut")
    BY <1>0, <2>8, PowerCutKeeps, SpendOK DEF PowerCut
  <2>9. CASE TakePort /\ Spend("take")
    <3>1. /\ DOMAIN files' = DOMAIN files /\ files'.rules = files.rules /\ files'.edits = files.edits
          /\ DOMAIN allow' = DOMAIN allow /\ allow'.rules = allow.rules
      BY <1>0, <2>9 DEF TakePort, Spend, FilesOK
    <3>2. FilesOK'
      BY <1>0, <3>1 DEF FilesOK
    <3> QED BY <2>9, <3>2, AsideKeeps DEF TakePort
  <2>10. CASE Edit
    <3>1. files.edits + 1 \in 1 .. Len(allow.rules) /\ files.edits + 1 \in Nat
      BY <1>0, <2>10 DEF Edit, FilesOK
    <3>2. /\ DOMAIN files' = DOMAIN files /\ files'.rules = allow.rules[files.edits + 1]
          /\ files'.edits = files.edits + 1 /\ UNCHANGED allow
      BY <1>0, <2>10 DEF Edit, FilesOK
    <3>3. FilesOK'
      BY <1>0, <3>1, <3>2 DEF FilesOK
    <3> QED BY <2>10, <3>3, AsideKeeps DEF Edit
  <2> QED
    BY <1>2, <2>1, <2>2, <2>3, <2>4, <2>5, <2>6, <2>7, <2>8, <2>9, <2>10 DEF Outside
<1>3. CASE UNCHANGED vars
  BY <1>0, <1>3, AsideKeeps, SpendOK DEF vars
<1> QED BY <1>1, <1>2, <1>3 DEF Next

\* The invariant holds in every reachable state: one owner of the directory,
\* and a save, a memory and a promise that agree at every step of a write.
THEOREM DirectoryInvariant == Spec => []DirInv
BY DirInit, DirNext, PTL DEF Spec

\* No daemon that starts, is refused, is killed or leaves takes the data
\* directory from the daemon that owns it (PidFileGuard).
THEOREM DataDirOwnedHolds == Spec => []DataDirOwned
<1>1. DirInv => DataDirOwned
  BY DEF DirInv, ProcInv, LockHeld, PidNamed, DataDirOwned, Owning, Using
<1> QED BY <1>1, DirectoryInvariant, PTL

\* An address once told and a friend once saved survive every kill and power
\* cut, at any step of any save (atomic_write_file, ToxAdapter::initialize).
THEOREM IdentityKeptHolds == Spec => []IdentityKept
<1>1. DirInv => IdentityKept
  BY DEF DirInv
<1> QED BY <1>1, DirectoryInvariant, PTL
=============================================================================
