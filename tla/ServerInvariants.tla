-------------------------- MODULE ServerInvariants --------------------------
(***************************************************************************)
(* The inductive invariants of TunnelServer: what each OPEN, manager, hold *)
(* and posted task holds at every stage, and how what is queued for a      *)
(* tunnel joins what it took.  ServerProofs shows that every step keeps    *)
(* them.                                                                   *)
(***************************************************************************)
EXTENDS TunnelServer

----------------------------------------------------------------------------
(* The inductive invariant. *)

Fields == {"phase", "booked", "m", "tun", "notify", "hooked", "sock", "shut", "eof", "peerClosed",
           "at", "out", "byTimer", "gate", "gone", "timer", "abnormal", "gauge", "posts", "ok",
           "failed", "denied", "byPeer"}
Committing == {"owned", "claim", "verify", "publish", "count", "settle", "abort", "unsettle"}

OpenType(r) ==
  /\ DOMAIN r = Fields
  /\ r.phase \in {"None", "Resolving", "Connecting", "Handed", "Resolved"}
  /\ r.m \in Managers \cup {0}
  /\ r.tun \in {"None"} \cup Established \cup Terminal /\ r.notify \in {"no", "due", "done"}
  /\ r.sock \in {"Disconnected", "Connecting", "Connected"}
  /\ r.at \in {"idle", "resolving", "connecting", "handed", "wiring", "recheck", "attempt",
               "sending", "verdict"} \cup Committing
  /\ r.out \in {"Sent", "SendqFull", "PermanentFail"}
  /\ r.gate \in {"none", "Pending", "Sending", "Committing", "Committed", "Abandoned"}
  /\ r.gauge \in {"NotCounted", "Counted", "Released"}
  /\ r.posts \in SUBSET {"abandon", "close", "remove"}
  /\ r.ok \in Nat /\ r.failed \in Nat /\ r.denied \in Nat
  /\ r.booked \in BOOLEAN /\ r.hooked \in BOOLEAN /\ r.shut \in BOOLEAN /\ r.eof \in BOOLEAN
  /\ r.peerClosed \in BOOLEAN /\ r.byTimer \in BOOLEAN /\ r.gone \in BOOLEAN
  /\ r.timer \in BOOLEAN /\ r.abnormal \in BOOLEAN /\ r.byPeer \in BOOLEAN

\* Where the chain is, what it has installed so far, and the gate.
Stage(r) ==
  /\ r.phase = "None" => r.at = "idle" /\ ~r.hooked
  /\ r.phase = "Resolving" => r.at = "resolving"
  /\ r.phase = "Connecting" => r.at = "connecting"
  /\ r.phase = "Resolved" => r.at \in {"idle", "resolving", "connecting"}
  /\ r.phase = "Handed" => r.at \notin {"resolving", "connecting"}
  /\ r.hooked = (r.gate /= "none")
  /\ r.hooked => r.phase = "Handed" /\ r.at \notin {"handed", "wiring"}
  /\ ~r.hooked => /\ r.at \in {"idle", "resolving", "connecting", "handed", "wiring"}
                  /\ ~r.timer /\ r.posts = {} /\ r.gauge = "NotCounted" /\ ~r.byTimer
  /\ (r.at \in {"recheck", "attempt"}) => r.gate = "Pending" /\ ~r.byTimer
  /\ (r.at \in {"sending", "verdict"}) <=> r.gate = "Sending"
  /\ (r.at \in Committing) <=> r.gate = "Committing"
  /\ r.gate = "Pending" => r.at \in {"recheck", "attempt"} \/ (r.at = "idle" /\ r.timer)
  /\ "abandon" \in r.posts => r.gate = "Abandoned"

\* The outcome is booked by whoever takes the OPEN out of its stage.
Booked(r, ok, failed) == r.ok = ok /\ r.failed = failed /\ r.denied = 0
Outcome(r) ==
  /\ (r.phase \in {"Resolving", "Connecting"} \/ r.at \in {"handed", "wiring"}
        \/ r.gate \in {"Pending", "Sending"}) => Booked(r, 0, 0) /\ ~r.booked
  /\ r.at \in {"owned", "claim", "verify", "publish", "abort"} => Booked(r, 0, 0)
  /\ r.at \in {"count", "settle"} \/ r.gate = "Committed" => Booked(r, 1, 0)
  /\ r.at = "unsettle" => Booked(r, 0, 1)
  /\ r.gate = "Abandoned" => Booked(r, 0, IF "abandon" \in r.posts THEN 0 ELSE 1)
  /\ r.ok + r.failed + r.denied <= 1

Gone(r) == r.sock = "Disconnected" \/ r.shut

\* The target socket: who still has to close it, and what its death left to do.
Socket(r, own) ==
  /\ r.sock = "Disconnected" => ~r.shut
  /\ r.at = "resolving" => r.sock = "Disconnected"
  /\ r.phase = "Connecting" => ~r.shut
  /\ r.at \in {"handed", "wiring"} => r.sock = "Connected" /\ ~r.shut
  /\ r.hooked => r.sock /= "Connecting"
  /\ r.gate = "Pending" => r.sock = "Connected"
  /\ r.gate \in {"Sending", "Committing"} /\ r.sock /= "Connected" => r.gone
  /\ r.at = "idle" /\ ~r.hooked => Gone(r)
  /\ r.hooked /\ r.shut /\ own => r.notify /= "no"
  /\ r.gate = "Committed" /\ own /\ r.sock /= "Connected" => "close" \in r.posts \/ r.notify /= "no"
  /\ r.eof => r.gate = "Committed"
  /\ r.eof /\ own /\ r.sock /= "Connected" /\ r.notify = "no" => r.abnormal

\* A tunnel that ended is announced once, and one nobody owns has ended.
Ending(r, own) ==
  /\ r.tun = "None" => r.notify = "no"
  /\ r.tun \in Terminal => r.notify /= "no"
  /\ r.tun \in Established =>
       r.gate \in {"Committing", "Committed", "Abandoned"} /\ r.at \notin {"owned", "claim"}
  /\ r.gate = "Committed" \/ r.at \in {"verify", "publish", "count", "settle"} => r.tun /= "None"
  /\ r.tun = "Disconnecting" /\ r.notify = "no" => r.eof
  /\ own => r.phase \in {"Resolving", "Connecting", "Handed"}
  /\ ~own => r.phase \in {"None", "Resolved"} \/ r.notify /= "no"
  /\ r.at = "idle" /\ ~r.hooked => ~own
  /\ r.hooked /\ r.notify = "done" /\ r.at /= "recheck"
     => (~own \/ "remove" \in r.posts) /\ r.gauge = "Released" /\ Gone(r)
  /\ r.at = "unsettle" \/ (r.gate = "Abandoned" /\ "abandon" \notin r.posts)
     => ~own /\ r.gauge = "Released" /\ Gone(r)
  /\ r.gate = "Committed" \/ r.at = "settle" => r.gauge /= "NotCounted"
  /\ own /\ r.gauge = "Released" => r.notify /= "no"

OpenInv(r, own) ==
  OpenType(r) /\ Stage(r) /\ Outcome(r) /\ Socket(r, own) /\ Ending(r, own)

ManRecord == [st : {"unused", "current", "held", "gone"}, dead : BOOLEAN, hold : Nat]

\* Only the manager of an OPEN registers it, and only while it is in use.
Table ==
  /\ man \in [Managers -> ManRecord]
  /\ reg \in [Managers -> SUBSET Opens]
  /\ DOMAIN op = Opens
  /\ \A g \in Managers, o \in Opens : o \in reg[g] =>
       op[o].m = g /\ man[g].st \in {"current", "held"}
  /\ \A o \in Opens : op[o].m \in Managers => man[op[o].m].st /= "unused"

Kinds == {"up", "down", "verdict", "prune", "retry", "OPEN", "DATA", "CLOSE", "ERROR", "RESUME", "PING"}
Message == {f \in [kind : Kinds, o : Opens \cup {NoOpen}, n : Nat] :
              (f.kind = "OPEN" => f.o \in Opens) /\ (f.kind = "verdict" => f.n \in Managers)}

SlotRecord == [on : BOOLEAN, backlog : Seq(Message), armed : BOOLEAN]
HoldRecord == [n : Nat, pending : SUBSET Nat, expired : SUBSET Nat]
ClientRecord == [o : Opens \cup {NoOpen}, sent : Nat, resume : BOOLEAN, judged : SUBSET Opens]

\* What is posted and parked; a prune task follows the end of its hold.
LaneInv ==
  /\ lane \in Seq(Message) /\ due \in Seq(Message) /\ slot \in SlotRecord
  /\ holds \in HoldRecord /\ cl \in ClientRecord
  /\ \A i \in 1 .. Len(lane) : lane[i].kind = "prune" => lane[i].n \in holds.expired

OpensInv == Table /\ LaneInv /\ \A o \in Opens : OpenInv(op[o], Owns(o))

\* A teardown is on its way to the strand, behind position i or anywhere.
DownBehind(i) == \E j \in i + 1 .. Len(lane) : lane[j] = Task("down")
DownPosted == DownBehind(0)

\* Manager g has lost the friend since it was built, or is about to.
Cut(g) == man[g].st /= "current" \/ man[g].hold /= 0 \/ DownPosted

\* One manager at a time serves the friend; one that was held is marked.
OneManager ==
  /\ \A g, h \in Managers : man[g].st = "current" /\ man[h].st = "current" => g = h
  /\ \A g \in Managers : man[g].st = "held" => man[g].hold /= 0

Undispatched == ToSet(due) \cup ToSet(slot.backlog)

\* A broken link ends the manager: what could build another is ahead of the
\* teardown.
BrokenLink ==
  ~up => /\ \A i \in 1 .. Len(lane) : lane[i].kind \in {"up", "OPEN"} => DownBehind(i)
         /\ CurrentMgr /= {} \/ (\E f \in Undispatched : f.kind = "OPEN") => DownPosted
LinkInv == OneManager /\ BrokenLink

\* Whoever serves OPEN o has lost the friend since, or is about to.
HomeCut(o) == op[o].m \in Managers => Cut(op[o].m)

Dispatched(k, o) == \E f \in Undispatched : f.kind = k /\ f.o = o

\* A tunnel the client resumes was opened before its link broke.
Stale(o) ==
  /\ \A i \in 1 .. Len(lane) : lane[i].kind = "OPEN" /\ lane[i].o = o => DownBehind(i)
  /\ Dispatched("OPEN", o) => DownPosted
  /\ HomeCut(o)
Resuming(o) ==
  \/ cl.o = o /\ (~up \/ cl.resume)
  \/ Dispatched("RESUME", o)
  \/ \E i \in 1 .. Len(lane) : lane[i].kind = "RESUME" /\ lane[i].o = o
ResumeInv == \A o \in Opens : Resuming(o) => Stale(o)

Words == {"ACK", "ERROR", "CLOSE"}

\* Nothing was said of the OPEN yet: the ACK is still to come.
Unheard(r) ==
  \/ r.phase /= "Resolved" /\ r.gate \in {"none", "Pending"}
  \/ r.at = "sending" \/ (r.at = "verdict" /\ r.out /= "Sent")
Promised(r) == r.gate \in {"Committing", "Committed"} \/ (r.at = "verdict" /\ r.out = "Sent")

\* The friend knows that the tunnel ended, or has lost the link.
Heard(o) ==
  op[o].byPeer \/ Told(o, "ERROR") \/ Told(o, "CLOSE") \/ (op[o].m \in Managers => Cut(op[o].m))

\* What was said of an OPEN, and what had to be.
Speech(o) ==
  LET r == op[o]
  IN  /\ Told(o, "ACK") => r.gate /= "none"
      /\ Unheard(r) => \A k \in Words : ~Told(o, k)
      /\ Promised(r) => Told(o, "ACK")
      /\ Told(o, "ERROR") => r.tun \in Terminal \/ ~Owns(o)
      /\ "remove" \in r.posts => r.notify /= "no"
      /\ r.notify /= "no" \/ (~Owns(o) /\ r.phase /= "None") => Heard(o)

WireInv ==
  /\ wire \in Seq([o : Opens, kind : Words])
  /\ \A i, j \in DOMAIN wire : i < j /\ wire[i].o = wire[j].o => wire[j].kind /= "ACK"
  /\ \A o \in Opens : Speech(o)

ServerInv == OpensInv /\ LinkInv /\ ResumeInv /\ WireInv

----------------------------------------------------------------------------
(* What a tunnel takes of its stream. *)

\* Frames that belong to a tunnel's stream, and the entries that matter to it.
StreamKinds == {"OPEN", "DATA", "RESUME"}
Marks == StreamKinds \cup {"down"}

\* Entry i of q is a frame of OPEN o.
Of(q, o, i) == i \in DOMAIN q /\ q[i].o = o /\ q[i].kind \in StreamKinds

\* DATA goes on where the frame of the same tunnel before it left off, numbers
\* rise, and behind a broken link a tunnel is resumed before it takes DATA.
Chained(q, o) ==
  \A i, j \in DOMAIN q :
    i < j /\ Of(q, o, i) /\ Of(q, o, j) /\ q[j].kind = "DATA"
      /\ (\A k \in DOMAIN q : i < k /\ k < j => ~Of(q, o, k))
    => q[j].n = q[i].n + 1
Rising(q, o) ==
  \A i, j \in DOMAIN q :
    i < j /\ Of(q, o, i) /\ Of(q, o, j)
    => q[i].n <= q[j].n /\ (q[j].kind = "DATA" => q[i].n < q[j].n)
Resumed(q, o) ==
  \A i, j \in DOMAIN q :
    i < j /\ q[i].kind = "down" /\ Of(q, o, j) /\ q[j].kind = "DATA"
    => \E k \in DOMAIN q : i < k /\ k < j /\ Of(q, o, k) /\ q[k].kind /= "DATA"

\* Behind a broken link nothing comes before the link is up again.
Lifted(q) ==
  \A i, j \in DOMAIN q :
    i < j /\ q[i].kind = "down" /\ q[j].kind \in StreamKinds
    => \E k \in DOMAIN q : i < k /\ k < j /\ q[k].kind = "up"
Numbered(q) == \A j \in DOMAIN q : q[j].kind = "DATA" => q[j].n >= 1

Well(q) ==
  /\ Lifted(q) /\ Numbered(q)
  /\ \A o \in Opens : Chained(q, o) /\ Rising(q, o) /\ Resumed(q, o)

\* The link comes up before anything of a stream.
Waits(q) ==
  \A j \in DOMAIN q : q[j].kind \in StreamKinds => \E k \in DOMAIN q : k < j /\ q[k].kind = "up"

\* What is queued for o is beyond what s holds, and begins with number n.
Above(q, o, s) ==
  \A j \in DOMAIN q : Of(q, o, j) =>
    \A i \in DOMAIN s : s[i] <= q[j].n /\ (q[j].kind = "DATA" => s[i] < q[j].n)
Begins(q, o, n) ==
  \A j \in DOMAIN q :
    Of(q, o, j) /\ q[j].kind = "DATA" /\ (\A k \in DOMAIN q : k < j => ~Of(q, o, k))
    => q[j].n = n

\* What the client is going to send once the link, u, carries it.
Rest == Frame("RESUME", NoOpen, 0)
Ahead(u, c) ==
  (IF u THEN <<>> ELSE <<Task("up")>>)
  \o ((IF c.o = NoOpen \/ (u /\ ~c.resume) THEN <<>> ELSE <<Frame("RESUME", c.o, c.sent)>>)
      \o ((IF c.o = NoOpen THEN <<>> ELSE <<Frame("DATA", c.o, c.sent + 1)>>) \o <<Rest>>))

\* Everything on its way to the tunnels, in the order it gets there.
Story == due \o (slot.backlog \o (lane \o Ahead(up, cl)))

Live(o) == Owns(o) /\ op[o].tun \in Established
InUse(g) == man[g].st \in {"current", "held"}

OneInUse ==
  /\ \A g, h \in Managers : InUse(g) /\ InUse(h) => g = h
  /\ \A g \in Managers : man[g].st = "held" => Resume

\* The queues of the throttle hold frames only, and nothing while it is off.
Throttle ==
  /\ ~slot.on => slot.backlog = <<>>
  /\ \A i \in DOMAIN due : due[i].kind \notin {"up", "down"}
  /\ \A i \in DOMAIN slot.backlog : slot.backlog[i].kind \notin {"up", "down"}

\* A manager held with a tunnel that was not given up waits for the link.
HeldWaits ==
  \A g \in Managers : man[g].st = "held" /\ ~(reg[g] \subseteq cl.judged) => Waits(Story)

\* What a tunnel took is a run of numbers, and what is queued goes on with it.
Taken(o) ==
  /\ got[o] \in Seq(Nat)
  /\ got[o] /= <<>> => op[o].tun /= "None" /\ op[o].gate /= "none"
  /\ Above(Story, o, got[o])
  /\ \A i \in DOMAIN got[o] : got[o][i] >= 1
  /\ o \notin cl.judged =>
       /\ \A i \in DOMAIN got[o] : got[o][i] = got[o][1] + (i - 1)
       /\ Live(o) /\ got[o] /= <<>> => Begins(Story, o, got[o][1] + Len(got[o]))

InboundInv ==
  /\ OneInUse /\ Throttle /\ Well(Story) /\ HeldWaits
  /\ DOMAIN got = Opens /\ \A o \in Opens : Taken(o)

----------------------------------------------------------------------------
(* Queues. *)

\* p is q without some entries that do not matter; m says where they were.
Thins(q, p, m) ==
  /\ DOMAIN q \subseteq Int /\ DOMAIN p \subseteq Int
  /\ m \in [DOMAIN p -> DOMAIN q]
  /\ \A i, j \in DOMAIN p : i < j <=> m[i] < m[j]
  /\ \A i \in DOMAIN p : p[i] = q[m[i]]
  /\ \A j \in DOMAIN q : q[j].kind \in Marks => \E i \in DOMAIN p : m[i] = j
UpsStay(q, p, m) == \A j \in DOMAIN q : q[j].kind = "up" => \E i \in DOMAIN p : m[i] = j

\* Whatever is queued.
Entry == [kind : Kinds, o : Opens \cup {NoOpen}, n : Nat]

\* The last entries decide what may follow: the link is up, the tunnel's
\* numbers are below m, its last one leads to m, and it was resumed.
Clear(q) == \A i \in DOMAIN q : q[i].kind = "down" => \E k \in DOMAIN q : i < k /\ q[k].kind = "up"
Under(q, o, m) == \A j \in DOMAIN q : Of(q, o, j) => q[j].n < m
Leads(q, o, m) ==
  \A i \in DOMAIN q : Of(q, o, i) /\ (\A k \in DOMAIN q : i < k => ~Of(q, o, k)) => m = q[i].n + 1
Again(q, o) ==
  \A i \in DOMAIN q : q[i].kind = "down" =>
    \E k \in DOMAIN q : i < k /\ Of(q, o, k) /\ q[k].kind /= "DATA"
HasUp(q) == \E k \in DOMAIN q : q[k].kind = "up"
Absent(q, o) == \A k \in DOMAIN q : ~Of(q, o, k)

Streams(e, o) == e.o = o /\ e.kind \in StreamKinds

\* q is x with e behind it, at position l.
Extended(q, x, e, l) ==
  /\ DOMAIN x \subseteq Int /\ l \in Int /\ DOMAIN q = DOMAIN x \cup {l}
  /\ q[l] = e /\ \A i \in DOMAIN x : i < l /\ q[i] = x[i]

\* Entry e may follow x.
Fits(x, e) ==
  e.kind \in StreamKinds =>
    /\ Clear(x)
    /\ e.kind = "DATA" => e.n >= 1
    /\ e.o \in Opens => /\ Under(x, e.o, IF e.kind = "DATA" THEN e.n ELSE e.n + 1)
                        /\ e.kind = "DATA" => Leads(x, e.o, e.n) /\ Again(x, e.o)

\* What is queued suits the client's next frames.
Caught(x, u, c) ==
  /\ u => Clear(x)
  /\ c.o /= NoOpen => /\ Under(x, c.o, c.sent + 1)
                      /\ u /\ ~c.resume => Leads(x, c.o, c.sent + 1) /\ Again(x, c.o)
=============================================================================
