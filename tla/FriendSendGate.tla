-------------------------- MODULE FriendSendGate --------------------------
(* The per-friend DATA gate in front of toxcore.  DATA accepted by toxcore   *)
(* and not yet known to be delivered is kept within a budget; delivery is    *)
(* learned from fences (PINGs with an epoch and a sequence number) that a    *)
(* current peer echoes and an older one answers with an empty PONG.          *)
(* DATA frames have size 1.  A ledger's epoch is its key: every ledger draws *)
(* its own.  The RTT and rate filters are abstracted to the budget they give *)
(* (any value in Floor .. MaxBudget), and each deadline to the tick at which *)
(* it is found expired; rearmed_active only stretches one of them.  All      *)
(* entry points but fast_reject run under tox_mutex_, so each is one step of *)
(* its caller.                                                               *)
EXTENDS Integers, Sequences, FiniteSets

CONSTANTS Keys,         \* public keys
          Numbers,      \* friend numbers
          Floor,        \* floor_bytes, in frames
          MaxBudget,    \* max_bytes
          MinInterval,  \* kMinFenceIntervalBytes
          MaxEntries,   \* max_ledger_entries
          Trusted,      \* trusted_backlog_bytes
          Queue,        \* what toxcore's stream holds for one friend
          NoKey

ASSUME GateAssumption == /\ Floor \in Nat \ {0} /\ MaxBudget \in Nat /\ Floor <= MaxBudget
                         /\ MinInterval \in Nat \ {0} /\ MaxEntries \in Nat /\ MaxEntries >= 2
                         /\ NoKey \notin Keys

VARIABLES
  led,     \* ledgers_
  keyOf,   \* number_to_key_
  room,    \* hint_room_
  demand,  \* hint_refused_
  pipe,    \* external: per key, what toxcore accepted and the peer has not read
  back     \* external: the PONGs on their way, a fence's number or 0 for an empty one

gateVars == <<led, keyOf, room, demand, pipe, back>>

Open == 1000
Data == -1      \* a DATA frame in the pipe
Keepalive == -2 \* an empty PING; a fence is its sequence number

\* made: the ledger exists.  fenced, first: last_fenced and whether
\* first_fence_ns is set.  refused: last_refused_ns lies in the blocked window.
NoLedger == [made |-> FALSE, number |-> 0, phase |-> "Bootstrap", emitted |-> 0, delivered |-> 0,
             fenced |-> 0, seq |-> 1, entries |-> <<>>, first |-> FALSE,
             pings |-> 0, pongs |-> 0, refused |-> FALSE, budget |-> Floor,
             probing |-> FALSE, released |-> FALSE]

GateInit ==
  /\ led = [k \in Keys |-> NoLedger]
  /\ keyOf = [n \in Numbers |-> NoKey]
  /\ room = [n \in Numbers |-> Open]
  /\ demand = [n \in Numbers |-> FALSE]
  /\ pipe = [k \in Keys |-> <<>>]
  /\ back = [k \in Keys |-> <<>>]

----------------------------------------------------------------------------
(* The ledger of one friend. *)

backlog(l) == l.emitted - l.delivered
budget(l) == IF l.phase = "Active" THEN l.budget ELSE Floor
fence_interval(l) == IF budget(l) \div 4 > MinInterval THEN budget(l) \div 4 ELSE MinInterval

\* admit()'s test of a DATA frame: any frame fits an empty pipe.
Fits(l) == \/ l.phase = "Legacy"
           \/ ~l.probing /\ (backlog(l) = 0 \/ backlog(l) + 1 <= budget(l))

\* The room publish_hint() stores for the ledger.
Room(l) == IF l.phase = "Legacy" \/ (backlog(l) = 0 /\ ~l.probing) THEN Open
           ELSE IF l.probing THEN -1
           ELSE IF backlog(l) >= budget(l) THEN 0 ELSE budget(l) - backlog(l)

\* The middle of an over-long ledger is thinned to every other entry, never its
\* ends.
Thin(es) ==
  IF Len(es) <= MaxEntries THEN es
  ELSE <<es[1]>> \o [i \in 1 .. (Len(es) - 2) \div 2 |-> es[2 * i + 1]] \o <<es[Len(es)]>>

\* record_fence: a fence behind unchanged DATA extends the newest entry.
record_fence(l) ==
  LET n == Len(l.entries)
      extends == n > 0 /\ l.entries[n].snapshot = l.emitted
      entry == [lo |-> l.seq, hi |-> l.seq, snapshot |-> l.emitted, backlog |-> backlog(l)]
  IN  [l EXCEPT !.seq = @ + 1, !.fenced = l.emitted, !.first = TRUE,
                !.entries = IF extends THEN [@ EXCEPT ![n].hi = l.seq]
                            ELSE Thin(Append(@, entry))]

enter_legacy(l) == [l EXCEPT !.phase = "Legacy", !.entries = <<>>, !.probing = FALSE]

\* Mutant: an echo credits everything emitted, not what went before its fence.
credit_all(l, i, s, b) ==
  [l EXCEPT !.entries = SubSeq(@, i + 1, Len(@)), !.delivered = l.emitted, !.budget = b,
            !.phase = IF @ = "Bootstrap" THEN "Active" ELSE @]

\* credit: the i-th entry is echoed by fence s.  Its snapshot is delivered, it
\* and every older entry are settled, and the filters move the budget to b.
credit(l, i, s, b) ==
  LET r == l.entries[i]
  IN  [l EXCEPT !.entries = SubSeq(@, i + 1, Len(@)),
                !.delivered = IF r.snapshot > @ THEN r.snapshot ELSE @,
                !.budget = b,
                !.released = @ \/ (l.probing /\ (r.backlog = 0 \/ (s = r.lo /\ r.backlog <= Trusted))),
                !.phase = IF @ = "Bootstrap" THEN "Active" ELSE @]

----------------------------------------------------------------------------
(* Entry points, composed by the adapter.  fl is toxcore's friend list and   *)
(* up(k) whether toxcore takes a packet for k now.                           *)

\* ledger_for: the number is resolved once and remembered.
KeyFor(fl, n) == IF keyOf[n] /= NoKey THEN keyOf[n] ELSE fl[n]
LedgerFor(fl, n) == [led[KeyFor(fl, n)] EXCEPT !.made = TRUE, !.number = n]
Resolve(fl, n) == keyOf' = [keyOf EXCEPT ![n] = KeyFor(fl, n)]
publish_hint(l) == room' = [room EXCEPT ![l.number] = Room(l)]

Accepts(k) == Len(pipe[k]) < Queue

\* admit and on_accepted around one send, in one critical section: DATA that
\* does not fit is refused; accepted DATA may complete a fence interval.
\* result is what the caller is told.
SendData(fl, n, online, result) ==
  LET k == KeyFor(fl, n)
      l == LedgerFor(fl, n)
      sent == [l EXCEPT !.emitted = @ + 1]
      fence == /\ sent.phase /= "Legacy" /\ sent.emitted - sent.fenced >= fence_interval(sent)
               /\ Len(pipe[k]) + 1 < Queue
  IN  /\ k /= NoKey
      /\ Resolve(fl, n)
      /\ \/ /\ ~Fits(l)
            /\ result = "SendqFull"
            /\ led' = [led EXCEPT ![k] = [l EXCEPT !.refused = TRUE]]
            /\ publish_hint(l)
            /\ UNCHANGED pipe
         \/ /\ Fits(l) /\ online[k] /\ Accepts(k)
            /\ result = "Sent"
            /\ led' = [led EXCEPT ![k] = IF fence THEN record_fence(sent) ELSE sent]
            /\ pipe' = [pipe EXCEPT ![k] = @ \o (IF fence THEN <<Data, sent.seq>> ELSE <<Data>>)]
            /\ UNCHANGED room
         \/ /\ Fits(l) /\ ~(online[k] /\ Accepts(k))
            /\ result = (IF online[k] THEN "SendqFull" ELSE "PermanentFail")
            /\ led' = [led EXCEPT ![k] = l]
            /\ UNCHANGED <<pipe, room>>
      /\ UNCHANGED <<demand, back>>

\* A keepalive PING: its empty PONG must not be taken for a fence's answer.
SendPing(fl, n, online, result) ==
  LET k == KeyFor(fl, n)
      ok == online[k] /\ Accepts(k)
  IN  /\ k /= NoKey
      /\ result = (IF ok THEN "Sent" ELSE IF online[k] THEN "SendqFull" ELSE "PermanentFail")
      /\ IF ok THEN /\ led' = [led EXCEPT ![k] = [LedgerFor(fl, n) EXCEPT !.pings = @ + 1]]
                    /\ pipe' = [pipe EXCEPT ![k] = Append(@, Keepalive)]
                    /\ Resolve(fl, n)
               ELSE UNCHANGED <<led, pipe, keyOf>>
      /\ UNCHANGED <<room, demand, back>>

\* fast_reject: no lock; a frame turned away is demand for the next tick.
fast_reject(n) == room[n] < 1
NoteDemand(n) == /\ demand' = [demand EXCEPT ![n] = TRUE]
                 /\ UNCHANGED <<led, keyOf, room, pipe, back>>

\* on_received: the oldest PONG on its way from the friend with number n.
on_received(fl, n) ==
  LET k == KeyFor(fl, n)
      l == LedgerFor(fl, n)
      pong == Head(back[k])
      hit == {i \in 1 .. Len(l.entries) : l.entries[i].lo <= pong /\ pong <= l.entries[i].hi}
      counted == [l EXCEPT !.pongs = @ + 1]
      plain == IF /\ l.phase = "Bootstrap" /\ l.entries /= <<>> /\ counted.pongs > l.pings
               THEN enter_legacy(counted) ELSE counted
  IN  /\ k /= NoKey /\ back[k] /= <<>>
      /\ back' = [back EXCEPT ![k] = Tail(@)]
      /\ Resolve(fl, n)
      /\ \E b \in {l.budget, Floor, MaxBudget} :
           LET after == IF pong = 0 THEN plain
                        ELSE IF hit = {} THEN l
                        ELSE credit(l, CHOOSE i \in hit : TRUE, pong, b)
           IN  /\ (pong = 0 \/ hit = {}) => b = l.budget
               /\ led' = [led EXCEPT ![k] = after]
               /\ IF hit /= {} \/ after.phase /= l.phase THEN publish_hint(after)
                                                          ELSE UNCHANGED room
      /\ UNCHANGED <<demand, pipe>>

\* Mutant: a peer that echoed is trusted to echo for good.
StillActive(fl, n, connected) ==
  /\ led' = [led EXCEPT ![KeyFor(fl, n)] =
               IF connected /\ @.phase = "Legacy" THEN [@ EXCEPT !.phase = "Bootstrap"] ELSE @]
  /\ UNCHANGED <<keyOf, room, demand>>

\* on_connection_status: a reconnect may be another build, so detection starts
\* over; the byte accounting survives.
on_connection_status(fl, n, connected) ==
  LET k == KeyFor(fl, n)
      l == LedgerFor(fl, n)
      again == [l EXCEPT !.phase = "Bootstrap", !.first = FALSE,
                         !.pongs = IF l.pings < @ THEN l.pings ELSE @]
  IN  /\ IF connected /\ k /= NoKey
         THEN /\ led' = [led EXCEPT ![k] = IF l.phase = "Bootstrap" THEN l ELSE again]
              /\ Resolve(fl, n)
         ELSE UNCHANGED <<led, keyOf>>
      /\ UNCHANGED <<room, demand>>

----------------------------------------------------------------------------
(* on_tick: deadlines and fences, for every ledger whose number still names  *)
(* it.  d is the deadline this tick finds expired: "old" the detection's,    *)
(* "aged" the rate estimate's, "probe" or "due" a probe's or a recovery      *)
(* fence's, or "none".                                                       *)

Named(k) == led[k].made /\ keyOf[led[k].number] = k

\* Whether a fence is wanted, once probe and demand are settled.
WantsFence(l, blocked, due) ==
  LET n == Len(l.entries)
      covered == n > 0 /\ l.entries[n].snapshot = l.emitted
  IN  \/ l.probing /\ backlog(l) = 0 /\ ~(covered /\ l.entries[n].backlog = 0)
      \/ l.emitted - l.fenced >= fence_interval(l)
      \/ (blocked \/ l.probing) /\ ~covered /\ backlog(l) > 0
      \/ (blocked \/ l.probing) /\ n > 0 /\ due

Ticked(k, d) ==
  LET l == led[k]
      legacy == l.phase = "Bootstrap" /\ l.first /\ d = "old"
      starts == l.phase = "Active" /\ ~l.probing /\ l.refused /\ d = "probe"
      p == [l EXCEPT !.refused = @ \/ demand[l.number],
                     !.budget = IF d = "aged" THEN Floor ELSE @,
                     !.probing = @ \/ starts,
                     !.released = IF starts THEN FALSE ELSE @]
      ends == p.probing /\ p.released /\ backlog(p) = 0
  IN  IF l.phase = "Legacy" THEN l
      ELSE IF legacy THEN enter_legacy(l)
      ELSE [p EXCEPT !.probing = @ /\ ~ends]

on_tick(online, d) ==
  LET ticking == {k \in Keys : Named(k) /\ led[k].phase /= "Legacy"}
      t == [k \in Keys |-> IF k \in ticking THEN Ticked(k, d) ELSE led[k]]
      fence == {k \in ticking : /\ t[k].phase /= "Legacy" /\ WantsFence(t[k], led[k].refused, d = "due")
                                /\ online[k] /\ Accepts(k)}
  IN  /\ led' = [k \in Keys |-> IF k \in fence THEN record_fence(t[k]) ELSE t[k]]
      /\ pipe' = [k \in Keys |-> IF k \in fence THEN Append(pipe[k], t[k].seq) ELSE pipe[k]]
      /\ room' = [n \in Numbers |-> IF keyOf[n] \in ticking THEN Room(t[keyOf[n]]) ELSE room[n]]
      /\ demand' = [n \in Numbers |->
                      /\ demand[n]
                      /\ ~(keyOf[n] \in ticking /\ t[keyOf[n]].phase /= "Legacy")]
      /\ UNCHANGED <<keyOf, back>>

\* No refusal for the length of the blocked window.
DemandExpires(k) ==
  /\ led[k].refused
  /\ led' = [led EXCEPT ![k].refused = FALSE]
  /\ UNCHANGED <<keyOf, room, demand, pipe, back>>

forget_friend_number(n) ==
  /\ keyOf' = [keyOf EXCEPT ![n] = NoKey]
  /\ room' = [room EXCEPT ![n] = Open]
  /\ demand' = [demand EXCEPT ![n] = FALSE]
  /\ UNCHANGED led

----------------------------------------------------------------------------
(* External: the peer reads its stream in order and answers every PING.      *)

PeerReads(k, echoes) ==
  LET x == Head(pipe[k])
      answer == IF x = Data THEN <<>> ELSE IF x > 0 /\ echoes THEN <<x>> ELSE <<0>>
  IN  /\ pipe[k] /= <<>> /\ Len(back[k]) < Queue
      /\ pipe' = [pipe EXCEPT ![k] = Tail(@)]
      /\ back' = [back EXCEPT ![k] = @ \o answer]
      /\ UNCHANGED <<led, keyOf, room, demand>>

\* The stream breaks: what is under way arrives after the reconnect or never.
StreamBreaks(k, kept) ==
  /\ pipe' = [pipe EXCEPT ![k] = IF kept THEN @ ELSE <<>>]
  /\ back' = [back EXCEPT ![k] = IF kept THEN @ ELSE <<>>]

----------------------------------------------------------------------------

\* The ledger never takes undelivered DATA for delivered, whatever PONGs are
\* lost, late, plain or thinned away: what the peer has not read yet is within
\* emitted - delivered.
NoOverCredit ==
  \A k \in Keys :
    Cardinality({i \in 1 .. Len(pipe[k]) : pipe[k][i] = Data}) <= backlog(led[k])

\* The lock-free hint never turns away a frame that admit() would let pass, so
\* a closed hint cannot outlive the ledger, the phase or the friend it is about.
HintAgrees ==
  \A n \in Numbers : fast_reject(n) => keyOf[n] /= NoKey /\ ~Fits(led[keyOf[n]])
============================================================================
