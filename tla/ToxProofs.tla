------------------------------ MODULE ToxProofs ------------------------------
(***************************************************************************)
(* ToxNode for any keys, numbers, budgets and scenarios: the send gate's   *)
(* books against toxcore's stream, its lock-free hint, the edges the       *)
(* application hears, and the watchdog's verdict.                          *)
(***************************************************************************)
EXTENDS ToxNode, FiniteSetTheorems, SequenceTheorems, TLAPS

----------------------------------------------------------------------------
(* The inductive invariant. *)

Entry == [lo : Nat, hi : Nat, snapshot : Nat, backlog : Int]
Ledger ==
  [made : BOOLEAN, number : Numbers \cup {0}, phase : {"Bootstrap", "Active", "Legacy"},
   emitted : Nat, delivered : Nat, fenced : Int, seq : Nat, entries : Seq(Entry), first : BOOLEAN,
   pings : Nat, pongs : Nat, refused : BOOLEAN, budget : Nat, probing : BOOLEAN, released : BOOLEAN]

\* The DATA of a stream behind its i-th packet.
Behind(P, i) == {j \in 1 .. Len(P) : i < j /\ P[j] = Data}
Debt(P, i) == Cardinality(Behind(P, i))

\* A ledger by itself.  The newest entry ends with the newest fence.
LedgerOK(l) ==
  /\ l \in Ledger
  /\ l.made => l.number \in Numbers
  /\ l.delivered <= l.emitted /\ 1 <= l.seq /\ Floor <= l.budget
  /\ \A e \in 1 .. Len(l.entries) :
       /\ 1 <= l.entries[e].lo /\ l.entries[e].hi < l.seq
       /\ l.entries[e].snapshot <= l.emitted
  /\ l.entries /= <<>> => l.entries[Len(l.entries)].hi = l.seq - 1

Covers(r, s) == r.lo <= s /\ s <= r.hi

\* A ledger and the stream it keeps the books of: what lies unread behind a
\* fence, or behind the answer to it, was emitted after the snapshot of the
\* entry that covers the fence.
Follows(l, P, B) ==
  /\ P \in Seq(Int) /\ B \in Seq(Nat)
  /\ \A j \in 1 .. Len(P) : P[j] \in {Data, Keepalive} \/ (1 <= P[j] /\ P[j] < l.seq)
  /\ \A j \in 1 .. Len(B) : B[j] < l.seq
  /\ Debt(P, 0) <= l.emitted - l.delivered
  /\ \A e \in 1 .. Len(l.entries) :
       /\ \A j \in 1 .. Len(P) : Covers(l.entries[e], P[j]) =>
                                   Debt(P, j) <= l.emitted - l.entries[e].snapshot
       /\ \A j \in 1 .. Len(B) : Covers(l.entries[e], B[j]) =>
                                   Debt(P, 0) <= l.emitted - l.entries[e].snapshot

Books(l, P, B) == LedgerOK(l) /\ Follows(l, P, B)

LedgersInv ==
  /\ led \in [Keys -> Ledger] /\ pipe \in [Keys -> Seq(Int)] /\ back \in [Keys -> Seq(Nat)]
  /\ \A k \in Keys : Books(led[k], pipe[k], back[k])

\* The friend list names a key once, and the gate remembers no other name.
NamesInv ==
  /\ fl \in [Numbers -> Keys \cup {NoKey}] /\ keyOf \in [Numbers -> Keys \cup {NoKey}]
  /\ room \in [Numbers -> Int] /\ demand \in [Numbers -> BOOLEAN]
  /\ \A m, n \in Numbers : fl[m] = fl[n] /\ fl[n] /= NoKey => m = n
  /\ \A n \in Numbers : keyOf[n] \in {NoKey, fl[n]}
  /\ HintAgrees

\* What the application heard and is about to hear of a friend.
Story(n) == heard[n] \o events[n]
Alternates(w) == \A i \in 1 .. Len(w) - 1 : w[i] /= w[i + 1]
EndsDown(w) == w = <<>> \/ w[Len(w)] = "down"
EdgesInv ==
  /\ trans \in [Numbers -> {None, "tcp", "udp"}]
  /\ events \in [Numbers -> Seq({"up", "down"})]
  /\ heard \in [Numbers -> Seq({"up", "down", "removed"})]
  /\ \A n \in Numbers : "removed" \notin ToSet(heard[n]) =>
       Alternates(Story(n)) /\ (trans[n] = None <=> EndsDown(Story(n)))

\* A caller that waits is in one queue, once.
Calling == [pc : {"idle", "retry", "post", "wait", "inline"},
            what : {"none", "data", "ping", "add", "remove"}, n : Numbers \cup {0}]
CallersInv ==
  /\ cl \in [Callers -> Calling] /\ tasks \in Seq(Callers) /\ local \in Seq(Callers)
  /\ \A c \in Callers : cl[c].pc /= "idle" => cl[c].what /= "none" /\ cl[c].n \in Numbers
  /\ \A i \in 1 .. Len(tasks) : cl[tasks[i]].pc = "wait"
  /\ \A i \in 1 .. Len(local) : cl[local[i]].pc = "wait"
  /\ \A i, j \in 1 .. Len(tasks) : tasks[i] = tasks[j] => i = j
  /\ \A i, j \in 1 .. Len(local) : local[i] = local[j] => i = j
  /\ \A i \in 1 .. Len(tasks), j \in 1 .. Len(local) : tasks[i] /= local[j]

\* The watchdog's count against the running time of the stall: without a
\* suspension a check counts past the deadline only; after one, each check that
\* counts takes a second, and the first is forgiven.
Bit(x) == IF x THEN 1 ELSE 0
WatchInv ==
  /\ wd \in [on : BOOLEAN, due : BOOLEAN, checked : BOOLEAN, gap : Nat, moved : BOOLEAN, ticks : Nat,
             forgiven : BOOLEAN, blind : BOOLEAN, aborted : BOOLEAN]
  /\ lag \in 0 .. Over /\ awake \in 0 .. Over /\ naps \in Nat
  /\ naps = 0 => lag = awake
  /\ wd.due => wd.on
  /\ ~wd.checked => wd.ticks = 0 /\ ~wd.forgiven
  /\ wd.on /\ ~wd.aborted /\ ~wd.moved /\ naps = 0 =>
       ~wd.forgiven /\ (~wd.due => wd.gap = 0) /\ wd.gap <= 1 /\ (wd.ticks > 0 => awake = Over)
  /\ wd.on /\ ~wd.aborted /\ ~wd.moved /\ naps = 1 =>
       \/ awake = Over
       \/ wd.due /\ wd.gap > Deadline /\ ~wd.forgiven /\ wd.checked
       \/ wd.ticks + Bit(wd.due) <= awake + Bit(wd.blind)
  /\ NoHastyAbort

NodeInv == LedgersInv /\ NamesInv /\ EdgesInv /\ CallersInv /\ WatchInv

----------------------------------------------------------------------------
(* The DATA of a stream. *)

\* What is behind a packet is finite, and less is behind a later one.
LEMMA DebtType ==
  ASSUME NEW P, NEW i \in Nat, Len(P) \in Nat
  PROVE  IsFiniteSet(Behind(P, i)) /\ Debt(P, i) \in Nat
<1>1. IsFiniteSet(1 .. Len(P))
  BY FS_Interval
<1>2. Behind(P, i) \in SUBSET (1 .. Len(P))
  BY DEF Behind
<1> QED BY <1>1, <1>2, FS_Subset, FS_CardinalityType DEF Debt

LEMMA DebtFalls ==
  ASSUME NEW P, NEW i \in Nat, NEW j \in Nat, i <= j, Len(P) \in Nat
  PROVE  Debt(P, j) <= Debt(P, i)
<1>1. IsFiniteSet(Behind(P, i))
  BY DebtType
<1>2. Behind(P, j) \in SUBSET Behind(P, i)
  BY DEF Behind
<1> QED BY <1>1, <1>2, FS_Subset DEF Debt

\* Nothing is behind the last packet.
LEMMA DebtAtEnd ==
  ASSUME NEW P, NEW i \in Nat, Len(P) \in Nat, Len(P) <= i
  PROVE  Debt(P, i) = 0
<1>1. Behind(P, i) = {}
  BY DEF Behind
<1> QED BY <1>1, FS_EmptySet DEF Debt

\* A packet appended is one more behind the others, if it is DATA.
LEMMA DebtAppend ==
  ASSUME NEW P \in Seq(Int), NEW x \in Int, NEW i \in 0 .. Len(P)
  PROVE  Debt(Append(P, x), i) = Debt(P, i) + (IF x = Data THEN 1 ELSE 0)
<1> DEFINE Q == Append(P, x)
<1>1. /\ Len(P) \in Nat /\ Len(Q) = Len(P) + 1 /\ Q[Len(P) + 1] = x
      /\ \A j \in 1 .. Len(P) : Q[j] = P[j]
  OBVIOUS
<1> HIDE DEF Q
<1>2. IsFiniteSet(Behind(P, i)) /\ Debt(P, i) \in Nat
  BY <1>1, DebtType
<1>3. CASE x = Data
  <2>1. Behind(Q, i) = Behind(P, i) \cup {Len(P) + 1}
    BY <1>1, <1>3 DEF Behind
  <2>2. Len(P) + 1 \notin Behind(P, i)
    BY <1>1 DEF Behind
  <2> QED BY <1>2, <1>3, <2>1, <2>2, FS_AddElement DEF Debt, Q
<1>4. CASE x /= Data
  <2>1. Behind(Q, i) = Behind(P, i)
    BY <1>1, <1>4 DEF Behind
  <2> QED BY <1>2, <1>4, <2>1 DEF Debt, Q
<1> QED BY <1>3, <1>4

\* The peer reads the first packet.
LEMMA DebtTail ==
  ASSUME NEW P \in Seq(Int), P /= <<>>, NEW i \in Nat
  PROVE  Debt(Tail(P), i) = Debt(P, i + 1)
<1> DEFINE Q == Tail(P)  S == Behind(P, i + 1)  T == Behind(Q, i)
           f == [j \in S |-> j - 1]
<1>1. /\ Len(P) \in Nat /\ Len(P) >= 1 /\ Len(Q) = Len(P) - 1
      /\ \A j \in 1 .. Len(Q) : Q[j] = P[j + 1]
  OBVIOUS
<1> HIDE DEF Q
<1>2. IsFiniteSet(S)
  BY <1>1, DebtType
<1>3. \A j \in S : j - 1 \in T
  BY <1>1 DEF Behind
<1>4. \A j \in T : j + 1 \in S
  <2> SUFFICES ASSUME NEW j \in T PROVE j + 1 \in S
    OBVIOUS
  <2>1. j \in 1 .. Len(Q) /\ i < j /\ Q[j] = Data
    BY DEF Behind
  <2> QED BY <1>1, <2>1 DEF Behind
<1>5. S \subseteq Int /\ T \subseteq Int
  BY <1>1 DEF Behind
<1> HIDE DEF S, T
<1>6. f \in Bijection(S, T)
  <2>1. f \in [S -> T]
    BY <1>3
  <2>2. \A a1, a2 \in S : f[a1] = f[a2] => a1 = a2
    BY <1>5
  <2>3. \A t \in T : \E s \in S : f[s] = t
    <3> SUFFICES ASSUME NEW t \in T PROVE f[t + 1] = t /\ t + 1 \in S
      OBVIOUS
    <3> QED BY <1>4, <1>5
  <2> HIDE DEF f
  <2> QED BY <2>1, <2>2, <2>3 DEF Bijection, Injection, Surjection, IsInjective
<1>7. ExistsBijection(S, T)
  BY <1>6 DEF ExistsBijection
<1> QED BY <1>2, <1>7, FS_Bijection DEF Debt, S, T, Q

----------------------------------------------------------------------------
(* One ledger and its stream. *)

LEMMA GateConstants == /\ Floor \in Nat /\ 1 <= Floor /\ MaxBudget \in Nat /\ Floor <= MaxBudget
                       /\ MinInterval \in Nat /\ MaxEntries \in Nat /\ 2 <= MaxEntries
                       /\ NoKey \notin Keys /\ Data = -1 /\ Keepalive = -2 /\ Open = 1000
BY GateAssumption DEF Data, Keepalive, Open

\* The parts of a ledger.
LEMMA LedgerFields ==
  ASSUME NEW l, LedgerOK(l)
  PROVE  /\ l.made \in BOOLEAN /\ l.number \in Numbers \cup {0}
         /\ l.phase \in {"Bootstrap", "Active", "Legacy"}
         /\ l.emitted \in Nat /\ l.delivered \in Nat /\ l.fenced \in Int /\ l.seq \in Nat
         /\ l.entries \in Seq(Entry) /\ Len(l.entries) \in Nat
         /\ l.pings \in Nat /\ l.pongs \in Nat /\ l.refused \in BOOLEAN /\ l.first \in BOOLEAN
         /\ l.budget \in Nat /\ l.probing \in BOOLEAN /\ l.released \in BOOLEAN
         /\ l.delivered <= l.emitted /\ 1 <= l.seq /\ Floor <= l.budget
BY DEF LedgerOK, Ledger

LEMMA EntryFields ==
  ASSUME NEW l, LedgerOK(l), NEW e \in 1 .. Len(l.entries)
  PROVE  /\ l.entries[e] \in Entry
         /\ l.entries[e].lo \in Nat /\ l.entries[e].hi \in Nat /\ l.entries[e].snapshot \in Nat
         /\ l.entries[e].backlog \in Int
         /\ 1 <= l.entries[e].lo /\ l.entries[e].hi < l.seq /\ l.entries[e].snapshot <= l.emitted
<1>1. l.entries \in Seq(Entry)
  BY LedgerFields
<1>2. l.entries[e] \in Entry
  BY <1>1, ElementOfSeq
<1> QED BY <1>2 DEF Entry, LedgerOK

\* A ledger that keeps the counts of another and only entries of it follows the
\* same stream.
LEMMA StillFollows ==
  ASSUME NEW l, NEW m, NEW P, NEW B, Books(l, P, B), LedgerOK(m),
         m.emitted = l.emitted, m.delivered = l.delivered, m.seq = l.seq,
         \A e \in 1 .. Len(m.entries) : \E d \in 1 .. Len(l.entries) : m.entries[e] = l.entries[d]
  PROVE  Books(m, P, B)
<1>1. SUFFICES ASSUME NEW e \in 1 .. Len(m.entries)
               PROVE /\ \A j \in 1 .. Len(P) : Covers(m.entries[e], P[j]) =>
                                   Debt(P, j) <= m.emitted - m.entries[e].snapshot
                     /\ \A j \in 1 .. Len(B) : Covers(m.entries[e], B[j]) =>
                                   Debt(P, 0) <= m.emitted - m.entries[e].snapshot
  BY DEF Books, Follows
<1>2. PICK d \in 1 .. Len(l.entries) : m.entries[e] = l.entries[d]
  OBVIOUS
<1> QED BY <1>2 DEF Books, Follows

LEMMA SameBooks ==
  ASSUME NEW l, NEW m, NEW P, NEW B, Books(l, P, B), LedgerOK(m),
         m.emitted = l.emitted, m.delivered = l.delivered, m.seq = l.seq, m.entries = l.entries
  PROVE  Books(m, P, B)
<1>1. \A e \in 1 .. Len(m.entries) : \E d \in 1 .. Len(l.entries) : m.entries[e] = l.entries[d]
  OBVIOUS
<1> QED BY <1>1, StillFollows

\* enter_legacy drops the entries.
LEMMA LegacyBooks ==
  ASSUME NEW l, NEW P, NEW B, Books(l, P, B)
  PROVE  Books(enter_legacy(l), P, B)
<1> DEFINE m == enter_legacy(l)
<1>6. l \in Ledger /\ <<>> \in Seq(Entry)
  BY DEF Books, LedgerOK
<1>1. /\ m.emitted = l.emitted /\ m.delivered = l.delivered /\ m.seq = l.seq /\ m.entries = <<>>
      /\ m.budget = l.budget /\ m.made = l.made /\ m.number = l.number /\ m \in Ledger
  BY <1>6 DEF Ledger, enter_legacy
<1> HIDE DEF m
<1>2. Len(m.entries) = 0
  BY <1>1
<1>3. LedgerOK(m)
  BY <1>1, <1>2 DEF Books, LedgerOK
<1>4. \A e \in 1 .. Len(m.entries) : \E d \in 1 .. Len(l.entries) : m.entries[e] = l.entries[d]
  BY <1>2
<1>5. Books(m, P, B)
  BY <1>1, <1>3, <1>4, StillFollows
<1> QED BY <1>5 DEF m

\* An empty stream is followed by any ledger.
LEMMA EmptyBooks ==
  ASSUME NEW l, LedgerOK(l)
  PROVE  Books(l, <<>>, <<>>)
<1>1. Debt(<<>>, 0) = 0
  BY DebtAtEnd
<1>2. 0 <= l.emitted - l.delivered
  BY LedgerFields
<1> QED BY <1>1, <1>2 DEF Books, Follows

LEMMA NoLedgerOK == LedgerOK(NoLedger)
BY GateConstants DEF LedgerOK, Ledger, NoLedger

\* DATA is accepted: one more emitted, one more in the stream.
LEMMA EmitBooks ==
  ASSUME NEW l, NEW P, NEW B, Books(l, P, B)
  PROVE  Books([l EXCEPT !.emitted = @ + 1], Append(P, Data), B)
<1> DEFINE m == [l EXCEPT !.emitted = @ + 1]  Q == Append(P, Data)
<1>1. /\ m.emitted = l.emitted + 1 /\ m.delivered = l.delivered /\ m.seq = l.seq
      /\ m.entries = l.entries /\ m.budget = l.budget /\ m.made = l.made /\ m.number = l.number
      /\ m \in Ledger
  BY DEF Books, LedgerOK, Ledger
<1>2. LedgerOK(m)
  <2> HIDE DEF m
  <2>1. \A e \in 1 .. Len(l.entries) : l.entries[e].snapshot \in Nat /\ l.entries[e].snapshot <= l.emitted
    BY EntryFields DEF Books
  <2> QED BY <1>1, <2>1, LedgerFields DEF Books, LedgerOK
<1> HIDE DEF m
<1>3. /\ P \in Seq(Int) /\ Q \in Seq(Int) /\ Len(P) \in Nat /\ Len(Q) = Len(P) + 1
      /\ Q[Len(P) + 1] = Data /\ \A j \in 1 .. Len(P) : Q[j] = P[j]
  BY GateConstants DEF Books, Follows
<1>4. \A i \in 0 .. Len(P) : Debt(Q, i) = Debt(P, i) + 1 /\ Debt(P, i) \in Nat
  BY <1>3, DebtAppend, DebtType, GateConstants
<1> HIDE DEF Q
<1>6. Debt(Q, 0) = Debt(P, 0) + 1 /\ Debt(P, 0) \in Nat
  BY <1>3, <1>4
<1>5. \A e \in 1 .. Len(m.entries) :
       /\ \A j \in 1 .. Len(Q) : Covers(m.entries[e], Q[j]) =>
                                   Debt(Q, j) <= m.emitted - m.entries[e].snapshot
       /\ \A j \in 1 .. Len(B) : Covers(m.entries[e], B[j]) =>
                                   Debt(Q, 0) <= m.emitted - m.entries[e].snapshot
  <2> SUFFICES ASSUME NEW e \in 1 .. Len(m.entries)
               PROVE  /\ \A j \in 1 .. Len(Q) : Covers(m.entries[e], Q[j]) =>
                                   Debt(Q, j) <= m.emitted - m.entries[e].snapshot
                      /\ \A j \in 1 .. Len(B) : Covers(m.entries[e], B[j]) =>
                                   Debt(Q, 0) <= m.emitted - m.entries[e].snapshot
    OBVIOUS
  <2>4. e \in 1 .. Len(l.entries) /\ m.entries[e] = l.entries[e]
    BY <1>1
  <2>1. l.entries[e].snapshot \in Nat /\ l.entries[e].lo \in Nat /\ 1 <= l.entries[e].lo /\ l.emitted \in Nat
    BY <2>4, EntryFields, LedgerFields DEF Books
  <2>2. ASSUME NEW j \in 1 .. Len(Q), Covers(m.entries[e], Q[j])
        PROVE  Debt(Q, j) <= m.emitted - m.entries[e].snapshot
    <3>1. j \in 1 .. Len(P)
      BY <1>3, <2>1, <2>2, <2>4, GateConstants DEF Covers
    <3>2. Debt(P, j) <= l.emitted - l.entries[e].snapshot
      BY <1>3, <2>2, <2>4, <3>1 DEF Books, Follows
    <3>3. Debt(Q, j) = Debt(P, j) + 1 /\ Debt(P, j) \in Nat
      BY <1>3, <1>4, <3>1
    <3> QED BY <1>1, <2>1, <2>4, <3>2, <3>3
  <2>3. ASSUME NEW j \in 1 .. Len(B), Covers(m.entries[e], B[j])
        PROVE  Debt(Q, 0) <= m.emitted - m.entries[e].snapshot
    <3>1. Debt(P, 0) <= l.emitted - l.entries[e].snapshot
      BY <2>3, <2>4 DEF Books, Follows
    <3> QED BY <1>1, <1>6, <2>1, <2>4, <3>1
  <2> QED BY <2>2, <2>3
<1>9. Debt(Q, 0) <= m.emitted - m.delivered
  <2>1. Debt(P, 0) <= l.emitted - l.delivered
    BY DEF Books, Follows
  <2>2. l.emitted \in Nat /\ l.delivered \in Nat
    BY LedgerFields DEF Books
  <2> QED BY <1>1, <1>6, <2>1, <2>2
<1>7. \A j \in 1 .. Len(Q) : Q[j] \in {Data, Keepalive} \/ (1 <= Q[j] /\ Q[j] < m.seq)
  <2> SUFFICES ASSUME NEW j \in 1 .. Len(Q)
               PROVE Q[j] \in {Data, Keepalive} \/ (1 <= Q[j] /\ Q[j] < l.seq)
    BY <1>1
  <2>1. CASE j = Len(P) + 1
    BY <1>3, <2>1
  <2>2. CASE j \in 1 .. Len(P)
    BY <1>3, <2>2 DEF Books, Follows
  <2> QED BY <1>3, <2>1, <2>2
<1>8. Books(m, Q, B)
  BY <1>1, <1>2, <1>3, <1>5, <1>7, <1>9 DEF Books, Follows
<1> QED BY <1>8 DEF m, Q

\* A keepalive joins the stream.
LEMMA PingBooks ==
  ASSUME NEW l, NEW P, NEW B, Books(l, P, B)
  PROVE  Books(l, Append(P, Keepalive), B)
<1> DEFINE Q == Append(P, Keepalive)
<1>3. /\ P \in Seq(Int) /\ Q \in Seq(Int) /\ Len(P) \in Nat /\ Len(Q) = Len(P) + 1
      /\ Q[Len(P) + 1] = Keepalive /\ \A j \in 1 .. Len(P) : Q[j] = P[j]
  BY GateConstants DEF Books, Follows
<1>4. \A i \in 0 .. Len(P) : Debt(Q, i) = Debt(P, i)
  BY <1>3, DebtAppend, DebtType, GateConstants
<1> HIDE DEF Q
<1>5. ASSUME NEW e \in 1 .. Len(l.entries), NEW j \in 1 .. Len(Q), Covers(l.entries[e], Q[j])
      PROVE  Debt(Q, j) <= l.emitted - l.entries[e].snapshot
  <2>1. l.entries[e].lo \in Nat
    BY EntryFields DEF Books
  <2>2. j \in 1 .. Len(P)
    BY <1>3, <1>5, <2>1, GateConstants DEF Covers
  <2> QED BY <1>3, <1>4, <1>5, <2>2 DEF Books, Follows
<1>6. \A j \in 1 .. Len(Q) : Q[j] \in {Data, Keepalive} \/ (1 <= Q[j] /\ Q[j] < l.seq)
  <2> SUFFICES ASSUME NEW j \in 1 .. Len(Q)
               PROVE Q[j] \in {Data, Keepalive} \/ (1 <= Q[j] /\ Q[j] < l.seq)
    OBVIOUS
  <2>1. CASE j = Len(P) + 1
    BY <1>3, <2>1
  <2>2. CASE j \in 1 .. Len(P)
    BY <1>3, <2>2 DEF Books, Follows
  <2> QED BY <1>3, <2>1, <2>2
<1>7. Debt(Q, 0) = Debt(P, 0)
  BY <1>3, <1>4
<1>8. Books(l, Q, B)
  BY <1>3, <1>5, <1>6, <1>7 DEF Books, Follows
<1> QED BY <1>8 DEF Q

\* A fence joins the stream: whatever an entry covers now it covered before, or
\* it is the new fence and everything emitted lies before it.
LEMMA AddFence ==
  ASSUME NEW l, NEW m, NEW P, NEW B, Books(l, P, B), LedgerOK(m),
         m.emitted = l.emitted, m.delivered = l.delivered, m.seq = l.seq + 1,
         \A e \in 1 .. Len(m.entries) : \A s \in Nat : Covers(m.entries[e], s) =>
           \/ s = l.seq /\ m.entries[e].snapshot = l.emitted
           \/ \E d \in 1 .. Len(l.entries) : /\ Covers(l.entries[d], s)
                                             /\ l.entries[d].snapshot = m.entries[e].snapshot
  PROVE  Books(m, Append(P, l.seq), B)
<1> DEFINE Q == Append(P, l.seq)
<1>1. l.seq \in Nat /\ 1 <= l.seq /\ l.emitted \in Nat
  BY LedgerFields DEF Books
<1>2. /\ P \in Seq(Int) /\ B \in Seq(Nat) /\ Q \in Seq(Int) /\ Len(P) \in Nat /\ Len(Q) = Len(P) + 1
      /\ Q[Len(P) + 1] = l.seq /\ \A j \in 1 .. Len(P) : Q[j] = P[j]
  <2>1. P \in Seq(Int) /\ B \in Seq(Nat) /\ l.seq \in Int
    BY <1>1 DEF Books, Follows
  <2> QED BY <2>1
<1>3. l.seq /= Data
  BY <1>1, GateConstants
<1>4. \A i \in 0 .. Len(P) : Debt(Q, i) = Debt(P, i) /\ Debt(P, i) \in Nat
  BY <1>1, <1>2, <1>3, DebtAppend, DebtType
<1> HIDE DEF Q
<1>5. Debt(Q, Len(P) + 1) = 0
  <2>1. Len(P) + 1 \in Nat /\ Len(Q) \in Nat /\ Len(Q) <= Len(P) + 1
    BY <1>2
  <2> QED BY <2>1, DebtAtEnd
<1>6. Debt(Q, 0) = Debt(P, 0)
  BY <1>2, <1>4
<1>7. ASSUME NEW e \in 1 .. Len(m.entries), NEW j \in 1 .. Len(Q), Covers(m.entries[e], Q[j])
      PROVE  Debt(Q, j) <= m.emitted - m.entries[e].snapshot
  <2>1. m.entries[e].lo \in Nat /\ m.entries[e].snapshot \in Nat
    BY EntryFields
  <2>2. Q[j] \in Int
    BY <1>2, <1>7, ElementOfSeq
  <2>3. Q[j] \in Nat
    BY <1>7, <2>1, <2>2 DEF Covers
  <2>4. CASE j = Len(P) + 1
    <3>1. Q[j] = l.seq
      BY <1>2, <2>4
    <3>2. \A d \in 1 .. Len(l.entries) : ~Covers(l.entries[d], l.seq)
      <4> SUFFICES ASSUME NEW d \in 1 .. Len(l.entries) PROVE ~Covers(l.entries[d], l.seq)
        OBVIOUS
      <4> QED BY <1>1, EntryFields DEF Books, Covers
    <3>3. m.entries[e].snapshot = l.emitted
      BY <1>7, <2>3, <3>1, <3>2
    <3> QED BY <1>1, <1>5, <2>4, <3>3
  <2>5. CASE j \in 1 .. Len(P)
    <3>1. Q[j] = P[j]
      BY <1>2, <2>5
    <3>2. Q[j] /= l.seq
      BY <1>1, <2>3, <2>5, <3>1, GateConstants DEF Books, Follows
    <3>3. PICK d \in 1 .. Len(l.entries) : /\ Covers(l.entries[d], P[j])
                                           /\ l.entries[d].snapshot = m.entries[e].snapshot
      BY <1>7, <2>3, <3>1, <3>2
    <3>4. Debt(P, j) <= l.emitted - l.entries[d].snapshot
      BY <2>5, <3>3 DEF Books, Follows
    <3>5. Debt(Q, j) = Debt(P, j)
      BY <1>2, <1>4, <2>5
    <3> QED BY <3>3, <3>4, <3>5
  <2> QED BY <1>2, <2>4, <2>5
<1>8. ASSUME NEW e \in 1 .. Len(m.entries), NEW j \in 1 .. Len(B), Covers(m.entries[e], B[j])
      PROVE  Debt(Q, 0) <= m.emitted - m.entries[e].snapshot
  <2>1. B[j] \in Nat /\ B[j] < l.seq
    BY <1>2, ElementOfSeq DEF Books, Follows
  <2>2. PICK d \in 1 .. Len(l.entries) : /\ Covers(l.entries[d], B[j])
                                         /\ l.entries[d].snapshot = m.entries[e].snapshot
    BY <1>1, <1>8, <2>1
  <2>3. Debt(P, 0) <= l.emitted - l.entries[d].snapshot
    BY <2>2 DEF Books, Follows
  <2> QED BY <1>6, <2>2, <2>3
<1>9. \A j \in 1 .. Len(Q) : Q[j] \in {Data, Keepalive} \/ (1 <= Q[j] /\ Q[j] < m.seq)
  <2> SUFFICES ASSUME NEW j \in 1 .. Len(Q)
               PROVE Q[j] \in {Data, Keepalive} \/ (1 <= Q[j] /\ Q[j] < m.seq)
    OBVIOUS
  <2>1. CASE j = Len(P) + 1
    BY <1>1, <1>2, <2>1
  <2>2. CASE j \in 1 .. Len(P)
    <3>1. Q[j] = P[j] /\ P[j] \in Int
      BY <1>2, <2>2, ElementOfSeq
    <3>2. P[j] \in {Data, Keepalive} \/ (1 <= P[j] /\ P[j] < l.seq)
      BY <2>2 DEF Books, Follows
    <3> QED BY <1>1, <3>1, <3>2
  <2> QED BY <1>2, <2>1, <2>2
<1>10. \A j \in 1 .. Len(B) : B[j] < m.seq
  <2> SUFFICES ASSUME NEW j \in 1 .. Len(B) PROVE B[j] < m.seq
    OBVIOUS
  <2>1. B[j] \in Nat /\ B[j] < l.seq
    BY <1>2, ElementOfSeq DEF Books, Follows
  <2> QED BY <1>1, <2>1
<1>11. Debt(Q, 0) <= m.emitted - m.delivered
  BY <1>6 DEF Books, Follows
<1>12. Books(m, Q, B)
  BY <1>2, <1>7, <1>8, <1>9, <1>10, <1>11 DEF Books, Follows
<1> QED BY <1>12 DEF Q

\* Thinning keeps the newest entry and invents none.
LEMMA ThinKeeps ==
  ASSUME NEW es \in Seq(Entry), es /= <<>>
  PROVE  /\ Thin(es) \in Seq(Entry) /\ Thin(es) /= <<>>
         /\ Thin(es)[Len(Thin(es))] = es[Len(es)]
         /\ \A e \in 1 .. Len(Thin(es)) : \E d \in 1 .. Len(es) : Thin(es)[e] = es[d]
<1>1. Len(es) \in Nat /\ 1 <= Len(es) /\ \A d \in 1 .. Len(es) : es[d] \in Entry
  OBVIOUS
<1>2. CASE Len(es) <= MaxEntries
  <2>1. Thin(es) = es
    BY <1>2 DEF Thin
  <2> QED BY <1>1, <2>1
<1>3. CASE ~(Len(es) <= MaxEntries)
  <2> DEFINE h == (Len(es) - 2) \div 2
             mid == [i \in 1 .. h |-> es[2 * i + 1]]
             T == <<es[1]>> \o mid \o <<es[Len(es)]>>
  <2>1. Len(es) >= 3
    BY <1>1, <1>3, GateConstants
  <2>2. h \in Nat /\ 2 * h <= Len(es) - 2
    BY <1>1, <2>1
  <2> HIDE DEF h
  <2>3. \A i \in 1 .. h : 2 * i + 1 \in 1 .. Len(es)
    BY <1>1, <2>2
  <2>4. mid \in Seq(Entry) /\ Len(mid) = h /\ \A i \in 1 .. h : mid[i] = es[2 * i + 1]
    BY <1>1, <2>2, <2>3
  <2> HIDE DEF mid
  <2>5. es[1] \in Entry /\ es[Len(es)] \in Entry
    BY <1>1
  <2>6. /\ T \in Seq(Entry) /\ Len(T) = h + 2 /\ T[1] = es[1] /\ T[h + 2] = es[Len(es)]
        /\ \A i \in 1 .. h : T[i + 1] = mid[i]
    BY <2>2, <2>4, <2>5
  <2>7. Thin(es) = T
    BY <1>3 DEF Thin, T, mid, h
  <2> HIDE DEF T
  <2>8. ASSUME NEW e \in 1 .. Len(T)
        PROVE  \E d \in 1 .. Len(es) : T[e] = es[d]
    <3>1. CASE e = 1
      BY <1>1, <2>6, <3>1
    <3>2. CASE e = h + 2
      BY <1>1, <2>6, <3>2
    <3>3. CASE e \in 2 .. h + 1
      <4>1. e - 1 \in 1 .. h /\ T[(e - 1) + 1] = mid[e - 1] /\ (e - 1) + 1 = e
        BY <2>2, <2>6, <3>3
      <4>2. T[e] = es[2 * (e - 1) + 1] /\ 2 * (e - 1) + 1 \in 1 .. Len(es)
        BY <2>3, <2>4, <4>1
      <4> QED BY <4>2
    <3> QED BY <2>2, <2>6, <3>1, <3>2, <3>3
  <2>9. T /= <<>>
    BY <2>2, <2>6
  <2> QED BY <2>2, <2>6, <2>7, <2>8, <2>9
<1> QED BY <1>2, <1>3

\* send_fence has put the fence in the stream.
LEMMA FenceBooks ==
  ASSUME NEW l, NEW P, NEW B, Books(l, P, B)
  PROVE  Books(record_fence(l), Append(P, l.seq), B)
<1> DEFINE n == Len(l.entries)
           extends == n > 0 /\ l.entries[n].snapshot = l.emitted
           entry == [lo |-> l.seq, hi |-> l.seq, snapshot |-> l.emitted, backlog |-> backlog(l)]
           es == IF extends THEN [l.entries EXCEPT ![n].hi = l.seq] ELSE Thin(Append(l.entries, entry))
           m == record_fence(l)
<1>1. LedgerOK(l) /\ l \in Ledger
  BY DEF Books, LedgerOK
<1>2. /\ l.emitted \in Nat /\ l.delivered \in Nat /\ l.seq \in Nat /\ 1 <= l.seq
      /\ l.entries \in Seq(Entry) /\ n \in Nat
  BY <1>1, LedgerFields
<1>3. entry \in Entry /\ entry.lo = l.seq /\ entry.hi = l.seq /\ entry.snapshot = l.emitted
  BY <1>2 DEF Entry, backlog
<1>4. /\ es \in Seq(Entry) /\ es /= <<>>
      /\ es[Len(es)].hi = l.seq
      /\ \A e \in 1 .. Len(es) :
           \/ \E d \in 1 .. n : es[e] = l.entries[d]
           \/ es[e] = entry
           \/ extends /\ es[e] = [l.entries[n] EXCEPT !.hi = l.seq]
  <2> HIDE DEF entry
  <2>1. CASE extends
    <3>1. l.entries[n] \in Entry
      BY <1>2, <2>1
    <3> DEFINE x == [l.entries[n] EXCEPT !.hi = l.seq]
    <3>2. x \in Entry /\ x.hi = l.seq
      BY <1>2, <3>1 DEF Entry
    <3>3. es = [l.entries EXCEPT ![n] = x]
      BY <2>1
    <3> HIDE DEF x, es
    <3>4. es \in Seq(Entry) /\ Len(es) = n /\ es[n] = x /\ \A e \in 1 .. n : e /= n => es[e] = l.entries[e]
      BY <1>2, <2>1, <3>2, <3>3
    <3>5. es /= <<>>
      BY <2>1, <3>4
    <3> QED BY <1>2, <2>1, <3>2, <3>4, <3>5 DEF x
  <2>2. CASE ~extends
    <3> DEFINE ap == Append(l.entries, entry)
    <3>1. /\ ap \in Seq(Entry) /\ ap /= <<>> /\ Len(ap) = n + 1 /\ ap[n + 1] = entry
          /\ \A d \in 1 .. n : ap[d] = l.entries[d]
      BY <1>2, <1>3
    <3>2. es = Thin(ap)
      BY <2>2
    <3> HIDE DEF ap, es
    <3>3. /\ es \in Seq(Entry) /\ es /= <<>> /\ es[Len(es)] = ap[n + 1]
          /\ \A e \in 1 .. Len(es) : \E d \in 1 .. Len(ap) : es[e] = ap[d]
      BY <3>1, <3>2, ThinKeeps
    <3>4. ASSUME NEW e \in 1 .. Len(es)
          PROVE  (\E d \in 1 .. n : es[e] = l.entries[d]) \/ es[e] = entry
      <4>1. PICK d \in 1 .. Len(ap) : es[e] = ap[d]
        BY <3>3
      <4> QED BY <1>2, <3>1, <4>1
    <3> QED BY <1>3, <3>1, <3>3, <3>4
  <2> QED BY <2>1, <2>2
<1>5. /\ m.emitted = l.emitted /\ m.delivered = l.delivered /\ m.seq = l.seq + 1 /\ m.entries = es
      /\ m.budget = l.budget /\ m.made = l.made /\ m.number = l.number /\ m \in Ledger
  <2>1. m = [l EXCEPT !.seq = l.seq + 1, !.fenced = l.emitted, !.first = TRUE, !.entries = es]
    BY <1>1 DEF record_fence, Ledger
  <2> HIDE DEF es, m
  <2>2. es \in Seq(Entry) /\ l.seq + 1 \in Nat /\ l.emitted \in Int
    BY <1>2, <1>4
  <2> QED BY <1>1, <2>1, <2>2 DEF Ledger
<1>6. ASSUME NEW e \in 1 .. Len(es)
      PROVE  /\ 1 <= es[e].lo /\ es[e].hi < l.seq + 1 /\ es[e].snapshot <= l.emitted
             /\ \A s \in Nat : Covers(es[e], s) =>
                  \/ s = l.seq /\ es[e].snapshot = l.emitted
                  \/ \E d \in 1 .. n : /\ Covers(l.entries[d], s)
                                       /\ l.entries[d].snapshot = es[e].snapshot
  <2> HIDE DEF es
  <2>1. ASSUME NEW d \in 1 .. n, es[e] = l.entries[d]
        PROVE  <1>6!2
    BY <1>1, <1>2, <2>1, EntryFields
  <2>2. CASE es[e] = entry
    BY <1>2, <1>3, <2>2 DEF Covers
  <2>3. CASE extends /\ es[e] = [l.entries[n] EXCEPT !.hi = l.seq]
    <3> DEFINE r == l.entries[n]
    <3>1. n \in 1 .. n
      BY <1>2, <2>3
    <3>2. r \in Entry /\ 1 <= r.lo /\ r.lo \in Nat /\ r.snapshot = l.emitted
      BY <1>1, <2>3, <3>1, EntryFields
    <3>3. r.hi = l.seq - 1
      BY <1>1, <1>2, <3>1 DEF LedgerOK
    <3>4. es[e].lo = r.lo /\ es[e].hi = l.seq /\ es[e].snapshot = r.snapshot
      BY <2>3, <3>2 DEF Entry
    <3> HIDE DEF r
    <3>5. ASSUME NEW s \in Nat, Covers(es[e], s), s /= l.seq
          PROVE  Covers(r, s)
      BY <1>2, <3>2, <3>3, <3>4, <3>5 DEF Covers
    <3> QED BY <1>2, <3>1, <3>2, <3>4, <3>5 DEF r
  <2> QED BY <1>4, <2>1, <2>2, <2>3
<1> HIDE DEF es, entry, m
<1>7. LedgerOK(m)
  <2>1. m.made => m.number \in Numbers
    BY <1>1, <1>5 DEF LedgerOK
  <2>2. m.delivered <= m.emitted /\ 1 <= m.seq /\ Floor <= m.budget
    BY <1>1, <1>2, <1>5, LedgerFields
  <2>3. m.entries[Len(m.entries)].hi = m.seq - 1
    BY <1>2, <1>4, <1>5
  <2>4. \A e \in 1 .. Len(m.entries) : /\ 1 <= m.entries[e].lo /\ m.entries[e].hi < m.seq
                                       /\ m.entries[e].snapshot <= m.emitted
    BY <1>5, <1>6
  <2> QED BY <1>5, <2>1, <2>2, <2>3, <2>4 DEF LedgerOK
<1>8. Books(m, Append(P, l.seq), B)
  BY <1>5, <1>6, <1>7, AddFence
<1> QED BY <1>8 DEF m

\* The peer reads a packet, and answers a PING with its number or with nothing
\* but a PONG.
LEMMA ReadBooks ==
  ASSUME NEW l, NEW P, NEW B, Books(l, P, B), P /= <<>>, NEW R,
         \/ R = <<>> \/ R = << 0 >>
         \/ R = <<Head(P)>> /\ Head(P) > 0
  PROVE  Books(l, Tail(P), B \o R)
<1> DEFINE Q == Tail(P)  C == B \o R
<1>1. P \in Seq(Int) /\ B \in Seq(Nat)
  BY DEF Books, Follows
<1>2. /\ Len(P) \in Nat /\ 1 <= Len(P) /\ Q \in Seq(Int) /\ Len(Q) = Len(P) - 1
      /\ Head(P) = P[1] /\ P[1] \in Int /\ \A j \in 1 .. Len(Q) : Q[j] = P[j + 1] /\ j + 1 \in 1 .. Len(P)
  BY <1>1
<1>3. /\ R \in Seq(Nat) /\ Len(R) \in {0, 1}
      /\ Len(R) = 1 => R[1] = 0 \/ (R[1] = P[1] /\ P[1] > 0)
  <2>1. CASE R = <<>>
    BY <2>1
  <2>2. CASE R = << 0 >>
    BY <2>2
  <2>3. CASE R = <<Head(P)>> /\ Head(P) > 0
    <3> DEFINE x == Head(P)
    <3>1. x \in Nat /\ x = P[1] /\ x > 0
      BY <1>2, <2>3
    <3>2. R = <<x>>
      BY <2>3
    <3> HIDE DEF x
    <3> QED BY <3>1, <3>2
  <2> QED BY <2>1, <2>2, <2>3
<1>4. /\ C \in Seq(Nat) /\ Len(B) \in Nat /\ Len(C) = Len(B) + Len(R)
      /\ \A j \in 1 .. Len(B) : C[j] = B[j]
      /\ Len(R) = 1 => C[Len(B) + 1] = R[1]
  BY <1>1, <1>3
<1>5. \A i \in Nat : Debt(Q, i) = Debt(P, i + 1)
  BY <1>1, DebtTail
<1>6. /\ Debt(P, 0) \in Nat /\ Debt(P, 1) \in Nat /\ Debt(P, 1) <= Debt(P, 0) /\ Debt(Q, 0) = Debt(P, 1)
  <2>1. 0 \in Nat /\ 1 \in Nat /\ 0 <= 1 /\ 0 + 1 = 1
    OBVIOUS
  <2> HIDE DEF Q
  <2> QED BY <1>2, <1>5, <2>1, DebtType, DebtFalls
<1> HIDE DEF Q, C
<1>14. Len(B) \in Nat /\ (Len(R) = 0 \/ Len(R) = 1) /\ Len(C) = Len(B) + Len(R)
  BY <1>3, <1>4
<1>15. \A j \in 1 .. Len(C) : j \in 1 .. Len(B) \/ (j = Len(B) + 1 /\ Len(R) = 1)
  <2>1. CASE Len(R) = 0
    BY <1>14, <2>1
  <2>2. CASE Len(R) = 1
    BY <1>14, <2>2
  <2> QED BY <1>14, <2>1, <2>2
<1>7. LedgerOK(l) /\ l.seq \in Nat /\ 1 <= l.seq /\ l.emitted \in Nat /\ l.delivered \in Nat
  BY LedgerFields DEF Books
<1>8. ASSUME NEW e \in 1 .. Len(l.entries), NEW j \in 1 .. Len(Q), Covers(l.entries[e], Q[j])
      PROVE  Debt(Q, j) <= l.emitted - l.entries[e].snapshot
  <2>1. Q[j] = P[j + 1] /\ j + 1 \in 1 .. Len(P) /\ j \in Nat
    BY <1>2
  <2>2. Debt(P, j + 1) <= l.emitted - l.entries[e].snapshot
    BY <1>8, <2>1 DEF Books, Follows
  <2> QED BY <1>5, <2>1, <2>2
<1>9. ASSUME NEW e \in 1 .. Len(l.entries), NEW j \in 1 .. Len(C), Covers(l.entries[e], C[j])
      PROVE  Debt(Q, 0) <= l.emitted - l.entries[e].snapshot
  <2>1. l.entries[e].snapshot \in Nat /\ l.entries[e].lo \in Nat /\ 1 <= l.entries[e].lo
    BY <1>7, EntryFields
  <2>2. CASE j \in 1 .. Len(B)
    <3>1. Debt(P, 0) <= l.emitted - l.entries[e].snapshot
      BY <1>4, <1>9, <2>2 DEF Books, Follows
    <3> QED BY <1>6, <1>7, <2>1, <3>1
  <2>3. CASE j = Len(B) + 1 /\ Len(R) = 1
    <3>1. C[j] = P[1]
      BY <1>3, <1>4, <1>9, <2>1, <2>3 DEF Covers
    <3>2. 1 \in 1 .. Len(P)
      BY <1>2
    <3>3. Debt(P, 1) <= l.emitted - l.entries[e].snapshot
      BY <1>9, <3>1, <3>2 DEF Books, Follows
    <3> QED BY <1>6, <3>3
  <2>4. j \in 1 .. Len(B) \/ (j = Len(B) + 1 /\ Len(R) = 1)
    BY <1>15
  <2> QED BY <2>2, <2>3, <2>4
<1>10. \A j \in 1 .. Len(Q) : Q[j] \in {Data, Keepalive} \/ (1 <= Q[j] /\ Q[j] < l.seq)
  BY <1>2 DEF Books, Follows
<1>11. \A j \in 1 .. Len(C) : C[j] < l.seq
  <2> SUFFICES ASSUME NEW j \in 1 .. Len(C) PROVE C[j] < l.seq
    OBVIOUS
  <2>1. CASE j \in 1 .. Len(B)
    BY <1>4, <2>1 DEF Books, Follows
  <2>2. CASE j = Len(B) + 1 /\ Len(R) = 1
    <3>1. 1 \in 1 .. Len(P)
      BY <1>2
    <3>2. P[1] \in {Data, Keepalive} \/ P[1] < l.seq
      BY <3>1 DEF Books, Follows
    <3> QED BY <1>2, <1>3, <1>4, <1>7, <2>2, <3>2, GateConstants
  <2>3. j \in 1 .. Len(B) \/ (j = Len(B) + 1 /\ Len(R) = 1)
    BY <1>15
  <2> QED BY <2>1, <2>2, <2>3
<1>12. Debt(Q, 0) <= l.emitted - l.delivered
  <2>1. Debt(P, 0) <= l.emitted - l.delivered
    BY DEF Books, Follows
  <2> QED BY <1>6, <1>7, <2>1
<1>13. Books(l, Q, C)
  BY <1>2, <1>4, <1>7, <1>8, <1>9, <1>10, <1>11, <1>12 DEF Books, Follows
<1> QED BY <1>13 DEF Q, C

\* A PONG arrives.
LEMMA PongBooks ==
  ASSUME NEW l, NEW P, NEW B, Books(l, P, B), B /= <<>>
  PROVE  Books(l, P, Tail(B)) /\ Head(B) \in Nat /\ Head(B) = B[1] /\ 1 \in 1 .. Len(B)
<1> DEFINE C == Tail(B)
<1>1. B \in Seq(Nat)
  BY DEF Books, Follows
<1>2. /\ C \in Seq(Nat) /\ \A j \in 1 .. Len(C) : C[j] = B[j + 1] /\ j + 1 \in 1 .. Len(B)
      /\ Head(B) \in Nat /\ Head(B) = B[1] /\ 1 \in 1 .. Len(B)
  BY <1>1
<1> HIDE DEF C
<1>3. Books(l, P, C)
  BY <1>2 DEF Books, Follows
<1> QED BY <1>2, <1>3 DEF C

\* The echo of a fence: everything up to the snapshot of its entry is read.
LEMMA CreditBooks ==
  ASSUME NEW l, NEW P, NEW B, Books(l, P, B), B /= <<>>,
         NEW i \in 1 .. Len(l.entries), Covers(l.entries[i], Head(B)),
         NEW b \in Nat, Floor <= b
  PROVE  Books(credit(l, i, Head(B), b), P, Tail(B))
<1> DEFINE m == credit(l, i, Head(B), b)
           r == l.entries[i]
           es == SubSeq(l.entries, i + 1, Len(l.entries))
<1>1. LedgerOK(l) /\ l \in Ledger
  BY DEF Books, LedgerOK
<1>2. /\ l.emitted \in Nat /\ l.delivered \in Nat /\ l.delivered <= l.emitted /\ l.entries \in Seq(Entry)
      /\ l.seq \in Nat /\ 1 <= l.seq /\ Len(l.entries) \in Nat /\ l.probing \in BOOLEAN
      /\ l.released \in BOOLEAN /\ l.phase \in {"Bootstrap", "Active", "Legacy"}
      /\ r.snapshot \in Nat /\ r.snapshot <= l.emitted
  BY <1>1, LedgerFields, EntryFields
<1>3. /\ es \in Seq(Entry) /\ Len(es) = Len(l.entries) - i
      /\ \A e \in 1 .. Len(es) : es[e] = l.entries[i + e] /\ i + e \in 1 .. Len(l.entries)
  <2> DEFINE n == Len(l.entries)
  <2>1. n \in Nat /\ i \in Nat /\ 1 <= i /\ i <= n /\ i + 1 \in Int
    BY <1>2
  <2>2. \A d \in i + 1 .. n : l.entries[d] \in Entry
    BY <1>2
  <2>3. /\ es \in Seq(Entry) /\ Len(es) = IF i + 1 <= n THEN n - (i + 1) + 1 ELSE 0
        /\ \A e \in 1 .. n - (i + 1) + 1 : es[e] = l.entries[(i + 1) + e - 1]
    BY <2>1, <2>2, SubSeqProperties
  <2> HIDE DEF n, es
  <2>4. Len(es) = n - i
    BY <2>1, <2>3
  <2>5. ASSUME NEW e \in 1 .. Len(es)
        PROVE  es[e] = l.entries[i + e] /\ i + e \in 1 .. n
    <3>1. e \in 1 .. n - (i + 1) + 1 /\ (i + 1) + e - 1 = i + e /\ i + e \in 1 .. n
      BY <2>1, <2>4
    <3> QED BY <2>3, <3>1
  <2> QED BY <2>3, <2>4, <2>5 DEF n
<1>4. Debt(P, 0) <= l.emitted - r.snapshot
  BY PongBooks DEF Books, Follows
<1>5. Debt(P, 0) <= l.emitted - l.delivered
  BY DEF Books, Follows
<1> DEFINE dl == IF r.snapshot > l.delivered THEN r.snapshot ELSE l.delivered
           rl == l.released \/ (l.probing /\ (r.backlog = 0 \/ (Head(B) = r.lo /\ r.backlog <= Trusted)))
           ph == IF l.phase = "Bootstrap" THEN "Active" ELSE l.phase
<1>6. m = [l EXCEPT !.entries = es, !.delivered = dl, !.budget = b, !.released = rl, !.phase = ph]
  BY <1>1 DEF credit, Ledger
<1>7. dl \in Nat /\ dl <= l.emitted /\ Debt(P, 0) <= l.emitted - dl /\ rl \in BOOLEAN
      /\ ph \in {"Bootstrap", "Active", "Legacy"}
  BY <1>2, <1>4, <1>5
<1> HIDE DEF es, dl, rl, ph, m, r
<1>8. /\ m.emitted = l.emitted /\ m.delivered = dl /\ m.seq = l.seq /\ m.entries = es
      /\ m.budget = b /\ m.made = l.made /\ m.number = l.number /\ m \in Ledger
  <2>1. es \in Seq(Entry)
    BY <1>3
  <2> QED BY <1>1, <1>6, <1>7, <2>1 DEF Ledger
<1>9. LedgerOK(m)
  <2>1. m.made => m.number \in Numbers
    BY <1>1, <1>8 DEF LedgerOK
  <2>2. \A e \in 1 .. Len(m.entries) : /\ 1 <= m.entries[e].lo /\ m.entries[e].hi < m.seq
                                       /\ m.entries[e].snapshot <= m.emitted
    BY <1>1, <1>3, <1>8 DEF LedgerOK
  <2>3. ASSUME m.entries /= <<>>
        PROVE  m.entries[Len(m.entries)].hi = m.seq - 1
    <3>1. Len(es) \in 1 .. Len(es) /\ i + Len(es) = Len(l.entries)
      BY <1>2, <1>3, <1>8, <2>3
    <3>2. es[Len(es)] = l.entries[Len(l.entries)]
      BY <1>3, <3>1
    <3>3. l.entries /= <<>>
      BY <1>2
    <3> QED BY <1>1, <1>8, <3>2, <3>3 DEF LedgerOK
  <2> QED BY <1>2, <1>7, <1>8, <2>1, <2>2, <2>3 DEF LedgerOK
<1>10. Books(l, P, Tail(B))
  BY PongBooks
<1>11. ASSUME NEW e \in 1 .. Len(m.entries)
       PROVE  \E d \in 1 .. Len(l.entries) : m.entries[e] = l.entries[d]
  BY <1>3, <1>8
<1>12. Books(m, P, Tail(B))
  <2>1. Follows(l, P, Tail(B))
    BY <1>10 DEF Books
  <2>2. ASSUME NEW e \in 1 .. Len(m.entries)
        PROVE  /\ \A j \in 1 .. Len(P) : Covers(m.entries[e], P[j]) =>
                                   Debt(P, j) <= m.emitted - m.entries[e].snapshot
               /\ \A j \in 1 .. Len(Tail(B)) : Covers(m.entries[e], Tail(B)[j]) =>
                                   Debt(P, 0) <= m.emitted - m.entries[e].snapshot
    <3>1. PICK d \in 1 .. Len(l.entries) : m.entries[e] = l.entries[d]
      BY <1>11
    <3> QED BY <1>8, <2>1, <3>1 DEF Follows
  <2> QED BY <1>7, <1>8, <1>9, <2>1, <2>2 DEF Books, Follows
<1> QED BY <1>12 DEF m

----------------------------------------------------------------------------
(* The hint. *)

LEMMA BudgetType ==
  ASSUME NEW l, LedgerOK(l)
  PROVE  budget(l) \in Nat /\ 1 <= budget(l) /\ backlog(l) \in Nat
BY LedgerFields, GateConstants DEF budget, backlog

\* A room that is published turns away nothing admit() would take.
LEMMA RoomHonest ==
  ASSUME NEW l, LedgerOK(l)
  PROVE  Room(l) \in Int /\ (Room(l) < 1 => ~Fits(l))
<1>1. budget(l) \in Nat /\ 1 <= budget(l) /\ backlog(l) \in Nat /\ l.probing \in BOOLEAN
  BY BudgetType, LedgerFields
<1> QED BY <1>1, GateConstants DEF Room, Fits

LEMMA SameFits ==
  ASSUME NEW l, NEW m, m.phase = l.phase, m.probing = l.probing, m.emitted = l.emitted,
         m.delivered = l.delivered, m.budget = l.budget
  PROVE  Fits(m) = Fits(l)
BY DEF Fits, backlog, budget

\* The key of a number, and the ledger ledger_for() hands out.
LEMMA Resolved ==
  ASSUME LedgersInv, NamesInv, NEW n \in Numbers, KeyFor(fl, n) /= NoKey
  PROVE  /\ KeyFor(fl, n) \in Keys /\ KeyFor(fl, n) = fl[n]
         /\ \A o \in Numbers : keyOf[o] = fl[n] => o = n
         /\ Books(LedgerFor(fl, n), pipe[fl[n]], back[fl[n]])
         /\ LedgerFor(fl, n) = [led[fl[n]] EXCEPT !.made = TRUE, !.number = n]
         /\ LedgerFor(fl, n).number = n /\ Fits(LedgerFor(fl, n)) = Fits(led[fl[n]])
<1> DEFINE k == KeyFor(fl, n)  l == led[k]  m == LedgerFor(fl, n)
<1>1. k \in Keys /\ k = fl[n]
  BY DEF NamesInv, KeyFor
<1>2. \A o \in Numbers : keyOf[o] = fl[n] => o = n
  BY <1>1 DEF NamesInv
<1>3. Books(l, pipe[k], back[k]) /\ LedgerOK(l) /\ l \in Ledger
  BY <1>1 DEF LedgersInv, Books
<1>4. m = [l EXCEPT !.made = TRUE, !.number = n]
  BY DEF LedgerFor
<1> HIDE DEF k, l, m
<1>5. /\ m \in Ledger /\ m.made = TRUE /\ m.number = n /\ m.emitted = l.emitted /\ m.delivered = l.delivered
      /\ m.seq = l.seq /\ m.entries = l.entries /\ m.budget = l.budget /\ m.phase = l.phase
      /\ m.probing = l.probing
  BY <1>3, <1>4 DEF Ledger
<1>6. LedgerOK(m)
  BY <1>3, <1>5 DEF LedgerOK
<1>7. Books(m, pipe[k], back[k])
  BY <1>3, <1>5, <1>6, SameBooks
<1>8. Fits(m) = Fits(l)
  BY <1>5, SameFits
<1> QED BY <1>1, <1>2, <1>4, <1>5, <1>7, <1>8 DEF k, l, m

\* A step on behalf of a number: its ledger becomes m, and what its hint says
\* is right about m.
LEMMA NumberStep ==
  ASSUME LedgersInv, NamesInv, NEW n \in Numbers, KeyFor(fl, n) /= NoKey, NEW m,
         Resolve(fl, n), led' = [led EXCEPT ![fl[n]] = m], fl' = fl,
         demand' \in [Numbers -> BOOLEAN],
         \/ room' = room /\ (Fits(led[fl[n]]) \/ ~Fits(m))
         \/ room' = [room EXCEPT ![n] = Room(m)] /\ LedgerOK(m)
  PROVE  NamesInv'
<1> DEFINE k == fl[n]
<1>1. KeyFor(fl, n) = k /\ k \in Keys /\ \A o \in Numbers : keyOf[o] = k => o = n
  BY Resolved
<1>2. led' = [led EXCEPT ![k] = m]
  OBVIOUS
<1>3. keyOf' = [keyOf EXCEPT ![n] = k]
  BY <1>1 DEF Resolve
<1> HIDE DEF k
<1>4. keyOf' \in [Numbers -> Keys \cup {NoKey}] /\ \A o \in Numbers : keyOf'[o] \in {NoKey, fl[o]}
  BY <1>1, <1>3 DEF NamesInv, k
<1>5. room' \in [Numbers -> Int]
  BY RoomHonest DEF NamesInv
<1>6. led'[k] = m /\ \A j \in Keys : j /= k => led'[j] = led[j]
  BY <1>1, <1>2 DEF LedgersInv
<1>7. ASSUME NEW o \in Numbers, room'[o] < 1
      PROVE  keyOf'[o] /= NoKey /\ ~Fits(led'[keyOf'[o]])
  <2>1. CASE o /= n
    <3>1. room[o] < 1 /\ keyOf'[o] = keyOf[o]
      BY <1>3, <1>7, <2>1 DEF NamesInv
    <3>2. keyOf[o] /= NoKey /\ ~Fits(led[keyOf[o]]) /\ keyOf[o] \in Keys
      BY <3>1 DEF NamesInv, HintAgrees, fast_reject
    <3>3. keyOf[o] /= k
      BY <1>1, <2>1
    <3> QED BY <1>6, <3>1, <3>2, <3>3
  <2>2. CASE o = n
    <3>1. keyOf'[n] = k /\ k /= NoKey
      BY <1>1, <1>3, GateConstants DEF NamesInv
    <3>2. CASE room' = room /\ (Fits(led[k]) \/ ~Fits(m))
      <4>1. keyOf[n] = k /\ ~Fits(led[k])
        BY <1>7, <2>2, <3>2 DEF NamesInv, HintAgrees, fast_reject, k
      <4>2. room[n] < 1 /\ room[n] \in Int
        BY <1>7, <2>2, <3>2 DEF NamesInv
      <4>3. ~Fits(m)
        BY <3>2, <4>1, <4>2 DEF k
      <4> QED BY <1>6, <2>2, <3>1, <4>3
    <3>3. CASE room' = [room EXCEPT ![n] = Room(m)] /\ LedgerOK(m)
      <4>1. room'[n] = Room(m)
        BY <3>3 DEF NamesInv
      <4>2. ~Fits(m)
        BY <1>7, <2>2, <3>3, <4>1, RoomHonest
      <4> QED BY <1>6, <2>2, <3>1, <4>2
    <3> QED BY <3>2, <3>3 DEF k
  <2> QED BY <2>1, <2>2
<1>8. HintAgrees'
  BY <1>7 DEF HintAgrees, fast_reject, Fits, budget, backlog
<1> QED BY <1>4, <1>5, <1>8 DEF NamesInv

\* A step on the books of one key.
LEMMA KeyStep ==
  ASSUME LedgersInv, NEW k \in Keys, NEW m, NEW P, NEW B, Books(m, P, B),
         led' = [led EXCEPT ![k] = m],
         pipe' = [pipe EXCEPT ![k] = P], back' = [back EXCEPT ![k] = B]
  PROVE  LedgersInv'
<1>1. m \in Ledger /\ P \in Seq(Int) /\ B \in Seq(Nat)
  BY DEF Books, LedgerOK, Follows
<1>2. led' \in [Keys -> Ledger] /\ pipe' \in [Keys -> Seq(Int)] /\ back' \in [Keys -> Seq(Nat)]
  BY <1>1 DEF LedgersInv
<1>3. ASSUME NEW j \in Keys PROVE Books(led'[j], pipe'[j], back'[j])
  <2>1. CASE j = k
    BY <2>1 DEF LedgersInv
  <2>2. CASE j /= k
    BY <2>2 DEF LedgersInv
  <2> QED BY <2>1, <2>2
<1> QED BY <1>2, <1>3 DEF LedgersInv

LEMMA PipeSame ==
  ASSUME LedgersInv, NEW k \in Keys
  PROVE  pipe = [pipe EXCEPT ![k] = pipe[k]] /\ back = [back EXCEPT ![k] = back[k]]
BY DEF LedgersInv

----------------------------------------------------------------------------
(* The gate's entry points. *)

\* admit(), toxcore's send and on_accepted().
LEMMA SendDataStep ==
  ASSUME LedgersInv, NamesInv, NEW n \in Numbers, NEW result, SendData(fl, n, Online, result), fl' = fl
  PROVE  LedgersInv' /\ NamesInv'
<1> DEFINE k == KeyFor(fl, n)
           l == LedgerFor(fl, n)
           sent == [l EXCEPT !.emitted = @ + 1]
           fence == /\ sent.phase /= "Legacy" /\ sent.emitted - sent.fenced >= fence_interval(sent)
                    /\ Len(pipe[k]) + 1 < Queue
<1>1. k /= NoKey /\ Resolve(fl, n) /\ demand' = demand /\ back' = back
  BY DEF SendData
<1>2. /\ k \in Keys /\ k = fl[n] /\ Books(l, pipe[k], back[k]) /\ l.number = n
      /\ Fits(l) = Fits(led[k])
  BY <1>1, Resolved
<1>3. demand' \in [Numbers -> BOOLEAN] /\ LedgerOK(l)
  BY <1>1, <1>2 DEF NamesInv, Books
<1>4. CASE /\ ~Fits(l)
           /\ led' = [led EXCEPT ![k] = [l EXCEPT !.refused = TRUE]]
           /\ publish_hint(l) /\ pipe' = pipe
  <2> DEFINE m == [l EXCEPT !.refused = TRUE]
  <2>1. /\ m.emitted = l.emitted /\ m.delivered = l.delivered /\ m.seq = l.seq /\ m.entries = l.entries
        /\ m.phase = l.phase /\ m.probing = l.probing /\ m.budget = l.budget /\ LedgerOK(m)
    <3> HIDE DEF l
    <3> QED BY <1>3 DEF LedgerOK, Ledger
  <2>2. Room(m) = Room(l)
    BY <2>1 DEF Room, backlog, budget
  <2>3. room' = [room EXCEPT ![n] = Room(l)]
    BY <1>2, <1>4 DEF publish_hint
  <2>4. led' = [led EXCEPT ![k] = m]
    BY <1>4
  <2> HIDE DEF m, l, k, sent, fence
  <2>5. Books(m, pipe[k], back[k])
    BY <1>2, <2>1, SameBooks
  <2>6. LedgersInv'
    BY <1>1, <1>2, <1>4, <2>4, <2>5, KeyStep, PipeSame
  <2>7. NamesInv'
    <3>1. Fits(m) = Fits(l)
      BY <2>1, SameFits
    <3>2. ~Fits(m)
      BY <1>4, <3>1
    <3> QED BY <1>1, <1>2, <1>3, <2>1, <2>2, <2>3, <2>4, <3>2, NumberStep DEF k
  <2> QED BY <2>6, <2>7
<1>5. CASE /\ Fits(l)
           /\ led' = [led EXCEPT ![k] = IF fence THEN record_fence(sent) ELSE sent]
           /\ pipe' = [pipe EXCEPT ![k] = @ \o (IF fence THEN <<Data, sent.seq>> ELSE <<Data>>)]
           /\ room' = room
  <2> DEFINE m == IF fence THEN record_fence(sent) ELSE sent
             P == pipe[k]
             Q == IF fence THEN Append(Append(P, Data), sent.seq) ELSE Append(P, Data)
  <2>1. P \in Seq(Int) /\ sent.seq \in Int
    <3> HIDE DEF l
    <3> QED BY <1>2, <1>3 DEF LedgersInv, LedgerOK, Ledger
  <2>2. Q = P \o (IF fence THEN <<Data, sent.seq>> ELSE <<Data>>)
    <3> DEFINE x == sent.seq
    <3>1. x \in Int /\ Data \in Int
      BY <2>1, GateConstants
    <3> HIDE DEF x, P, fence
    <3>2. P \o <<Data, x>> = Append(Append(P, Data), x) /\ P \o <<Data>> = Append(P, Data)
      BY <2>1, <3>1
    <3> QED BY <3>2 DEF x
  <2>3. Books(sent, Append(P, Data), back[k])
    <3> HIDE DEF l
    <3> QED BY <1>2, EmitBooks
  <2>4. Books(m, Q, back[k])
    <3> HIDE DEF sent, fence, P
    <3>1. Books(record_fence(sent), Append(Append(P, Data), sent.seq), back[k])
      BY <2>3, FenceBooks
    <3> QED BY <2>3, <3>1
  <2>5. led' = [led EXCEPT ![k] = m] /\ pipe' = [pipe EXCEPT ![k] = Q]
    <3> HIDE DEF k, sent, fence
    <3>1. pipe' = [pipe EXCEPT ![k] = P \o (IF fence THEN <<Data, sent.seq>> ELSE <<Data>>)]
      BY <1>2, <1>5 DEF LedgersInv
    <3> QED BY <1>5, <2>2, <3>1
  <2> HIDE DEF m, l, k, sent, fence, P, Q
  <2>6. LedgersInv'
    BY <1>1, <1>2, <2>4, <2>5, KeyStep, PipeSame
  <2>7. NamesInv'
    BY <1>1, <1>2, <1>3, <1>5, <2>5, NumberStep DEF k
  <2> QED BY <2>6, <2>7
<1>6. CASE led' = [led EXCEPT ![k] = l] /\ pipe' = pipe /\ room' = room
  <2> HIDE DEF l, k, sent, fence
  <2>1. LedgersInv'
    BY <1>1, <1>2, <1>6, KeyStep, PipeSame
  <2>2. NamesInv'
    BY <1>1, <1>2, <1>3, <1>6, NumberStep DEF k
  <2> QED BY <2>1, <2>2
<1> QED BY <1>4, <1>5, <1>6 DEF SendData

\* A keepalive.
LEMMA SendPingStep ==
  ASSUME LedgersInv, NamesInv, NEW n \in Numbers, NEW result, SendPing(fl, n, Online, result), fl' = fl
  PROVE  LedgersInv' /\ NamesInv'
<1> DEFINE k == KeyFor(fl, n)
           l == LedgerFor(fl, n)
           m == [l EXCEPT !.pings = @ + 1]
<1>1. k /= NoKey /\ demand' = demand /\ back' = back /\ room' = room
  BY DEF SendPing
<1>2. /\ k \in Keys /\ k = fl[n] /\ Books(l, pipe[k], back[k]) /\ LedgerOK(l)
      /\ Fits(l) = Fits(led[k])
  BY <1>1, Resolved DEF Books
<1>3. CASE /\ led' = [led EXCEPT ![k] = m]
           /\ pipe' = [pipe EXCEPT ![k] = Append(@, Keepalive)]
           /\ Resolve(fl, n)
  <2>1. /\ m.emitted = l.emitted /\ m.delivered = l.delivered /\ m.seq = l.seq /\ m.entries = l.entries
        /\ m.phase = l.phase /\ m.probing = l.probing /\ m.budget = l.budget /\ LedgerOK(m)
    <3> HIDE DEF l
    <3>1. l \in Ledger
      BY <1>2 DEF LedgerOK
    <3>2. /\ m.emitted = l.emitted /\ m.delivered = l.delivered /\ m.seq = l.seq /\ m.entries = l.entries
          /\ m.phase = l.phase /\ m.probing = l.probing /\ m.budget = l.budget
          /\ m.made = l.made /\ m.number = l.number /\ m \in Ledger
      BY <3>1 DEF Ledger
    <3> HIDE DEF m
    <3> QED BY <1>2, <3>2 DEF LedgerOK
  <2> HIDE DEF m, l, k
  <2>2. Books(m, Append(pipe[k], Keepalive), back[k])
    BY <1>2, <2>1, PingBooks, SameBooks
  <2>3. pipe' = [pipe EXCEPT ![k] = Append(pipe[k], Keepalive)]
    BY <1>3
  <2>4. LedgersInv'
    BY <1>1, <1>2, <1>3, <2>2, <2>3, KeyStep, PipeSame
  <2>5. Fits(m) = Fits(l)
    BY <2>1, SameFits
  <2>6. demand' \in [Numbers -> BOOLEAN]
    BY <1>1 DEF NamesInv
  <2>7. NamesInv'
    BY <1>1, <1>2, <1>3, <2>5, <2>6, NumberStep DEF k
  <2> QED BY <2>4, <2>7
<1>4. CASE led' = led /\ pipe' = pipe /\ keyOf' = keyOf
  <2>1. LedgersInv'
    BY <1>1, <1>4 DEF LedgersInv
  <2>2. NamesInv'
    BY <1>1, <1>4 DEF NamesInv, HintAgrees, fast_reject, Fits, budget, backlog
  <2> QED BY <2>1, <2>2
<1> QED BY <1>3, <1>4 DEF SendPing

\* on_received(): a plain PONG is counted, an echo credited.
LEMMA ReceivedStep ==
  ASSUME LedgersInv, NamesInv, NEW n \in Numbers, on_received(fl, n), fl' = fl
  PROVE  LedgersInv' /\ NamesInv'
<1> DEFINE k == KeyFor(fl, n)
           l == LedgerFor(fl, n)
           pong == Head(back[k])
           hit == {i \in 1 .. Len(l.entries) : l.entries[i].lo <= pong /\ pong <= l.entries[i].hi}
           counted == [l EXCEPT !.pongs = @ + 1]
           legacy == l.phase = "Bootstrap" /\ l.entries /= <<>> /\ counted.pongs > l.pings
           plain == IF legacy THEN enter_legacy(counted) ELSE counted
           after(b) == IF pong = 0 THEN plain
                       ELSE IF hit = {} THEN l
                       ELSE credit(l, CHOOSE i \in hit : TRUE, pong, b)
<1>1. /\ k /= NoKey /\ back[k] /= <<>> /\ back' = [back EXCEPT ![k] = Tail(@)] /\ Resolve(fl, n)
      /\ demand' = demand /\ pipe' = pipe
  BY DEF on_received
<1>2. /\ k \in Keys /\ k = fl[n] /\ Books(l, pipe[k], back[k]) /\ LedgerOK(l) /\ l \in Ledger
      /\ Fits(l) = Fits(led[k]) /\ l.number = n
  BY <1>1, Resolved DEF Books, LedgerOK
<1>3. PICK b \in {l.budget, Floor, MaxBudget} :
           /\ led' = [led EXCEPT ![k] = after(b)]
           /\ IF hit /= {} \/ after(b).phase /= l.phase THEN publish_hint(after(b)) ELSE room' = room
  BY DEF on_received
<1> DEFINE m == after(b)
<1>4. b \in Nat /\ Floor <= b
  BY <1>2, LedgerFields, GateConstants
<1>5. Books(l, pipe[k], Tail(back[k])) /\ pong \in Nat
  BY <1>1, <1>2, PongBooks
<1>6. ASSUME NEW i \in hit PROVE i \in 1 .. Len(l.entries) /\ Covers(l.entries[i], pong) /\ pong >= 1
  <2>1. i \in 1 .. Len(l.entries) /\ Covers(l.entries[i], pong)
    BY DEF Covers
  <2> HIDE DEF l, pong
  <2>2. 1 <= l.entries[i].lo /\ l.entries[i].lo \in Nat
    BY <1>2, <2>1, EntryFields
  <2> QED BY <1>5, <2>1, <2>2 DEF Covers
<1>7. /\ Books(m, pipe[k], Tail(back[k])) /\ m.number = n
      /\ hit /= {} \/ m.phase /= l.phase \/ Fits(m) = Fits(l)
  <2> HIDE DEF l, k
  <2>1. /\ counted.emitted = l.emitted /\ counted.delivered = l.delivered /\ counted.seq = l.seq
        /\ counted.entries = l.entries /\ counted.phase = l.phase /\ counted.probing = l.probing
        /\ counted.budget = l.budget /\ counted.made = l.made /\ counted.number = l.number
        /\ counted \in Ledger
    BY <1>2 DEF Ledger
  <2> HIDE DEF counted
  <2>2. LedgerOK(counted) /\ Fits(counted) = Fits(l)
    BY <1>2, <2>1, SameFits DEF LedgerOK
  <2>3. Books(counted, pipe[k], Tail(back[k]))
    BY <1>5, <2>1, <2>2, SameBooks
  <2>4. CASE pong = 0 /\ legacy
    <3>1. m = enter_legacy(counted)
      BY <2>4
    <3> HIDE DEF m, legacy
    <3>2. m.number = n /\ m.phase = "Legacy"
      BY <1>2, <2>1, <3>1 DEF enter_legacy, Ledger
    <3>3. Books(m, pipe[k], Tail(back[k]))
      BY <2>3, <3>1, LegacyBooks
    <3> QED BY <2>4, <3>2, <3>3 DEF legacy
  <2>5. CASE pong = 0 /\ ~legacy
    <3>1. m = counted
      BY <2>5
    <3> QED BY <1>2, <2>1, <2>2, <2>3, <3>1
  <2>6. CASE pong /= 0 /\ hit = {}
    <3>1. m = l
      BY <2>6
    <3> QED BY <1>2, <1>5, <3>1
  <2>7. CASE pong /= 0 /\ hit /= {}
    <3> DEFINE i == CHOOSE i \in hit : TRUE
    <3>1. i \in hit
      BY <2>7
    <3>2. m = credit(l, i, pong, b)
      BY <2>7
    <3> HIDE DEF i, hit
    <3>3. i \in 1 .. Len(l.entries) /\ Covers(l.entries[i], pong)
      BY <1>6, <3>1
    <3>4. Books(m, pipe[k], Tail(back[k]))
      <4> HIDE DEF m
      <4>1. Books(credit(l, i, Head(back[k]), b), pipe[k], Tail(back[k]))
        BY <1>1, <1>2, <1>4, <3>3, CreditBooks
      <4> QED BY <3>2, <4>1
    <3>5. m.number = n
      BY <1>2, <3>2 DEF credit, Ledger
    <3> QED BY <2>7, <3>4, <3>5
  <2> QED BY <2>4, <2>5, <2>6, <2>7
<1>8. led' = [led EXCEPT ![k] = m] /\ back' = [back EXCEPT ![k] = Tail(back[k])]
  BY <1>1, <1>3
<1>9. \/ room' = room /\ (Fits(led[k]) \/ ~Fits(m))
      \/ room' = [room EXCEPT ![n] = Room(m)] /\ LedgerOK(m)
  <2>1. CASE hit /= {} \/ m.phase /= l.phase
    BY <1>3, <1>7, <2>1 DEF publish_hint, Books
  <2>2. CASE ~(hit /= {} \/ m.phase /= l.phase)
    BY <1>2, <1>3, <1>7, <2>2
  <2> QED BY <2>1, <2>2
<1> HIDE DEF m, l, k, hit, pong
<1>10. LedgersInv'
  BY <1>1, <1>2, <1>7, <1>8, KeyStep, PipeSame
<1>11. NamesInv'
  <2>1. demand' \in [Numbers -> BOOLEAN]
    BY <1>1 DEF NamesInv
  <2> QED BY <1>1, <1>2, <1>8, <1>9, <2>1, NumberStep DEF k
<1> QED BY <1>10, <1>11

\* on_connection_status(): detection starts over, with no more budget than before.
LEMMA StatusStep ==
  ASSUME LedgersInv, NamesInv, NEW n \in Numbers, NEW up \in BOOLEAN,
         on_connection_status(fl, n, up), fl' = fl, pipe' = pipe, back' = back
  PROVE  LedgersInv' /\ NamesInv'
<1> DEFINE k == KeyFor(fl, n)
           l == LedgerFor(fl, n)
           again == [l EXCEPT !.phase = "Bootstrap", !.first = FALSE,
                              !.pongs = IF l.pings < @ THEN l.pings ELSE @]
           m == IF l.phase = "Bootstrap" THEN l ELSE again
<1>1. room' = room /\ demand' = demand
  BY DEF on_connection_status
<1>2. CASE up /\ k /= NoKey
  <2>1. led' = [led EXCEPT ![k] = m] /\ Resolve(fl, n)
    BY <1>2 DEF on_connection_status
  <2>2. /\ k \in Keys /\ k = fl[n] /\ Books(l, pipe[k], back[k]) /\ LedgerOK(l) /\ l \in Ledger
        /\ Fits(l) = Fits(led[k])
    BY <1>2, Resolved DEF Books, LedgerOK
  <2> HIDE DEF l, k
  <2>3. CASE l.phase = "Bootstrap"
    <3>1. m = l
      BY <2>3
    <3> HIDE DEF m
    <3>2. LedgersInv'
      BY <2>1, <2>2, <3>1, KeyStep, PipeSame
    <3>3. demand' \in [Numbers -> BOOLEAN]
      BY <1>1 DEF NamesInv
    <3>4. NamesInv'
      BY <1>1, <1>2, <2>1, <2>2, <3>1, <3>3, NumberStep DEF k
    <3> QED BY <3>2, <3>4
  <2>4. CASE l.phase /= "Bootstrap"
    <3>1. m = again
      BY <2>4
    <3>2. /\ again.emitted = l.emitted /\ again.delivered = l.delivered /\ again.seq = l.seq
          /\ again.entries = l.entries /\ again.phase = "Bootstrap" /\ again.probing = l.probing
          /\ again.budget = l.budget /\ again.made = l.made /\ again.number = l.number
          /\ again \in Ledger
      <4> DEFINE x == IF l.pings < l.pongs THEN l.pings ELSE l.pongs
      <4>1. x \in Nat
        BY <2>2, LedgerFields
      <4>2. again = [l EXCEPT !.phase = "Bootstrap", !.first = FALSE, !.pongs = x]
        BY <2>2 DEF Ledger
      <4> HIDE DEF x, again
      <4> QED BY <2>2, <4>1, <4>2 DEF Ledger
    <3> HIDE DEF m, again
    <3>3. LedgerOK(m)
      BY <2>2, <3>1, <3>2 DEF LedgerOK
    <3>4. Books(m, pipe[k], back[k])
      BY <2>2, <3>1, <3>2, <3>3, SameBooks
    <3>5. LedgersInv'
      BY <2>1, <2>2, <3>4, KeyStep, PipeSame
    <3>6. Fits(l) \/ ~Fits(m)
      <4>1. /\ l.probing \in BOOLEAN /\ l.emitted \in Nat /\ l.delivered \in Nat /\ l.budget \in Nat
            /\ Floor \in Nat /\ Floor <= l.budget
        BY <2>2, LedgerFields, GateConstants
      <4> QED BY <3>1, <3>2, <4>1 DEF Fits, budget, backlog
    <3>7. demand' \in [Numbers -> BOOLEAN]
      BY <1>1 DEF NamesInv
    <3>8. NamesInv'
      BY <1>1, <1>2, <2>1, <2>2, <3>6, <3>7, NumberStep DEF k
    <3> QED BY <3>5, <3>8
  <2> QED BY <2>3, <2>4
<1>3. CASE ~(up /\ k /= NoKey)
  <2>1. led' = led /\ keyOf' = keyOf
    BY <1>3 DEF on_connection_status
  <2>2. LedgersInv'
    BY <2>1 DEF LedgersInv
  <2>3. NamesInv'
    BY <1>1, <2>1 DEF NamesInv, HintAgrees, fast_reject, Fits, budget, backlog
  <2> QED BY <2>2, <2>3
<1> QED BY <1>2, <1>3

\* A friend is added or removed: its number is forgotten.
LEMMA ForgetNames ==
  ASSUME NamesInv, NEW n \in Numbers, forget_friend_number(n),
         fl' \in [Numbers -> Keys \cup {NoKey}],
         \A o \in Numbers : o /= n => fl'[o] = fl[o],
         fl'[n] = NoKey \/ \A o \in Numbers : fl[o] /= fl'[n]
  PROVE  NamesInv'
<1>1. /\ keyOf' = [keyOf EXCEPT ![n] = NoKey] /\ room' = [room EXCEPT ![n] = Open]
      /\ demand' = [demand EXCEPT ![n] = FALSE] /\ led' = led
  BY DEF forget_friend_number
<1>2. /\ keyOf' \in [Numbers -> Keys \cup {NoKey}] /\ room' \in [Numbers -> Int]
      /\ demand' \in [Numbers -> BOOLEAN]
      /\ \A o \in Numbers : keyOf'[o] \in {NoKey, fl'[o]}
  BY <1>1, GateConstants DEF NamesInv
<1>3. \A o, p \in Numbers : fl'[o] = fl'[p] /\ fl'[p] /= NoKey => o = p
  BY DEF NamesInv
<1>4. ASSUME NEW o \in Numbers, room'[o] < 1
      PROVE  keyOf'[o] /= NoKey /\ ~Fits(led'[keyOf'[o]])
  <2>1. o /= n /\ room[o] < 1 /\ keyOf'[o] = keyOf[o]
    BY <1>1, <1>4, GateConstants DEF NamesInv
  <2> QED BY <1>1, <2>1 DEF NamesInv, HintAgrees, fast_reject
<1>5. HintAgrees'
  BY <1>4 DEF HintAgrees, fast_reject, Fits, budget, backlog
<1> QED BY <1>2, <1>3, <1>5 DEF NamesInv

\* What is under way to a key breaks off, or arrives later.
LEMMA BreakStep ==
  ASSUME LedgersInv, NEW k \in Keys, NEW kept \in BOOLEAN, StreamBreaks(k, kept), led' = led
  PROVE  LedgersInv'
<1>1. CASE kept
  <2>1. pipe' = pipe /\ back' = back
    BY <1>1 DEF StreamBreaks, LedgersInv
  <2> QED BY <2>1 DEF LedgersInv
<1>2. CASE ~kept
  <2>1. pipe' = [pipe EXCEPT ![k] = <<>>] /\ back' = [back EXCEPT ![k] = <<>>]
    BY <1>2 DEF StreamBreaks
  <2>2. led' = [led EXCEPT ![k] = led[k]]
    BY DEF LedgersInv
  <2>3. Books(led[k], <<>>, <<>>)
    BY EmptyBooks DEF LedgersInv, Books
  <2> QED BY <2>1, <2>2, <2>3, KeyStep
<1> QED BY <1>1, <1>2

\* The peer reads.
LEMMA ReadStep ==
  ASSUME LedgersInv, NEW k \in Keys, NEW e, PeerReads(k, e)
  PROVE  LedgersInv'
<1> DEFINE x == Head(pipe[k])
           R == IF x = Data THEN <<>> ELSE IF x > 0 /\ e THEN <<x>> ELSE << 0 >>
<1>1. /\ pipe[k] /= <<>> /\ pipe' = [pipe EXCEPT ![k] = Tail(pipe[k])]
      /\ back' = [back EXCEPT ![k] = back[k] \o R] /\ led' = led
  BY DEF PeerReads
<1>2. \/ R = <<>> \/ R = << 0 >>
      \/ R = <<Head(pipe[k])>> /\ Head(pipe[k]) > 0
  OBVIOUS
<1> HIDE DEF R
<1>3. Books(led[k], pipe[k], back[k])
  BY DEF LedgersInv
<1>4. Books(led[k], Tail(pipe[k]), back[k] \o R)
  BY <1>1, <1>2, <1>3, ReadBooks
<1>5. led' = [led EXCEPT ![k] = led[k]]
  BY <1>1 DEF LedgersInv
<1> QED BY <1>1, <1>4, <1>5, KeyStep

\* on_tick() for one ledger: the counts, the fences and the entries stay, or
\* the entries go.
LEMMA TickedBooks ==
  ASSUME LedgersInv, NamesInv, NEW k \in Keys, Named(k), NEW d
  PROVE  Books(Ticked(k, d), pipe[k], back[k])
<1> DEFINE l == led[k]
           legacy == l.phase = "Bootstrap" /\ l.first /\ d = "old"
           starts == l.phase = "Active" /\ ~l.probing /\ l.refused /\ d = "probe"
           rf == l.refused \/ demand[l.number]
           bd == IF d = "aged" THEN Floor ELSE l.budget
           pr == l.probing \/ starts
           rl == IF starts THEN FALSE ELSE l.released
           p == [l EXCEPT !.refused = rf, !.budget = bd, !.probing = pr, !.released = rl]
           ends == p.probing /\ p.released /\ backlog(p) = 0
           m == [p EXCEPT !.probing = pr /\ ~ends]
<1>1. Books(l, pipe[k], back[k]) /\ LedgerOK(l) /\ l \in Ledger /\ l.number \in Numbers
  BY DEF LedgersInv, Books, LedgerOK, Named
<1>2. Ticked(k, d) = IF l.phase = "Legacy" THEN l ELSE IF legacy THEN enter_legacy(l) ELSE m
  BY <1>1 DEF Ticked, Ledger
<1>3. CASE l.phase = "Legacy"
  BY <1>1, <1>2, <1>3
<1>4. CASE l.phase /= "Legacy" /\ legacy
  BY <1>1, <1>2, <1>4, LegacyBooks
<1>5. CASE l.phase /= "Legacy" /\ ~legacy
  <2>7. bd \in Nat /\ Floor <= bd
    BY <1>1, LedgerFields, GateConstants
  <2>8. rf \in BOOLEAN /\ pr \in BOOLEAN
    OBVIOUS
  <2>9. l.released \in BOOLEAN
    BY <1>1, LedgerFields
  <2>10. rl \in BOOLEAN
    <3> HIDE DEF l
    <3> QED BY <2>9
  <2>1. /\ rf \in BOOLEAN /\ bd \in Nat /\ Floor <= bd /\ pr \in BOOLEAN /\ rl \in BOOLEAN
    BY <2>7, <2>8, <2>10
  <2> HIDE DEF l, rf, bd, pr, rl
  <2>2. /\ p \in Ledger /\ p.emitted = l.emitted /\ p.delivered = l.delivered /\ p.seq = l.seq
        /\ p.entries = l.entries /\ p.budget = bd /\ p.made = l.made /\ p.number = l.number
    BY <1>1, <2>1 DEF Ledger
  <2> DEFINE q == pr /\ ~ends
  <2>3. q \in BOOLEAN /\ m = [p EXCEPT !.probing = q]
    OBVIOUS
  <2> HIDE DEF p, q, m, ends
  <2>4. /\ m \in Ledger /\ m.emitted = p.emitted /\ m.delivered = p.delivered /\ m.seq = p.seq
        /\ m.entries = p.entries /\ m.budget = p.budget /\ m.made = p.made /\ m.number = p.number
    BY <2>2, <2>3 DEF Ledger
  <2>5. LedgerOK(m)
    BY <1>1, <2>1, <2>2, <2>4 DEF LedgerOK
  <2>6. Books(m, pipe[k], back[k])
    BY <1>1, <2>2, <2>4, <2>5, SameBooks
  <2> QED BY <1>2, <1>5, <2>6
<1> QED BY <1>3, <1>4, <1>5

LEMMA FenceFits ==
  ASSUME NEW l, LedgerOK(l)
  PROVE  Fits(record_fence(l)) = Fits(l)
<1> DEFINE m == record_fence(l)
<1>1. /\ m.phase = l.phase /\ m.probing = l.probing /\ m.emitted = l.emitted
      /\ m.delivered = l.delivered /\ m.budget = l.budget
  BY DEF LedgerOK, Ledger, record_fence
<1> QED BY <1>1, SameFits

\* on_tick().
LEMMA TickStep ==
  ASSUME LedgersInv, NamesInv, NEW on, NEW d, on_tick(on, d), fl' = fl
  PROVE  LedgersInv' /\ NamesInv'
<1> DEFINE ticking == {k \in Keys : Named(k) /\ led[k].phase /= "Legacy"}
           t == [k \in Keys |-> IF k \in ticking THEN Ticked(k, d) ELSE led[k]]
           fence == {k \in ticking : /\ t[k].phase /= "Legacy"
                                     /\ WantsFence(t[k], led[k].refused, d = "due")
                                     /\ on[k] /\ Accepts(k)}
<1>1. /\ led' = [k \in Keys |-> IF k \in fence THEN record_fence(t[k]) ELSE t[k]]
      /\ pipe' = [k \in Keys |-> IF k \in fence THEN Append(pipe[k], t[k].seq) ELSE pipe[k]]
      /\ room' = [n \in Numbers |-> IF keyOf[n] \in ticking THEN Room(t[keyOf[n]]) ELSE room[n]]
      /\ demand' = [n \in Numbers |->
                      /\ demand[n]
                      /\ ~(keyOf[n] \in ticking /\ t[keyOf[n]].phase /= "Legacy")]
      /\ keyOf' = keyOf /\ back' = back
  BY DEF on_tick
<1>2. \A k \in ticking : k \in Keys /\ Named(k)
  OBVIOUS
<1>3. \A k \in fence : k \in Keys
  OBVIOUS
<1>4. \A k \in Keys : Books(t[k], pipe[k], back[k]) /\ (k \notin ticking => t[k] = led[k])
  <2> HIDE DEF ticking
  <2> SUFFICES ASSUME NEW k \in Keys
               PROVE  Books(t[k], pipe[k], back[k]) /\ (k \notin ticking => t[k] = led[k])
    OBVIOUS
  <2>1. CASE k \in ticking
    BY <1>2, <2>1, TickedBooks
  <2>2. CASE k \notin ticking
    BY <2>2 DEF LedgersInv
  <2> QED BY <2>1, <2>2
<1>12. \A k \in fence : k \in ticking
  OBVIOUS
<1> HIDE DEF ticking, t, fence
<1>5. \A k \in Keys : led'[k] = IF k \in fence THEN record_fence(t[k]) ELSE t[k]
  BY <1>1
<1>6. ASSUME NEW k \in Keys
      PROVE  Books(led'[k], pipe'[k], back'[k]) /\ Fits(led'[k]) = Fits(t[k])
  <2>1. CASE k \in fence
    <3>1. led'[k] = record_fence(t[k]) /\ pipe'[k] = Append(pipe[k], t[k].seq)
      BY <1>1, <2>1
    <3> QED BY <1>1, <1>4, <3>1, FenceBooks, FenceFits DEF Books
  <2>2. CASE k \notin fence
    <3>1. led'[k] = t[k] /\ pipe'[k] = pipe[k]
      BY <1>1, <2>2
    <3> QED BY <1>1, <1>4, <3>1
  <2> QED BY <2>1, <2>2
<1>7. LedgersInv'
  <2>1. \A k \in Keys : led'[k] \in Ledger /\ pipe'[k] \in Seq(Int) /\ back'[k] \in Seq(Nat)
    BY <1>6 DEF Books, LedgerOK, Follows
  <2>2. led' \in [Keys -> Ledger] /\ pipe' \in [Keys -> Seq(Int)] /\ back' \in [Keys -> Seq(Nat)]
    BY <1>1, <2>1 DEF LedgersInv
  <2> QED BY <1>6, <2>2 DEF LedgersInv
<1>8. ASSUME NEW n \in Numbers
      PROVE  /\ room'[n] \in Int
             /\ room'[n] < 1 => keyOf[n] /= NoKey /\ ~Fits(led'[keyOf[n]])
  <2>1. CASE keyOf[n] \in ticking
    <3> DEFINE k == keyOf[n]
    <3>1. k \in Keys /\ k /= NoKey /\ room'[n] = Room(t[k])
      BY <1>1, <1>2, <2>1, GateConstants
    <3>2. LedgerOK(t[k])
      BY <1>4, <3>1 DEF Books
    <3>3. Room(t[k]) \in Int /\ (Room(t[k]) < 1 => ~Fits(t[k]))
      BY <3>2, RoomHonest
    <3> QED BY <1>6, <3>1, <3>3
  <2>2. CASE keyOf[n] \notin ticking
    <3>1. room'[n] = room[n] /\ room[n] \in Int
      BY <1>1, <2>2 DEF NamesInv
    <3>2. ASSUME room[n] < 1
          PROVE  keyOf[n] /= NoKey /\ ~Fits(led'[keyOf[n]])
      <4>1. keyOf[n] \in Keys /\ keyOf[n] /= NoKey /\ ~Fits(led[keyOf[n]])
        BY <3>2, GateConstants DEF NamesInv, HintAgrees, fast_reject
      <4>2. Fits(led'[keyOf[n]]) = Fits(t[keyOf[n]]) /\ t[keyOf[n]] = led[keyOf[n]]
        BY <1>4, <1>6, <2>2, <4>1
      <4> QED BY <4>1, <4>2
    <3> QED BY <3>1, <3>2
  <2> QED BY <2>1, <2>2
<1>9. room' \in [Numbers -> Int] /\ demand' \in [Numbers -> BOOLEAN]
  <2>1. room' \in [Numbers -> Int]
    BY <1>1, <1>8
  <2>2. \A n \in Numbers : demand'[n] \in BOOLEAN
    BY <1>1
  <2> QED BY <1>1, <2>1, <2>2
<1>10. HintAgrees'
  BY <1>1, <1>8 DEF HintAgrees, fast_reject, Fits, budget, backlog
<1>11. NamesInv'
  BY <1>1, <1>9, <1>10 DEF NamesInv
<1> QED BY <1>7, <1>11

\* The demand of a number is noted, or a refusal is out of date.
LEMMA DemandStep ==
  ASSUME LedgersInv, NamesInv, fl' = fl,
         (\E n \in Numbers : NoteDemand(n)) \/ (\E k \in Keys : DemandExpires(k))
  PROVE  LedgersInv' /\ NamesInv'
<1>1. CASE \E n \in Numbers : NoteDemand(n)
  <2>1. led' = led /\ keyOf' = keyOf /\ room' = room /\ pipe' = pipe /\ back' = back
    BY <1>1 DEF NoteDemand
  <2>2. demand' \in [Numbers -> BOOLEAN]
    BY <1>1 DEF NoteDemand, NamesInv
  <2>3. LedgersInv'
    BY <2>1 DEF LedgersInv
  <2>4. NamesInv'
    BY <2>1, <2>2 DEF NamesInv, HintAgrees, fast_reject, Fits, budget, backlog
  <2> QED BY <2>3, <2>4
<1>2. ASSUME NEW k \in Keys, DemandExpires(k)
      PROVE  LedgersInv' /\ NamesInv'
  <2> DEFINE l == led[k]  m == [l EXCEPT !.refused = FALSE]
  <2>1. /\ led' = [led EXCEPT ![k] = m] /\ keyOf' = keyOf /\ room' = room /\ demand' = demand
        /\ pipe' = pipe /\ back' = back
    BY <1>2 DEF DemandExpires
  <2>2. Books(l, pipe[k], back[k]) /\ LedgerOK(l) /\ l \in Ledger
    BY DEF LedgersInv, Books, LedgerOK
  <2> HIDE DEF l
  <2>3. /\ m.emitted = l.emitted /\ m.delivered = l.delivered /\ m.seq = l.seq /\ m.entries = l.entries
        /\ m.phase = l.phase /\ m.probing = l.probing /\ m.budget = l.budget
        /\ m.made = l.made /\ m.number = l.number /\ m \in Ledger
    BY <2>2 DEF Ledger
  <2> HIDE DEF m
  <2>4. LedgerOK(m)
    BY <2>2, <2>3 DEF LedgerOK
  <2>5. Books(m, pipe[k], back[k]) /\ Fits(m) = Fits(l)
    BY <2>2, <2>3, <2>4, SameBooks, SameFits
  <2>6. LedgersInv'
    BY <2>1, <2>5, KeyStep, PipeSame
  <2>7. \A j \in Keys : Fits(led'[j]) = Fits(led[j])
    <3> SUFFICES ASSUME NEW j \in Keys PROVE Fits(led'[j]) = Fits(led[j])
      OBVIOUS
    <3>1. CASE j = k
      BY <2>1, <2>5, <3>1 DEF LedgersInv, l
    <3>2. CASE j /= k
      BY <2>1, <3>2 DEF LedgersInv
    <3> QED BY <3>1, <3>2
  <2>8. ASSUME NEW n \in Numbers, room[n] < 1
        PROVE  keyOf[n] /= NoKey /\ ~Fits(led'[keyOf[n]])
    <3>1. keyOf[n] \in Keys /\ keyOf[n] /= NoKey /\ ~Fits(led[keyOf[n]])
      BY <2>8, GateConstants DEF NamesInv, HintAgrees, fast_reject
    <3> QED BY <2>7, <3>1
  <2>9. HintAgrees'
    BY <2>1, <2>8 DEF HintAgrees, fast_reject, Fits, budget, backlog
  <2>10. NamesInv'
    BY <2>1, <2>9 DEF NamesInv
  <2> QED BY <2>6, <2>10
<1> QED BY <1>1, <1>2

----------------------------------------------------------------------------
(* The adapter's steps on the gate and the friends. *)

LEMMA GateSame ==
  ASSUME LedgersInv, NamesInv, UNCHANGED gateVars, fl' = fl
  PROVE  LedgersInv' /\ NamesInv'
<1>1. led' = led /\ keyOf' = keyOf /\ room' = room /\ demand' = demand /\ pipe' = pipe /\ back' = back
  BY DEF gateVars
<1>2. LedgersInv'
  BY <1>1 DEF LedgersInv
<1>3. NamesInv'
  BY <1>1 DEF NamesInv, HintAgrees, fast_reject, Fits, budget, backlog
<1> QED BY <1>2, <1>3

LEMMA EdgesSame ==
  ASSUME EdgesInv, trans' = trans, events' = events, heard' = heard
  PROVE  EdgesInv'
BY DEF EdgesInv, Story, Alternates, EndsDown

\* A removed friend's edges are not compared any more.
LEMMA RemovedEdges ==
  ASSUME EdgesInv, NEW n \in Numbers, trans' = [trans EXCEPT ![n] = None],
         heard' = [heard EXCEPT ![n] = Append(@, "removed")], events' = events
  PROVE  EdgesInv'
<1>1. trans' \in [Numbers -> {None, "tcp", "udp"}] /\ events' \in [Numbers -> Seq({"up", "down"})]
  BY DEF EdgesInv
<1>2. heard[n] \in Seq({"up", "down", "removed"})
  BY DEF EdgesInv
<1> DEFINE w == Append(heard[n], "removed")
<1>3. w \in Seq({"up", "down", "removed"}) /\ "removed" \in ToSet(w)
  <2>1. /\ w \in Seq({"up", "down", "removed"}) /\ Len(w) = Len(heard[n]) + 1 /\ Len(heard[n]) \in Nat
        /\ w[Len(heard[n]) + 1] = "removed"
    BY <1>2
  <2> HIDE DEF w
  <2> QED BY <2>1 DEF ToSet
<1>4. heard' = [heard EXCEPT ![n] = w]
  OBVIOUS
<1> HIDE DEF w
<1>5. heard' \in [Numbers -> Seq({"up", "down", "removed"})]
  BY <1>3, <1>4 DEF EdgesInv
<1>6. ASSUME NEW o \in Numbers, "removed" \notin ToSet(heard'[o])
      PROVE  Alternates(Story(o))' /\ (trans'[o] = None <=> EndsDown(Story(o))')
  <2>1. o /= n
    BY <1>3, <1>4, <1>6 DEF EdgesInv
  <2>2. heard'[o] = heard[o] /\ trans'[o] = trans[o] /\ events'[o] = events[o]
    BY <1>4, <2>1 DEF EdgesInv
  <2>3. "removed" \notin ToSet(heard[o])
    BY <1>6, <2>2
  <2>4. Alternates(Story(o)) /\ (trans[o] = None <=> EndsDown(Story(o)))
    BY <2>3 DEF EdgesInv
  <2>5. Story(o)' = Story(o)
    BY <2>2 DEF Story
  <2>6. Alternates(Story(o)') /\ (trans'[o] = None <=> EndsDown(Story(o)'))
    BY <2>2, <2>4, <2>5
  <2> QED BY <2>6
<1> QED BY <1>1, <1>5, <1>6 DEF EdgesInv

\* The bodies of the public calls.
LEMMA ExecuteStep ==
  ASSUME LedgersInv, NamesInv, EdgesInv, NEW c, NEW result, Execute(c, result), events' = events,
         cl[c].what \in {"data", "ping", "add", "remove"}, cl[c].n \in Numbers
  PROVE  LedgersInv' /\ NamesInv' /\ EdgesInv'
<1> DEFINE n == cl[c].n
<1>1. CASE cl[c].what \in {"data", "ping"}
  <2>1. SendPacket(cl[c].what, n, result)
    BY <1>1 DEF Execute
  <2>2. fl' = fl /\ EdgesInv'
    BY <2>1, EdgesSame DEF SendPacket
  <2>3. \/ UNCHANGED gateVars
        \/ SendData(fl, n, Online, result)
        \/ SendPing(fl, n, Online, result)
    BY <2>1 DEF SendPacket
  <2>4. LedgersInv' /\ NamesInv'
    <3> HIDE DEF n
    <3>1. n \in Numbers
      BY DEF n
    <3> QED BY <2>2, <2>3, <3>1, GateSame, SendDataStep, SendPingStep
  <2> QED BY <2>2, <2>4
<1>2. CASE cl[c].what = "add"
  <2>1. AddFriend(result)
    BY <1>2 DEF Execute
  <2>2. EdgesInv' /\ pipe' = pipe /\ back' = back
    BY <2>1, EdgesSame DEF AddFriend
  <2>3. CASE UNCHANGED <<fl, led, keyOf, room, demand>>
    <3>1. UNCHANGED gateVars /\ fl' = fl
      BY <2>2, <2>3 DEF gateVars
    <3> QED BY <2>2, <3>1, GateSame
  <2>4. ASSUME NEW k \in Keys, \A o \in Numbers : fl[o] /= k,
               fl' = [fl EXCEPT ![FreeNumber] = k], forget_friend_number(FreeNumber),
               \E o \in Numbers : fl[o] = NoKey
        PROVE  LedgersInv' /\ NamesInv'
    <3> DEFINE f == FreeNumber
    <3>1. f \in Numbers
      BY <2>4 DEF FreeNumber
    <3> HIDE DEF f
    <3>2. /\ fl' \in [Numbers -> Keys \cup {NoKey}] /\ fl'[f] = k
          /\ \A o \in Numbers : o /= f => fl'[o] = fl[o]
      BY <2>4, <3>1 DEF NamesInv, f
    <3>3. NamesInv'
      BY <2>4, <3>1, <3>2, ForgetNames DEF f
    <3>4. LedgersInv'
      BY <2>2, <2>4 DEF LedgersInv, forget_friend_number
    <3> QED BY <3>3, <3>4
  <2> QED BY <2>1, <2>2, <2>3, <2>4 DEF AddFriend
<1>3. CASE cl[c].what = "remove"
  <2>1. remove_friend(n, result)
    BY <1>3 DEF Execute
  <2>2. CASE fl[n] = NoKey
    <3>1. UNCHANGED gateVars /\ fl' = fl /\ trans' = trans /\ heard' = heard
      BY <2>1, <2>2 DEF remove_friend
    <3> QED BY <3>1, GateSame, EdgesSame
  <2>3. CASE fl[n] /= NoKey
    <3> HIDE DEF n
    <3>1. /\ fl' = [fl EXCEPT ![n] = NoKey] /\ trans' = [trans EXCEPT ![n] = None]
          /\ heard' = [heard EXCEPT ![n] = Append(@, "removed")]
          /\ forget_friend_number(n) /\ StreamBreaks(fl[n], FALSE)
      BY <2>1, <2>3 DEF remove_friend
    <3>2. n \in Numbers
      BY DEF n
    <3>3. EdgesInv'
      BY <3>1, <3>2, RemovedEdges
    <3>4. fl[n] \in Keys /\ led' = led
      BY <2>3, <3>1, <3>2 DEF NamesInv, forget_friend_number
    <3>5. LedgersInv'
      BY <3>1, <3>4, BreakStep
    <3>6. /\ fl' \in [Numbers -> Keys \cup {NoKey}] /\ fl'[n] = NoKey
          /\ \A o \in Numbers : o /= n => fl'[o] = fl[o]
      BY <3>1, <3>2 DEF NamesInv
    <3>7. NamesInv'
      BY <3>1, <3>2, <3>6, ForgetNames
    <3> QED BY <3>3, <3>5, <3>7
  <2> QED BY <2>2, <2>3
<1> QED BY <1>1, <1>2, <1>3

\* A new edge: the story goes on with the other word.
LEMMA StoryGrows ==
  ASSUME NEW h \in Seq({"up", "down", "removed"}), NEW ev \in Seq({"up", "down"}),
         NEW x \in {"up", "down"}, Alternates(h \o ev),
         x = "down" <=> ~EndsDown(h \o ev)
  PROVE  Alternates(h \o Append(ev, x)) /\ (EndsDown(h \o Append(ev, x)) <=> x = "down")
<1> DEFINE w == h \o ev  v == h \o Append(ev, x)
<1>1. /\ w \in Seq({"up", "down", "removed"}) /\ Len(w) \in Nat /\ Len(v) = Len(w) + 1
      /\ v[Len(w) + 1] = x /\ \A i \in 1 .. Len(w) : v[i] = w[i]
  OBVIOUS
<1>2. Alternates(w) /\ (x = "down" <=> ~EndsDown(w))
  OBVIOUS
<1> HIDE DEF w, v
<1>3. w /= <<>> => Len(w) \in 1 .. Len(w)
  BY <1>1
<1>4. w = <<>> => Len(w) = 0
  OBVIOUS
<1>5. ASSUME Len(w) >= 1 PROVE w[Len(w)] /= x
  <2>1. w /= <<>>
    BY <1>4, <1>5
  <2> QED BY <1>2, <2>1 DEF EndsDown
<1>6. ASSUME NEW i \in 1 .. Len(v) - 1 PROVE v[i] /= v[i + 1]
  <2>1. CASE i = Len(w)
    BY <1>1, <1>5, <2>1
  <2>2. CASE i \in 1 .. Len(w) - 1
    BY <1>1, <1>2, <2>2 DEF Alternates
  <2> QED BY <1>1, <2>1, <2>2
<1>7. v /= <<>>
  BY <1>1
<1>8. Alternates(v) /\ (EndsDown(v) <=> x = "down")
  BY <1>1, <1>6, <1>7 DEF Alternates, EndsDown
<1> QED BY <1>8 DEF v

\* on_friend_connection_status_cb().
LEMMA CallbackEdges ==
  ASSUME EdgesInv, NEW n \in Numbers, NEW status \in {None, "tcp", "udp"},
         on_friend_connection_status_cb(n, status), heard' = heard
  PROVE  EdgesInv'
<1>1. trans' = [trans EXCEPT ![n] = status] /\ trans' \in [Numbers -> {None, "tcp", "udp"}]
  BY DEF on_friend_connection_status_cb, EdgesInv
<1>2. CASE (trans[n] = None) = (status = None)
  <2>1. events' = events
    BY <1>2 DEF on_friend_connection_status_cb
  <2>2. \A o \in Numbers : (trans'[o] = None) = (trans[o] = None)
    BY <1>1, <1>2 DEF EdgesInv
  <2>3. \A o \in Numbers : Story(o)' = Story(o) /\ heard'[o] = heard[o]
    BY <2>1 DEF Story
  <2>4. ASSUME NEW o \in Numbers, "removed" \notin ToSet(heard'[o])
        PROVE  Alternates(Story(o)') /\ (trans'[o] = None <=> EndsDown(Story(o)'))
    BY <2>2, <2>3, <2>4 DEF EdgesInv
  <2> QED BY <1>1, <2>1, <2>4 DEF EdgesInv
<1>3. CASE (trans[n] = None) /= (status = None)
  <2> DEFINE x == IF status = None THEN "down" ELSE "up"
  <2>1. events' = [events EXCEPT ![n] = Append(events[n], x)]
    BY <1>3 DEF on_friend_connection_status_cb
  <2>2. x \in {"up", "down"} /\ (x = "down" <=> status = None)
    OBVIOUS
  <2> HIDE DEF x
  <2>3. events[n] \in Seq({"up", "down"}) /\ heard[n] \in Seq({"up", "down", "removed"})
    BY DEF EdgesInv
  <2>4. Append(events[n], x) \in Seq({"up", "down"})
    BY <2>2, <2>3
  <2>5. events' \in [Numbers -> Seq({"up", "down"})]
    BY <2>1, <2>4 DEF EdgesInv
  <2>6. ASSUME NEW o \in Numbers, "removed" \notin ToSet(heard[o])
        PROVE  /\ Alternates(heard[o] \o events'[o])
               /\ trans'[o] = None <=> EndsDown(heard[o] \o events'[o])
    <3>1. Alternates(heard[o] \o events[o]) /\ (trans[o] = None <=> EndsDown(heard[o] \o events[o]))
      BY <2>6 DEF EdgesInv, Story
    <3>2. CASE o /= n
      <4>1. events'[o] = events[o] /\ trans'[o] = trans[o]
        BY <1>1, <2>1, <3>2 DEF EdgesInv
      <4> QED BY <3>1, <4>1
    <3>3. CASE o = n
      <4>1. events'[n] = Append(events[n], x) /\ trans'[n] = status
        BY <1>1, <2>1 DEF EdgesInv
      <4>2. x = "down" <=> ~EndsDown(heard[n] \o events[n])
        BY <1>3, <2>2, <3>1, <3>3
      <4>3. /\ Alternates(heard[n] \o Append(events[n], x))
            /\ EndsDown(heard[n] \o Append(events[n], x)) <=> x = "down"
        BY <2>2, <2>3, <3>1, <3>3, <4>2, StoryGrows
      <4> QED BY <2>2, <3>3, <4>1, <4>3
    <3> QED BY <3>2, <3>3
  <2>7. \A o \in Numbers : Story(o)' = heard[o] \o events'[o]
    BY DEF Story
  <2>8. ASSUME NEW o \in Numbers, "removed" \notin ToSet(heard'[o])
        PROVE  Alternates(Story(o)') /\ (trans'[o] = None <=> EndsDown(Story(o)'))
    BY <2>6, <2>7, <2>8
  <2> QED BY <1>1, <2>5, <2>8 DEF EdgesInv
<1> QED BY <1>2, <1>3

\* dispatch_pending_events().
LEMMA DispatchEdges ==
  ASSUME EdgesInv, trans' = trans, heard' = [n \in Numbers |-> heard[n] \o events[n]],
         events' = [n \in Numbers |-> <<>>]
  PROVE  EdgesInv'
<1>1. \A n \in Numbers : events[n] \in Seq({"up", "down"}) /\ heard[n] \in Seq({"up", "down", "removed"})
  BY DEF EdgesInv
<1>2. ASSUME NEW n \in Numbers
      PROVE  /\ heard'[n] \in Seq({"up", "down", "removed"}) /\ events'[n] = <<>>
             /\ heard'[n] \o events'[n] = heard[n] \o events[n]
             /\ "removed" \in ToSet(heard[n]) => "removed" \in ToSet(heard'[n])
  <2> DEFINE h == heard[n]  e == events[n]
  <2>1. h \in Seq({"up", "down", "removed"}) /\ e \in Seq({"up", "down"})
    BY <1>1
  <2>2. heard'[n] = h \o e /\ events'[n] = <<>>
    OBVIOUS
  <2> HIDE DEF h, e
  <2>3. h \o e \in Seq({"up", "down", "removed"}) /\ (h \o e) \o <<>> = h \o e
    BY <2>1
  <2>4. Len(h \o e) = Len(h) + Len(e) /\ Len(h) \in Nat /\ Len(e) \in Nat /\ \A i \in 1 .. Len(h) : (h \o e)[i] = h[i]
    BY <2>1
  <2>5. "removed" \in ToSet(h) => "removed" \in ToSet(h \o e)
    <3>1. DOMAIN h = 1 .. Len(h) /\ DOMAIN (h \o e) = 1 .. Len(h) + Len(e)
      BY <2>1, <2>3, <2>4
    <3> QED BY <2>4, <3>1 DEF ToSet
  <2> QED BY <2>2, <2>3, <2>5 DEF h, e
<1>3. heard' \in [Numbers -> Seq({"up", "down", "removed"})] /\ events' \in [Numbers -> Seq({"up", "down"})]
  <2>1. <<>> \in Seq({"up", "down"})
    OBVIOUS
  <2> QED BY <1>2, <2>1
<1>4. \A n \in Numbers : Story(n)' = Story(n)
  BY <1>2 DEF Story
<1>5. ASSUME NEW n \in Numbers, "removed" \notin ToSet(heard'[n])
      PROVE  Alternates(Story(n)') /\ (trans'[n] = None <=> EndsDown(Story(n)'))
  BY <1>2, <1>4, <1>5 DEF EdgesInv
<1> QED BY <1>3, <1>5 DEF EdgesInv

----------------------------------------------------------------------------
(* The callers and their tasks. *)

CallOK(r) == r \in Calling /\ (r.pc /= "idle" => r.what /= "none" /\ r.n \in Numbers)

LEMMA CallersSame ==
  ASSUME CallersInv, cl' = cl, tasks' = tasks, local' = local
  PROVE  CallersInv'
BY DEF CallersInv

\* A caller that is not queued goes on.
LEMMA CallerMoves ==
  ASSUME CallersInv, NEW c \in Callers, cl[c].pc /= "wait", NEW r, CallOK(r),
         cl' = [cl EXCEPT ![c] = r], tasks' = tasks, local' = local
  PROVE  CallersInv'
<1>1. cl' \in [Callers -> Calling] /\ \A d \in Callers : CallOK(cl'[d])
  BY DEF CallersInv, CallOK
<1>2. \A i \in 1 .. Len(tasks) : tasks[i] \in Callers /\ tasks[i] /= c /\ cl'[tasks[i]] = cl[tasks[i]]
  <2> SUFFICES ASSUME NEW i \in 1 .. Len(tasks)
               PROVE  tasks[i] \in Callers /\ tasks[i] /= c /\ cl'[tasks[i]] = cl[tasks[i]]
    OBVIOUS
  <2>1. tasks[i] \in Callers /\ tasks[i] /= c
    BY ElementOfSeq DEF CallersInv
  <2> QED BY <2>1 DEF CallersInv
<1>3. \A i \in 1 .. Len(local) : local[i] \in Callers /\ local[i] /= c /\ cl'[local[i]] = cl[local[i]]
  <2> SUFFICES ASSUME NEW i \in 1 .. Len(local)
               PROVE  local[i] \in Callers /\ local[i] /= c /\ cl'[local[i]] = cl[local[i]]
    OBVIOUS
  <2>1. local[i] \in Callers /\ local[i] /= c
    BY ElementOfSeq DEF CallersInv
  <2> QED BY <2>1 DEF CallersInv
<1> QED BY <1>1, <1>2, <1>3 DEF CallersInv, CallOK

\* A caller posts its task.
LEMMA CallerPosts ==
  ASSUME CallersInv, NEW c \in Callers, cl[c].pc = "post",
         cl' = [cl EXCEPT ![c].pc = "wait"], tasks' = Append(tasks, c), local' = local
  PROVE  CallersInv'
<1> DEFINE r == [cl[c] EXCEPT !.pc = "wait"]
<1>1. cl[c] \in Calling /\ cl[c].what /= "none" /\ cl[c].n \in Numbers
  BY DEF CallersInv
<1>2. CallOK(r) /\ r.pc = "wait" /\ cl' = [cl EXCEPT ![c] = r]
  BY <1>1 DEF CallOK, Calling
<1> HIDE DEF r
<1>3. cl' \in [Callers -> Calling] /\ cl'[c].pc = "wait" /\ \A d \in Callers : CallOK(cl'[d])
  BY <1>2 DEF CallersInv, CallOK
<1>4. \A i \in 1 .. Len(tasks) : tasks[i] \in Callers /\ tasks[i] /= c /\ cl'[tasks[i]].pc = "wait"
  <2> SUFFICES ASSUME NEW i \in 1 .. Len(tasks)
               PROVE  tasks[i] \in Callers /\ tasks[i] /= c /\ cl'[tasks[i]].pc = "wait"
    OBVIOUS
  <2>1. tasks[i] \in Callers /\ tasks[i] /= c /\ cl[tasks[i]].pc = "wait"
    BY ElementOfSeq DEF CallersInv
  <2> QED BY <1>2, <2>1 DEF CallersInv
<1>5. \A i \in 1 .. Len(local) : local[i] \in Callers /\ local[i] /= c /\ cl'[local[i]].pc = "wait"
  <2> SUFFICES ASSUME NEW i \in 1 .. Len(local)
               PROVE  local[i] \in Callers /\ local[i] /= c /\ cl'[local[i]].pc = "wait"
    OBVIOUS
  <2>1. local[i] \in Callers /\ local[i] /= c /\ cl[local[i]].pc = "wait"
    BY ElementOfSeq DEF CallersInv
  <2> QED BY <1>2, <2>1 DEF CallersInv
<1>6. /\ tasks \in Seq(Callers) /\ tasks' \in Seq(Callers) /\ Len(tasks) \in Nat
      /\ Len(tasks') = Len(tasks) + 1 /\ tasks'[Len(tasks) + 1] = c
      /\ \A i \in 1 .. Len(tasks) : tasks'[i] = tasks[i]
  BY DEF CallersInv
<1>7. \A i \in 1 .. Len(tasks') : i \in 1 .. Len(tasks) \/ i = Len(tasks) + 1
  BY <1>6
<1>8. \A i \in 1 .. Len(tasks') : cl'[tasks'[i]].pc = "wait"
  BY <1>3, <1>4, <1>6, <1>7
<1>9. \A i, j \in 1 .. Len(tasks') : tasks'[i] = tasks'[j] => i = j
  BY <1>4, <1>6, <1>7 DEF CallersInv
<1>10. \A i \in 1 .. Len(tasks'), j \in 1 .. Len(local) : tasks'[i] /= local[j]
  BY <1>5, <1>6, <1>7 DEF CallersInv
<1> QED BY <1>3, <1>5, <1>6, <1>8, <1>9, <1>10 DEF CallersInv, CallOK

\* The first of the taken tasks is run.
LEMMA CallerServed ==
  ASSUME CallersInv, local /= <<>>, NEW r, CallOK(r),
         cl' = [cl EXCEPT ![Head(local)] = r], local' = Tail(local), tasks' = tasks
  PROVE  CallersInv'
<1> DEFINE c == Head(local)
<1>1. /\ local \in Seq(Callers) /\ tasks \in Seq(Callers) /\ Len(tasks) \in Nat
  BY DEF CallersInv
<1>2. /\ c \in Callers /\ c = local[1] /\ local' \in Seq(Callers) /\ Len(local) \in Nat /\ 1 \in 1 .. Len(local)
      /\ \A i \in 1 .. Len(local') : local'[i] = local[i + 1] /\ i + 1 \in 1 .. Len(local) /\ i + 1 /= 1
  BY <1>1
<1>3. cl' = [cl EXCEPT ![c] = r]
  OBVIOUS
<1> HIDE DEF c
<1>4. cl' \in [Callers -> Calling] /\ \A d \in Callers : CallOK(cl'[d])
  BY <1>2, <1>3 DEF CallersInv, CallOK
<1>5. \A i \in 1 .. Len(local') : local'[i] /= c
  BY <1>2 DEF CallersInv
<1>6. \A i \in 1 .. Len(local') : cl'[local'[i]].pc = "wait"
  <2> SUFFICES ASSUME NEW i \in 1 .. Len(local') PROVE cl'[local'[i]].pc = "wait"
    OBVIOUS
  <2>1. local'[i] \in Callers /\ cl[local'[i]].pc = "wait" /\ local'[i] /= c
    BY <1>2, <1>5, ElementOfSeq DEF CallersInv
  <2> QED BY <1>3, <2>1 DEF CallersInv
<1>7. \A i \in 1 .. Len(tasks) : tasks[i] /= c /\ cl'[tasks[i]].pc = "wait"
  <2> SUFFICES ASSUME NEW i \in 1 .. Len(tasks) PROVE tasks[i] /= c /\ cl'[tasks[i]].pc = "wait"
    OBVIOUS
  <2>1. tasks[i] \in Callers /\ cl[tasks[i]].pc = "wait" /\ tasks[i] /= c
    BY <1>1, <1>2, ElementOfSeq DEF CallersInv
  <2> QED BY <1>3, <2>1 DEF CallersInv
<1>8. \A i, j \in 1 .. Len(local') : local'[i] = local'[j] => i = j
  <2> SUFFICES ASSUME NEW i \in 1 .. Len(local'), NEW j \in 1 .. Len(local'), local'[i] = local'[j]
               PROVE  i = j
    OBVIOUS
  <2>1. i + 1 = j + 1
    BY <1>2 DEF CallersInv
  <2>2. i \in Int /\ j \in Int
    OBVIOUS
  <2> QED BY <2>1, <2>2
<1>9. \A i \in 1 .. Len(tasks), j \in 1 .. Len(local') : tasks[i] /= local'[j]
  BY <1>2 DEF CallersInv
<1> QED BY <1>2, <1>4, <1>6, <1>7, <1>8, <1>9 DEF CallersInv, CallOK

\* What becomes of a caller that is answered.
LEMMA AnsweredOK ==
  ASSUME CallersInv, NEW c \in Callers, cl[c].pc /= "idle", NEW result
  PROVE  \E r : CallOK(r) /\ Answered(c, result) = [cl EXCEPT ![c] = r]
<1>1. cl[c] \in Calling /\ cl[c].what /= "none" /\ cl[c].n \in Numbers
  BY DEF CallersInv
<1>2. CASE cl[c].what = "data" /\ result = "SendqFull"
  <2> DEFINE r == [cl[c] EXCEPT !.pc = "retry"]
  <2>1. CallOK(r) /\ Answered(c, result) = [cl EXCEPT ![c] = r]
    BY <1>1, <1>2 DEF CallOK, Calling, Answered
  <2> QED BY <2>1
<1>3. CASE ~(cl[c].what = "data" /\ result = "SendqFull")
  <2>1. CallOK(IdleCaller) /\ Answered(c, result) = [cl EXCEPT ![c] = IdleCaller]
    BY <1>3 DEF CallOK, Calling, Answered, IdleCaller
  <2> QED BY <2>1
<1> QED BY <1>2, <1>3

----------------------------------------------------------------------------
(* The watchdog. *)

LEMMA WatchConstants == /\ Deadline \in Nat /\ 1 <= Deadline /\ Confirmations \in Nat /\ 1 <= Confirmations
                        /\ Over = Deadline + 1 /\ Confirmations <= Over
BY WatchdogAssumption DEF Over

LEMMA WatchSame ==
  ASSUME WatchInv, UNCHANGED watchVars
  PROVE  WatchInv'
BY DEF WatchInv, watchVars, NoHastyAbort, Bit

\* The types of the watchdog, and its verdict in time.
LEMMA WatchFields ==
  ASSUME WatchInv
  PROVE  /\ wd.on \in BOOLEAN /\ wd.due \in BOOLEAN /\ wd.checked \in BOOLEAN /\ wd.gap \in Nat
         /\ wd.moved \in BOOLEAN /\ wd.ticks \in Nat /\ wd.forgiven \in BOOLEAN /\ wd.blind \in BOOLEAN
         /\ wd.aborted \in BOOLEAN
         /\ lag \in 0 .. Over /\ awake \in 0 .. Over /\ naps \in Nat
BY DEF WatchInv

LEMMA HeartbeatWatch ==
  ASSUME WatchInv, heartbeat, ~wd.aborted
  PROVE  WatchInv'
<1>1. wd' = [wd EXCEPT !.moved = TRUE] /\ lag' = 0 /\ awake' = 0 /\ naps' = 0
  BY DEF heartbeat
<1>2. /\ wd'.checked = wd.checked /\ wd'.ticks = wd.ticks /\ wd'.forgiven = wd.forgiven
      /\ wd'.moved = TRUE /\ wd'.aborted = FALSE /\ wd'.due = wd.due /\ wd'.on = wd.on
      /\ wd' \in [on : BOOLEAN, due : BOOLEAN, checked : BOOLEAN, gap : Nat, moved : BOOLEAN, ticks : Nat,
                  forgiven : BOOLEAN, blind : BOOLEAN, aborted : BOOLEAN]
  BY <1>1 DEF WatchInv
<1> QED BY <1>1, <1>2, WatchConstants DEF WatchInv, NoHastyAbort

LEMMA StartWatch ==
  ASSUME WatchInv, start_watchdog
  PROVE  WatchInv'
<1>1. wd' = [NewWatchdog EXCEPT !.on = TRUE] /\ lag' = 0 /\ awake' = 0 /\ naps' = 0
  BY DEF start_watchdog
<1>2. /\ wd'.checked = FALSE /\ wd'.ticks = 0 /\ wd'.forgiven = FALSE /\ wd'.due = FALSE
      /\ wd'.moved = FALSE /\ wd'.aborted = FALSE /\ wd'.gap = 0
      /\ wd' \in [on : BOOLEAN, due : BOOLEAN, checked : BOOLEAN, gap : Nat, moved : BOOLEAN, ticks : Nat,
                  forgiven : BOOLEAN, blind : BOOLEAN, aborted : BOOLEAN]
  BY <1>1 DEF NewWatchdog
<1> QED BY <1>1, <1>2, WatchConstants DEF WatchInv, NoHastyAbort

LEMMA StopWatch ==
  ASSUME WatchInv, stop_watchdog
  PROVE  WatchInv'
<1>1. wd' = [wd EXCEPT !.on = FALSE, !.due = FALSE] /\ lag' = lag /\ awake' = awake /\ naps' = naps
  BY DEF stop_watchdog
<1>2. /\ wd'.on = FALSE /\ wd'.due = FALSE /\ wd'.checked = wd.checked /\ wd'.ticks = wd.ticks /\ wd'.forgiven = wd.forgiven
      /\ wd'.blind = wd.blind /\ wd'.aborted = wd.aborted
      /\ wd' \in [on : BOOLEAN, due : BOOLEAN, checked : BOOLEAN, gap : Nat, moved : BOOLEAN, ticks : Nat,
                  forgiven : BOOLEAN, blind : BOOLEAN, aborted : BOOLEAN]
  BY <1>1 DEF WatchInv
<1> QED BY <1>1, <1>2 DEF WatchInv, NoHastyAbort

LEMMA SecondWatch ==
  ASSUME WatchInv, SecondPasses
  PROVE  WatchInv'
<1>1. /\ wd.on /\ ~wd.due /\ ~wd.aborted /\ lag' = Later(lag) /\ awake' = Later(awake) /\ naps' = naps
      /\ wd' = [wd EXCEPT !.due = TRUE, !.gap = Later(wd.gap)]
  BY DEF SecondPasses
<1>2. /\ lag' \in 0 .. Over /\ awake' \in 0 .. Over /\ Later(wd.gap) \in Nat
      /\ wd.gap = 0 => Later(wd.gap) = 1
      /\ awake' = Over \/ awake' = awake + 1
      /\ lag = awake => lag' = awake'
      /\ awake = Over => awake' = Over
  BY <1>1, WatchFields, WatchConstants DEF Later
<1> DEFINE g == Later(wd.gap)
<1> HIDE DEF g
<1>3. /\ wd'.on = wd.on /\ wd'.due = TRUE /\ wd'.gap = g /\ wd'.checked = wd.checked /\ wd'.ticks = wd.ticks
      /\ wd'.forgiven = wd.forgiven /\ wd'.moved = wd.moved /\ wd'.blind = wd.blind
      /\ wd'.aborted = FALSE
      /\ wd' \in [on : BOOLEAN, due : BOOLEAN, checked : BOOLEAN, gap : Nat, moved : BOOLEAN, ticks : Nat,
                  forgiven : BOOLEAN, blind : BOOLEAN, aborted : BOOLEAN]
  BY <1>1, <1>2 DEF WatchInv, g
<1>4. ASSUME ~wd.moved, naps = 0
      PROVE  ~wd'.forgiven /\ wd'.gap <= 1 /\ (wd'.ticks > 0 => awake' = Over)
  <2>1. ~wd.forgiven /\ wd.gap = 0 /\ (wd.ticks > 0 => awake = Over)
    BY <1>1, <1>4 DEF WatchInv
  <2> QED BY <1>2, <1>3, <2>1 DEF g
<1>5. ASSUME ~wd.moved, naps = 1
      PROVE  awake' = Over \/ wd'.ticks + Bit(wd'.due) <= awake' + Bit(wd'.blind)
  <2>1. awake = Over \/ wd.ticks + Bit(wd.due) <= awake + Bit(wd.blind)
    BY <1>1, <1>5 DEF WatchInv
  <2>2. Bit(wd.due) = 0 /\ Bit(wd'.due) = 1 /\ Bit(wd.blind) \in {0, 1} /\ wd'.blind = wd.blind
    BY <1>1, <1>3 DEF Bit
  <2>3. wd.ticks \in Nat /\ awake \in Nat
    BY WatchFields, WatchConstants
  <2> QED BY <1>2, <1>3, <2>1, <2>2, <2>3
<1>6. naps = 0 => lag' = awake'
  BY <1>2 DEF WatchInv
<1>7. ~wd'.checked => wd'.ticks = 0 /\ ~wd'.forgiven
  BY <1>3 DEF WatchInv
<1> QED BY <1>1, <1>2, <1>3, <1>4, <1>5, <1>6, <1>7, WatchFields DEF WatchInv, NoHastyAbort, Bit

LEMMA SuspendWatch ==
  ASSUME WatchInv, Suspended
  PROVE  WatchInv'
<1>1. /\ ~wd.aborted /\ lag' = Over /\ naps' = naps + 1 /\ awake' = awake
      /\ wd' = [wd EXCEPT !.gap = Over, !.due = wd.on, !.blind = ~wd.checked]
  BY DEF Suspended
<1> DEFINE bl == ~wd.checked
<1> HIDE DEF bl
<1>2. bl \in BOOLEAN /\ Over \in Nat /\ wd.on \in BOOLEAN /\ wd' = [wd EXCEPT !.gap = Over, !.due = wd.on, !.blind = bl]
  BY <1>1, WatchFields, WatchConstants DEF bl
<1>3. /\ wd'.on = wd.on /\ wd'.due = wd.on /\ wd'.gap = Over /\ wd'.checked = wd.checked
      /\ wd'.ticks = wd.ticks /\ wd'.forgiven = wd.forgiven /\ wd'.moved = wd.moved /\ wd'.blind = bl
      /\ wd'.aborted = wd.aborted
      /\ wd' \in [on : BOOLEAN, due : BOOLEAN, checked : BOOLEAN, gap : Nat, moved : BOOLEAN, ticks : Nat,
                  forgiven : BOOLEAN, blind : BOOLEAN, aborted : BOOLEAN]
  BY <1>2 DEF WatchInv
<1>4. ASSUME wd.on, ~wd.moved, naps = 0
      PROVE  \/ awake' = Over
             \/ wd'.due /\ wd'.gap > Deadline /\ ~wd'.forgiven /\ wd'.checked
             \/ wd'.ticks + Bit(wd'.due) <= awake' + Bit(wd'.blind)
  <2>1. ~wd.forgiven
    BY <1>1, <1>4 DEF WatchInv
  <2>2. CASE wd.checked
    <3>1. wd'.due /\ ~wd'.forgiven /\ wd'.checked
      BY <1>3, <1>4, <2>1, <2>2
    <3>2. wd'.gap > Deadline
      BY <1>3, WatchConstants
    <3> QED BY <3>1, <3>2
  <2>3. CASE ~wd.checked
    <3>1. wd'.ticks = 0 /\ wd'.due /\ wd'.blind
      BY <1>3, <1>4, <2>3 DEF WatchInv, bl
    <3>2. Bit(wd'.due) = 1 /\ Bit(wd'.blind) = 1
      BY <3>1 DEF Bit
    <3>3. awake' \in Nat
      BY <1>1, WatchFields, WatchConstants
    <3>4. wd'.ticks + Bit(wd'.due) <= awake' + Bit(wd'.blind)
      <4> DEFINE t == wd'.ticks  x == Bit(wd'.due)  y == Bit(wd'.blind)  a == awake'
      <4>1. t = 0 /\ x = 1 /\ y = 1 /\ a \in Nat
        BY <3>1, <3>2, <3>3
      <4> HIDE DEF t, x, y, a
      <4>2. t + x <= a + y
        BY <4>1
      <4> QED BY <4>2 DEF t, x, y, a
    <3> QED BY <3>4
  <2> QED BY <2>2, <2>3
<1>8. wd'.due => wd'.on
  BY <1>3
<1>5. naps' \in Nat /\ naps' /= 0 /\ (naps' = 1 => naps = 0)
  BY <1>1, WatchFields
<1>6. ~wd'.checked => wd'.ticks = 0 /\ ~wd'.forgiven
  BY <1>3 DEF WatchInv
<1>7. lag' \in 0 .. Over /\ awake' \in 0 .. Over
  BY <1>1, WatchFields, WatchConstants
<1> QED BY <1>1, <1>3, <1>4, <1>5, <1>6, <1>7, <1>8 DEF WatchInv, NoHastyAbort, Bit

LEMMA CheckWatch ==
  ASSUME WatchInv, check_once
  PROVE  WatchInv'
<1> DEFINE late == wd.checked /\ wd.gap > Deadline /\ ~wd.forgiven
           tk == IF wd.moved \/ late THEN 0
                 ELSE IF lag > Deadline THEN wd.ticks + 1 ELSE wd.ticks
           fg == ~wd.moved /\ (wd.forgiven \/ late)
           ab == tk >= Confirmations
<1>1. /\ wd.due /\ ~wd.aborted /\ lag' = lag /\ awake' = awake /\ naps' = naps
      /\ wd' = [wd EXCEPT !.due = FALSE, !.checked = TRUE, !.gap = 0, !.moved = FALSE, !.ticks = tk,
                          !.forgiven = fg, !.aborted = ab]
  BY DEF check_once
<1>2. tk \in Nat
  BY WatchFields
<1>3. fg \in BOOLEAN /\ ab \in BOOLEAN
  OBVIOUS
<1> HIDE DEF tk, fg, ab, late
<1>4. /\ wd'.on = wd.on /\ wd'.due = FALSE /\ wd'.gap = 0 /\ wd'.checked = TRUE
      /\ wd'.ticks = tk /\ wd'.forgiven = fg /\ wd'.moved = FALSE /\ wd'.blind = wd.blind
      /\ wd'.aborted = ab
      /\ wd' \in [on : BOOLEAN, due : BOOLEAN, checked : BOOLEAN, gap : Nat, moved : BOOLEAN, ticks : Nat,
                  forgiven : BOOLEAN, blind : BOOLEAN, aborted : BOOLEAN]
  BY <1>1, <1>2, <1>3 DEF WatchInv
<1>5. /\ wd.ticks \in Nat /\ awake \in Nat /\ awake <= Over /\ lag \in Nat /\ lag <= Over /\ wd.gap \in Nat
      /\ wd.on
  BY <1>1, WatchFields, WatchConstants DEF WatchInv
<1>6. ASSUME naps = 0
      PROVE  ~fg /\ (tk > 0 => awake = Over)
  <2>1. lag = awake
    BY <1>6 DEF WatchInv
  <2>2. CASE wd.moved
    BY <2>2 DEF fg, tk
  <2>3. CASE ~wd.moved
    <3>1. ~wd.forgiven /\ wd.gap <= 1 /\ (wd.ticks > 0 => awake = Over)
      BY <1>1, <1>5, <1>6, <2>3 DEF WatchInv
    <3>2. ~late
      BY <1>5, <3>1, WatchConstants DEF late
    <3>3. ~fg
      BY <3>1, <3>2 DEF fg
    <3>4. CASE lag > Deadline
      BY <1>5, <2>1, <3>3, <3>4, WatchConstants
    <3>5. CASE ~(lag > Deadline)
      <4>1. tk = wd.ticks
        BY <2>3, <3>2, <3>5 DEF tk
      <4> QED BY <3>1, <3>3, <4>1
    <3> QED BY <3>4, <3>5
  <2> QED BY <2>2, <2>3
<1>7. ASSUME naps = 1
      PROVE  awake = Over \/ tk <= awake + Bit(wd.blind)
  <2>1. Bit(wd.blind) \in {0, 1} /\ Bit(wd.due) = 1
    BY <1>1 DEF Bit
  <2>2. CASE wd.moved \/ late
    <3>1. tk = 0
      BY <2>2 DEF tk
    <3> QED BY <1>5, <2>1, <3>1
  <2>3. CASE ~(wd.moved \/ late)
    <3>1. awake = Over \/ wd.ticks + 1 <= awake + Bit(wd.blind)
      BY <1>1, <1>5, <1>7, <2>1, <2>3 DEF WatchInv, late
    <3>2. tk <= wd.ticks + 1
      BY <1>5, <2>3 DEF tk
    <3> QED BY <1>2, <1>5, <2>1, <3>1, <3>2
  <2> QED BY <2>2, <2>3
<1>8. NoHastyAbort'
  <2> SUFFICES ASSUME ab, naps <= 1
               PROVE  awake + Bit(wd.blind) >= Confirmations
    <3>1. naps \in Nat
      BY WatchFields
    <3> QED BY <1>1, <1>4, <3>1 DEF NoHastyAbort, Bit
  <2>1. tk >= Confirmations /\ tk > 0
    BY <1>2, WatchConstants DEF ab
  <2>2. Bit(wd.blind) \in {0, 1}
    BY DEF Bit
  <2>3. naps = 0 \/ naps = 1
    BY WatchFields
  <2>4. CASE awake = Over
    BY <1>5, <2>2, <2>4, WatchConstants
  <2>5. CASE tk <= awake + Bit(wd.blind)
    BY <1>2, <1>5, <2>1, <2>2, <2>5, WatchConstants
  <2> QED BY <1>6, <1>7, <2>1, <2>3, <2>4, <2>5
<1>9. ASSUME naps = 1
      PROVE  awake' = Over \/ wd'.ticks + Bit(wd'.due) <= awake' + Bit(wd'.blind)
  <2>1. Bit(wd'.due) = 0 /\ wd'.ticks = tk /\ wd'.blind = wd.blind /\ awake' = awake
    BY <1>1, <1>4 DEF Bit
  <2> QED BY <1>2, <1>7, <1>9, <2>1
<1>10. naps = 0 => lag' = awake'
  BY <1>1 DEF WatchInv
<1> QED BY <1>1, <1>4, <1>5, <1>6, <1>8, <1>9, <1>10, WatchFields DEF WatchInv, Bit

----------------------------------------------------------------------------
(* Every step. *)

LEMMA NamesSame ==
  ASSUME NamesInv, led' = led, keyOf' = keyOf, room' = room, demand' = demand, fl' = fl
  PROVE  NamesInv'
BY DEF NamesInv, HintAgrees, fast_reject, Fits, budget, backlog

\* What a step of the adapter leaves alone.
LEMMA OthersSame ==
  ASSUME NodeInv, UNCHANGED <<gateVars, fl, trans, events, heard, tasks, local, cl>>
  PROVE  LedgersInv' /\ NamesInv' /\ EdgesInv' /\ CallersInv'
<1>1. /\ UNCHANGED gateVars /\ fl' = fl /\ trans' = trans /\ events' = events /\ heard' = heard
      /\ tasks' = tasks /\ local' = local /\ cl' = cl
  OBVIOUS
<1>2. LedgersInv' /\ NamesInv'
  BY <1>1, GateSame DEF NodeInv
<1>3. EdgesInv'
  BY <1>1, EdgesSame DEF NodeInv
<1>4. CallersInv'
  BY <1>1, CallersSame DEF NodeInv
<1> QED BY <1>2, <1>3, <1>4

\* A friend's link comes, changes or goes.
LEMMA FriendStatusStep ==
  ASSUME NodeInv, NEW n \in Numbers, NEW status \in {None, "tcp", "udp"}, NEW kept \in BOOLEAN,
         FriendStatus(n, status, kept)
  PROVE  LedgersInv' /\ NamesInv' /\ EdgesInv' /\ CallersInv'
<1> USE DEF NodeInv
<1>1. /\ fl[n] /= NoKey /\ on_friend_connection_status_cb(n, status)
      /\ fl' = fl /\ heard' = heard /\ tasks' = tasks /\ local' = local /\ cl' = cl
  BY DEF FriendStatus
<1>2. EdgesInv' /\ CallersInv'
  BY <1>1, CallbackEdges, CallersSame
<1>3. fl[n] \in Keys
  BY <1>1 DEF NamesInv
<1>4. \/ led' = led /\ keyOf' = keyOf /\ room' = room /\ demand' = demand
      \/ on_connection_status(fl, n, status /= None)
  BY <1>1 DEF on_friend_connection_status_cb
<1>5. CASE status = None
  <2>1. StreamBreaks(fl[n], kept)
    BY <1>5 DEF FriendStatus
  <2>2. led' = led /\ keyOf' = keyOf /\ room' = room /\ demand' = demand
    BY <1>4, <1>5 DEF on_connection_status
  <2>3. LedgersInv'
    BY <1>3, <2>1, <2>2, BreakStep
  <2>4. NamesInv'
    BY <1>1, <2>2, NamesSame
  <2> QED BY <1>2, <2>3, <2>4
<1>6. CASE status /= None
  <2>1. pipe' = pipe /\ back' = back
    BY <1>6 DEF FriendStatus
  <2>2. CASE led' = led /\ keyOf' = keyOf /\ room' = room /\ demand' = demand
    <3>1. LedgersInv' /\ NamesInv'
      BY <1>1, <2>1, <2>2, GateSame DEF gateVars
    <3> QED BY <1>2, <3>1
  <2>3. CASE on_connection_status(fl, n, status /= None)
    <3>1. on_connection_status(fl, n, TRUE)
      BY <1>6, <2>3 DEF on_connection_status
    <3>2. LedgersInv' /\ NamesInv'
      BY <1>1, <2>1, <3>1, StatusStep
    <3> QED BY <1>2, <3>2
  <2> QED BY <1>4, <2>2, <2>3
<1> QED BY <1>5, <1>6

\* A call is made, tried, posted, or run by its caller.
LEMMA CallerStep ==
  ASSUME NodeInv, CallerNext
  PROVE  LedgersInv' /\ NamesInv' /\ EdgesInv' /\ CallersInv'
<1> USE DEF NodeInv
<1> SUFFICES ASSUME NEW c \in Callers,
                    \/ \E what \in {"data", "ping", "add", "remove"}, n \in Numbers : Call(c, what, n)
                    \/ Retry(c) \/ Post(c) \/ RunInline(c)
             PROVE  LedgersInv' /\ NamesInv' /\ EdgesInv' /\ CallersInv'
  BY DEF CallerNext
<1>0. cl[c] \in Calling
  BY DEF CallersInv
<1>1. ASSUME NEW what \in {"data", "ping", "add", "remove"}, NEW n \in Numbers, Call(c, what, n)
      PROVE  LedgersInv' /\ NamesInv' /\ EdgesInv' /\ CallersInv'
  <2> DEFINE r == [pc |-> IF what = "data" THEN "retry" ELSE IF run.on THEN "post" ELSE "inline",
                   what |-> what, n |-> n]
  <2>1. /\ cl[c].pc = "idle" /\ cl' = [cl EXCEPT ![c] = r] /\ UNCHANGED gateVars
        /\ fl' = fl /\ trans' = trans /\ events' = events /\ heard' = heard /\ tasks' = tasks /\ local' = local
    BY <1>1 DEF Call
  <2>2. CallOK(r)
    BY DEF CallOK, Calling
  <2> HIDE DEF r
  <2>3. CallersInv'
    BY <2>1, <2>2, CallerMoves
  <2> QED BY <2>1, <2>3, GateSame, EdgesSame
<1>2. CASE Retry(c)
  <2>1. /\ cl[c].pc = "retry" /\ fl' = fl /\ trans' = trans /\ events' = events /\ heard' = heard
        /\ tasks' = tasks /\ local' = local
    BY <1>2 DEF Retry
  <2>2. EdgesInv'
    BY <2>1, EdgesSame
  <2>3. CASE NoteDemand(cl[c].n) /\ cl' = cl
    <3>1. cl[c].n \in Numbers
      BY <2>1 DEF CallersInv
    <3>2. CallersInv'
      BY <2>1, <2>3, CallersSame
    <3>3. LedgersInv' /\ NamesInv'
      BY <2>1, <2>3, <3>1, DemandStep
    <3> QED BY <2>2, <3>2, <3>3
  <2>4. CASE UNCHANGED gateVars /\ cl' = [cl EXCEPT ![c].pc = IF run.on THEN "post" ELSE "inline"]
    <3> DEFINE q == IF run.on THEN "post" ELSE "inline"
               r == [cl[c] EXCEPT !.pc = q]
    <3>1. q \in {"post", "inline"} /\ cl' = [cl EXCEPT ![c] = r]
      BY <2>4
    <3> HIDE DEF q
    <3>2. CallOK(r)
      BY <1>0, <2>1, <3>1 DEF CallOK, Calling, CallersInv
    <3> HIDE DEF r
    <3>3. CallersInv'
      BY <2>1, <3>1, <3>2, CallerMoves
    <3> QED BY <2>1, <2>2, <2>4, <3>3, GateSame
  <2> QED BY <1>2, <2>3, <2>4 DEF Retry
<1>3. CASE Post(c)
  <2>1. /\ cl[c].pc = "post" /\ UNCHANGED gateVars /\ fl' = fl /\ trans' = trans /\ events' = events
        /\ heard' = heard /\ local' = local
    BY <1>3 DEF Post
  <2>2. LedgersInv' /\ NamesInv' /\ EdgesInv'
    BY <2>1, GateSame, EdgesSame
  <2>3. CASE tasks' = Append(tasks, c) /\ cl' = [cl EXCEPT ![c].pc = "wait"]
    <3>1. CallersInv'
      BY <2>1, <2>3, CallerPosts
    <3> QED BY <2>2, <3>1
  <2>4. CASE tasks' = tasks /\ cl' = [cl EXCEPT ![c].pc = "inline"]
    <3> DEFINE r == [cl[c] EXCEPT !.pc = "inline"]
    <3>1. cl' = [cl EXCEPT ![c] = r]
      BY <2>4
    <3>2. CallOK(r)
      BY <1>0, <2>1 DEF CallOK, Calling, CallersInv
    <3> HIDE DEF r
    <3>3. CallersInv'
      BY <2>1, <2>4, <3>1, <3>2, CallerMoves
    <3> QED BY <2>2, <3>3
  <2> QED BY <1>3, <2>3, <2>4 DEF Post
<1>4. CASE RunInline(c)
  <2>1. PICK a : Execute(c, a) /\ cl' = Answered(c, a)
    BY <1>4 DEF RunInline
  <2>2. cl[c].pc = "inline" /\ events' = events /\ tasks' = tasks /\ local' = local
    BY <1>4 DEF RunInline
  <2>3. cl[c].what \in {"data", "ping", "add", "remove"} /\ cl[c].n \in Numbers
    BY <1>0, <2>2 DEF CallersInv, Calling
  <2>4. LedgersInv' /\ NamesInv' /\ EdgesInv'
    BY <2>1, <2>2, <2>3, ExecuteStep
  <2>5. PICK r : CallOK(r) /\ Answered(c, a) = [cl EXCEPT ![c] = r]
    BY <2>2, AnsweredOK
  <2>6. CallersInv'
    BY <2>1, <2>2, <2>5, CallerMoves
  <2> QED BY <2>4, <2>6
<1> QED BY <1>1, <1>2, <1>3, <1>4

\* The queue is taken over by process_tox_tasks().
LEMMA TasksTaken ==
  ASSUME CallersInv, local' = tasks, tasks' = <<>>, cl' = cl
  PROVE  CallersInv'
<1>1. tasks' \in Seq(Callers) /\ Len(tasks') = 0 /\ 1 .. Len(tasks') = {}
  OBVIOUS
<1> QED BY <1>1 DEF CallersInv

\* The Tox thread's loop, but for the end of tox_iterate.
LEMMA LoopStep ==
  ASSUME NodeInv, LoopNext
  PROVE  LedgersInv' /\ NamesInv' /\ EdgesInv' /\ CallersInv'
<1> USE DEF NodeInv
<1>1. ASSUME NEW n \in Numbers, on_friend_lossless_packet_cb(n)
      PROVE  LedgersInv' /\ NamesInv' /\ EdgesInv' /\ CallersInv'
  <2>1. /\ on_received(fl, n) /\ fl' = fl /\ trans' = trans /\ events' = events /\ heard' = heard
        /\ tasks' = tasks /\ local' = local /\ cl' = cl
    BY <1>1 DEF on_friend_lossless_packet_cb, adapterVars
  <2>2. LedgersInv' /\ NamesInv'
    BY <2>1, ReceivedStep
  <2> QED BY <2>1, <2>2, EdgesSame, CallersSame
<1>2. ASSUME NEW c \in BOOLEAN, on_self_connection_status_cb(c)
      PROVE  LedgersInv' /\ NamesInv' /\ EdgesInv' /\ CallersInv'
  <2>1. UNCHANGED <<gateVars, fl, trans, events, heard, tasks, local, cl>>
    BY <1>2 DEF on_self_connection_status_cb
  <2> QED BY <2>1, OthersSame
<1>3. CASE process_tox_tasks
  <2>1. /\ UNCHANGED gateVars /\ fl' = fl /\ trans' = trans /\ events' = events /\ heard' = heard
        /\ local' = tasks /\ tasks' = <<>> /\ cl' = cl
    BY <1>3 DEF process_tox_tasks
  <2> QED BY <2>1, GateSame, EdgesSame, TasksTaken
<1>4. CASE RunTask
  <2> DEFINE c == Head(local)
  <2>1. PICK a : Execute(c, a) /\ cl' = Answered(c, a)
    BY <1>4 DEF RunTask
  <2>2. local /= <<>> /\ events' = events /\ tasks' = tasks /\ local' = Tail(local)
    BY <1>4 DEF RunTask
  <2>3. c \in Callers /\ c = local[1] /\ 1 \in 1 .. Len(local)
    <3>1. local \in Seq(Callers)
      BY DEF CallersInv
    <3> QED BY <2>2, <3>1
  <2>4. cl[c].pc = "wait" /\ cl[c] \in Calling
    BY <2>3 DEF CallersInv
  <2>5. cl[c].what \in {"data", "ping", "add", "remove"} /\ cl[c].n \in Numbers
    BY <2>3, <2>4 DEF CallersInv, Calling
  <2>6. LedgersInv' /\ NamesInv' /\ EdgesInv'
    BY <2>1, <2>2, <2>5, ExecuteStep
  <2>7. PICK r : CallOK(r) /\ Answered(c, a) = [cl EXCEPT ![c] = r]
    BY <2>3, <2>4, AnsweredOK
  <2>8. CallersInv'
    BY <2>1, <2>2, <2>7, CallerServed
  <2> QED BY <2>6, <2>8
<1>5. CASE LoopEnds
  <2>1. UNCHANGED <<gateVars, fl, trans, events, heard, tasks, local, cl>>
    BY <1>5 DEF LoopEnds
  <2> QED BY <2>1, OthersSame
<1>6. ASSUME NEW due \in BOOLEAN, dispatch_and_maintain(due)
      PROVE  LedgersInv' /\ NamesInv' /\ EdgesInv' /\ CallersInv'
  <2>1. /\ UNCHANGED gateVars /\ fl' = fl /\ trans' = trans /\ tasks' = tasks /\ local' = local /\ cl' = cl
        /\ heard' = [n \in Numbers |-> heard[n] \o events[n]] /\ events' = [n \in Numbers |-> <<>>]
    BY <1>6 DEF dispatch_and_maintain
  <2> QED BY <2>1, GateSame, DispatchEdges, CallersSame
<1> QED BY <1>1, <1>2, <1>3, <1>4, <1>5, <1>6, FriendStatusStep DEF LoopNext

\* start(), stop(), the bootstrap and its fetch worker.
LEMMA OtherStep ==
  ASSUME NodeInv, OtherNext
  PROVE  LedgersInv' /\ NamesInv' /\ EdgesInv' /\ CallersInv'
<1>1. UNCHANGED <<gateVars, fl, trans, events, heard, tasks, local, cl>>
  BY DEF OtherNext, start, StopBegins, StopWorker, Join, StopEnds, bootstrap, FetchEnds
<1> QED BY <1>1, OthersSame

\* The peers' side of the stream, and refusals that grow old.
LEMMA GateStepKeeps ==
  ASSUME NodeInv, GateNext, UNCHANGED adapterVars
  PROVE  LedgersInv' /\ NamesInv' /\ EdgesInv' /\ CallersInv'
<1> USE DEF NodeInv
<1>1. /\ fl' = fl /\ trans' = trans /\ events' = events /\ heard' = heard
      /\ tasks' = tasks /\ local' = local /\ cl' = cl
  BY DEF adapterVars
<1>2. EdgesInv' /\ CallersInv'
  BY <1>1, EdgesSame, CallersSame
<1>3. PICK k \in Keys : PeerReads(k, echo[k]) \/ DemandExpires(k)
  BY DEF GateNext
<1>4. CASE PeerReads(k, echo[k])
  <2>1. LedgersInv'
    BY <1>4, ReadStep
  <2>2. led' = led /\ keyOf' = keyOf /\ room' = room /\ demand' = demand
    BY <1>4 DEF PeerReads
  <2>3. NamesInv'
    BY <1>1, <2>2, NamesSame
  <2> QED BY <1>2, <2>1, <2>3
<1>5. CASE DemandExpires(k)
  <2>1. LedgersInv' /\ NamesInv'
    BY <1>1, <1>5, DemandStep
  <2> QED BY <1>2, <2>1
<1> QED BY <1>3, <1>4, <1>5

LEMMA NodeStep == NodeInv /\ [Next]_vars => NodeInv'
<1> SUFFICES ASSUME NodeInv, [Next]_vars PROVE NodeInv'
  OBVIOUS
<1>0. WatchInv
  BY DEF NodeInv
<1>1. CASE GateStep(GateNext)
  <2>1. GateNext /\ UNCHANGED adapterVars /\ UNCHANGED watchVars
    BY <1>1 DEF GateStep, AdapterStep
  <2> QED BY <1>0, <2>1, GateStepKeeps, WatchSame DEF NodeInv
<1>2. CASE AdapterStep(~wedged /\ LoopNext)
  <2>1. LoopNext /\ UNCHANGED watchVars
    BY <1>2 DEF AdapterStep
  <2> QED BY <1>0, <2>1, LoopStep, WatchSame DEF NodeInv
<1>3. ASSUME NEW d \in Ds, ~wd.aborted, Iterate(d)
      PROVE  NodeInv'
  <2>1. IterateEnds(d)
    BY <1>3 DEF Iterate
  <2>2. /\ on_tick(Online, d) /\ fl' = fl /\ trans' = trans /\ events' = events /\ heard' = heard
        /\ tasks' = tasks /\ local' = local /\ cl' = cl
    BY <2>1 DEF IterateEnds
  <2>3. LedgersInv' /\ NamesInv'
    BY <2>2, TickStep DEF NodeInv
  <2>4. EdgesInv' /\ CallersInv'
    BY <2>2, EdgesSame, CallersSame DEF NodeInv
  <2>5. heartbeat \/ UNCHANGED watchVars
    BY <1>3 DEF Iterate
  <2>6. WatchInv'
    BY <1>0, <1>3, <2>5, HeartbeatWatch, WatchSame
  <2> QED BY <2>3, <2>4, <2>6 DEF NodeInv
<1>4. CASE AdapterStep(CallerNext)
  <2>1. CallerNext /\ UNCHANGED watchVars
    BY <1>4 DEF AdapterStep
  <2> QED BY <1>0, <2>1, CallerStep, WatchSame DEF NodeInv
<1>5. CASE AdapterStep(OtherNext)
  <2>1. OtherNext /\ UNCHANGED watchVars
    BY <1>5 DEF AdapterStep
  <2> QED BY <1>0, <2>1, OtherStep, WatchSame DEF NodeInv
<1>6. CASE Wedge
  <2>1. UNCHANGED <<gateVars, fl, trans, events, heard, tasks, local, cl>> /\ UNCHANGED watchVars
    BY <1>6 DEF Wedge
  <2> QED BY <1>0, <2>1, OthersSame, WatchSame DEF NodeInv
<1>7. CASE Watching
  <2>1. UNCHANGED <<gateVars, fl, trans, events, heard, tasks, local, cl>>
    BY <1>7 DEF Watching
  <2>2. WatchInv'
    BY <1>0, <1>7, StartWatch, StopWatch, SecondWatch, SuspendWatch, CheckWatch DEF Watching
  <2> QED BY <2>1, <2>2, OthersSame DEF NodeInv
<1>8. CASE UNCHANGED vars
  <2>1. UNCHANGED <<gateVars, fl, trans, events, heard, tasks, local, cl>> /\ UNCHANGED watchVars
    BY <1>8 DEF vars, adapterVars
  <2> QED BY <1>0, <2>1, OthersSame, WatchSame DEF NodeInv
<1> QED BY <1>1, <1>2, <1>3, <1>4, <1>5, <1>6, <1>7, <1>8 DEF Next

LEMMA NodeStarts == Init => NodeInv
<1> SUFFICES ASSUME Init PROVE NodeInv
  OBVIOUS
<1>1. /\ led = [k \in Keys |-> NoLedger] /\ keyOf = [n \in Numbers |-> NoKey]
      /\ room = [n \in Numbers |-> Open] /\ demand = [n \in Numbers |-> FALSE]
      /\ pipe = [k \in Keys |-> <<>>] /\ back = [k \in Keys |-> <<>>]
      /\ fl = Friends /\ trans = [n \in Numbers |-> None]
      /\ events = [n \in Numbers |-> <<>>] /\ heard = [n \in Numbers |-> <<>>]
      /\ tasks = <<>> /\ local = <<>> /\ cl = [c \in Callers |-> IdleCaller]
      /\ wd = NewWatchdog /\ lag = 0 /\ awake = 0 /\ naps = 0
  BY DEF Init, AdapterInit, GateInit, WatchInit
<1>2. LedgersInv
  <2>1. LedgerOK(NoLedger) /\ NoLedger \in Ledger
    BY NoLedgerOK DEF LedgerOK
  <2>2. Books(NoLedger, <<>>, <<>>)
    BY <2>1, EmptyBooks
  <2>3. <<>> \in Seq(Int) /\ <<>> \in Seq(Nat)
    OBVIOUS
  <2> QED BY <1>1, <2>1, <2>2, <2>3 DEF LedgersInv
<1>3. NamesInv
  <2>1. Open \in Int /\ ~(Open < 1)
    BY DEF Open
  <2> QED BY <1>1, <2>1, FriendsAssumption DEF NamesInv, HintAgrees, fast_reject
<1>4. EdgesInv
  <2>1. \A n \in Numbers : Story(n) = <<>>
    BY <1>1 DEF Story
  <2>2. \A n \in Numbers : Alternates(Story(n)) /\ EndsDown(Story(n)) /\ trans[n] = None
    BY <1>1, <2>1 DEF Alternates, EndsDown
  <2>3. /\ trans \in [Numbers -> {None, "tcp", "udp"}] /\ events \in [Numbers -> Seq({"up", "down"})]
        /\ heard \in [Numbers -> Seq({"up", "down", "removed"})]
    BY <1>1
  <2> QED BY <2>2, <2>3 DEF EdgesInv
<1>5. CallersInv
  <2>1. IdleCaller \in Calling /\ IdleCaller.pc = "idle"
    BY DEF IdleCaller, Calling
  <2> QED BY <1>1, <2>1 DEF CallersInv
<1>6. WatchInv
  BY <1>1, WatchConstants DEF WatchInv, NewWatchdog, NoHastyAbort, Bit
<1> QED BY <1>2, <1>3, <1>4, <1>5, <1>6 DEF NodeInv

----------------------------------------------------------------------------
(* What the run checks. *)

\* The books: no undelivered DATA counts as delivered.
LEMMA BooksExact == LedgersInv => NoOverCredit
<1> SUFFICES ASSUME LedgersInv, NEW k \in Keys
             PROVE  Cardinality({i \in 1 .. Len(pipe[k]) : pipe[k][i] = Data}) <= backlog(led[k])
  BY DEF NoOverCredit
<1>1. pipe[k] \in Seq(Int) /\ Debt(pipe[k], 0) <= led[k].emitted - led[k].delivered
  BY DEF LedgersInv, Books, Follows
<1>2. Behind(pipe[k], 0) = {i \in 1 .. Len(pipe[k]) : pipe[k][i] = Data}
  BY <1>1 DEF Behind
<1> QED BY <1>1, <1>2 DEF Debt, backlog

\* The edges: what was heard is the beginning of a story that alternates.
LEMMA EdgesExact == EdgesInv => NoFalseReconnect
<1> SUFFICES ASSUME EdgesInv, NEW n \in Numbers, "removed" \notin ToSet(heard[n]),
                    NEW i \in 1 .. Len(heard[n]) - 1
             PROVE  heard[n][i] /= heard[n][i + 1]
  BY DEF NoFalseReconnect
<1> DEFINE h == heard[n]  e == events[n]
<1>1. h \in Seq({"up", "down", "removed"}) /\ e \in Seq({"up", "down"}) /\ Alternates(h \o e)
  BY DEF EdgesInv, Story
<1> HIDE DEF h, e
<1>2. /\ Len(h) \in Nat /\ Len(e) \in Nat /\ Len(h \o e) = Len(h) + Len(e)
      /\ \A j \in 1 .. Len(h) : (h \o e)[j] = h[j]
  BY <1>1
<1>3. i \in 1 .. Len(h) /\ i + 1 \in 1 .. Len(h) /\ i \in 1 .. Len(h \o e) - 1
  BY <1>2 DEF h
<1>4. (h \o e)[i] /= (h \o e)[i + 1]
  BY <1>1, <1>3 DEF Alternates
<1>5. h[i] /= h[i + 1]
  BY <1>2, <1>3, <1>4
<1> QED BY <1>5 DEF h

\* The Tox side's inductive invariant: the ledgers keep the books of toxcore's
\* stream, the gate knows a friend by its current number only, the edges reported
\* alternate, a waiting caller is queued once, and the watchdog's count stays
\* within the running time of the stall.
THEOREM NodeInvariant == Spec => []NodeInv
<1> QED BY NodeStarts, NodeStep, PTL DEF Spec

\* For any number of friends and any budgets, whatever is lost with a connection,
\* answered late, by an older build or for a recycled friend number: the gate never
\* credits DATA the peer has not read, its lock-free hint never turns away a frame
\* that admit() would take, and no change of transport is told as a reconnect.
THEOREM GateExactHolds == Spec => []GateExact
<1>1. NodeInv => GateExact
  BY BooksExact, EdgesExact DEF NodeInv, NamesInv, GateExact
<1> QED BY <1>1, NodeInvariant, PTL

\* For any deadline the configuration takes: check_once() aborts only after the
\* stalled Tox thread had the confirmation seconds of running time, or a second
\* suspension in the same stall.
THEOREM NoHastyAbortHolds == Spec => []NoHastyAbort
<1>1. NodeInv => NoHastyAbort
  BY DEF NodeInv, WatchInv
<1> QED BY <1>1, NodeInvariant, PTL

=============================================================================
