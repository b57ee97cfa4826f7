---------------------------- MODULE ClientProofs ----------------------------
(***************************************************************************)
(* TunnelClient for any servers, connections, limits and scenarios: what a *)
(* connection leaves behind, what stop() sweeps, and whose frames and      *)
(* verdicts the manager hears across a switch.                             *)
(***************************************************************************)
EXTENDS TunnelClient, SequenceTheorems, WellFoundedInduction, TLAPS

----------------------------------------------------------------------------
(* The inductive invariant. *)

Phases == {"new", "lane", "held", "todo", "read"}   \* before the registration
ConnRecord ==
  [at : Phases \cup {"added", "open", "shut"}, srv : Servers,
   tun : {"None", "Connecting", "Connected", "Disconnecting"} \cup Terminal,
   pc : BOOLEAN, reg : BOOLEAN, known : BOOLEAN, cbs : SUBSET {"Connected", "Close", "End"},
   resolved : BOOLEAN, gauge : BOOLEAN, n : Nat, reply : {0, 1}, sock : {"open", "shut"}]

\* One connection: a tunnel that lives is in the manager, a callback that is due
\* tells the truth, and the end is booked by the callback that tells of it.
Told(kind, r) ==
  /\ r \in ConnRecord
  /\ r.at \in Phases => r.tun = "None" /\ r.cbs = {}
  /\ "End" \in r.cbs => r.tun \in Terminal
  /\ "Close" \in r.cbs => r.tun \notin {"None", "Connecting", "Connected"}
  /\ r.n = (IF r.resolved THEN 1 ELSE 0)
  /\ kind /= "pipe" /\ r.tun \in Terminal /\ "End" \notin r.cbs
     => r.resolved /\ ~r.gauge /\ r.sock = "shut" /\ (kind = "socks" => r.reply = 1)
Sound(kind, r) ==
  /\ Told(kind, r)
  /\ r.at \in Phases => ~r.reg
  /\ r.at = "added" /\ r.tun = "None" => r.reg
  /\ r.tun \in {"Connecting", "Connected"} => r.reg
ConnsInv == /\ cn \in [Conns -> ConnRecord] /\ token \in [Conns -> Nat]
            /\ \A c \in Conns : Sound(KindOf(c), cn[c]) /\ (token[c] /= 0 => cn[c].at \notin Phases)

\* What stop() has swept stays swept.
Swept(r) == (r.reg => r.at = "added") /\ r.tun \notin {"Connecting", "Connected"}
StopInv ==
  /\ stp \in {"no", "started", "held", "closed", "done"}
  /\ pipe \in [bridge : {"none", "made", "running", "stopped"}, ask : BOOLEAN]
  /\ stp \in {"held", "closed", "done"} =>
       /\ held.q = <<>> /\ pipe.bridge /= "running"
       /\ pipe.bridge = "made" => \A c \in Conns : KindOf(c) = "pipe" =>
                                    cn[c].tun /= "Connecting" /\ "Connected" \notin cn[c].cbs
  /\ stp \in {"closed", "done"} => \A c \in Conns : Swept(cn[c])
  /\ stp = "done" => \A c \in Conns : ~cn[c].reg

TaskKinds == {"conn", "verdict", "failover", "repin", "alive", "resume", "release", "accept", "late"}
             \cup Packets
Tasks == {t \in [k : TaskKinds, i : Servers, c : Conns \cup {NoConn}, g : Nat] :
            /\ t.k \in Packets \cup {"accept"} => t.c \in Conns
            /\ t.k = "failover" => t = Task("failover")}
Is(p, k) == lane[p].k = k

\* An accepted connection is in one place: posted once, or held once.
PostedInv ==
  /\ \A p \in 1 .. Len(lane) : Is(p, "accept") => cn[lane[p].c].at = "lane"
  /\ \A p, r \in 1 .. Len(lane) : Is(p, "accept") /\ Is(r, "accept") /\ lane[p].c = lane[r].c => p = r
HeldInv ==
  /\ held \in [q : Seq(Conns), armed : BOOLEAN, shut : BOOLEAN]
  /\ \A p \in 1 .. Len(held.q) : cn[held.q[p]].at = "held"
  /\ \A p, r \in 1 .. Len(held.q) : held.q[p] = held.q[r] => p = r

\* The lane across a switch: the repin is posted with it, no look at the servers
\* is ahead of it, and the packets ahead of it are the old server's.
RouteInv ==
  /\ lane \in Seq(Tasks) /\ active \in Servers /\ gen \in Nat
  /\ handler = route
  /\ \A p \in 1 .. Len(lane) : Is(p, "repin") => lane[p].i = active
  /\ \A p, r \in 1 .. Len(lane) : Is(p, "repin") /\ Is(r, "repin") => p = r
  /\ \A p, r \in 1 .. Len(lane) : Is(p, "failover") /\ Is(r, "failover") => p = r
  /\ \A p, r \in 1 .. Len(lane) : Is(p, "repin") /\ Is(r, "failover") => p < r
  /\ \A p \in 1 .. Len(lane) : lane[p].k \in Packets =>
       (lane[p].i = active <=> \A r \in 1 .. Len(lane) : Is(r, "repin") => r < p)
  /\ route = active <=> \A p \in 1 .. Len(lane) : ~Is(p, "repin")

\* The keepalive's clock is the active server's, but in the middle of a switch.
ClockInv == /\ ka \in [on : BOOLEAN, dead : BOOLEAN, tell : BOOLEAN, of : Servers]
            /\ swap \in BOOLEAN
            /\ ~swap => ka.of = active

ClientInv == ConnsInv /\ StopInv /\ PostedInv /\ HeldInv /\ RouteInv /\ ClockInv /\ HeldHaveRelease

----------------------------------------------------------------------------
(* One connection. *)

\* r has become s, which is past the end of its life.
Over(r, s) ==
  /\ s \in ConnRecord /\ s.at = r.at /\ s.srv = r.srv /\ s.reg = r.reg
  /\ s.tun \notin {"None", "Connecting", "Connected"} /\ s.cbs \subseteq r.cbs \cup {"End", "Close"}

LEMMA EndsSound ==
  ASSUME NEW kind, NEW r, Told(kind, r), r.at \notin Phases, NEW t \in Terminal
  PROVE  Sound(kind, Ends(r, t)) /\ Over(r, Ends(r, t))
<1>0. r \in ConnRecord /\ t \notin {"None", "Connecting", "Connected"}
  BY DEF Told, Terminal
<1>1. CASE r.tun \in Terminal
  BY <1>0, <1>1 DEF Ends, Over, Sound, Terminal
<1>2. CASE r.tun \notin Terminal
  <2> DEFINE s == [r EXCEPT !.tun = t, !.cbs = @ \cup {"End"}]
  <2>1. Ends(r, t) = s
    BY <1>2 DEF Ends
  <2>3. /\ s \in ConnRecord /\ s.tun = t /\ s.cbs = r.cbs \cup {"End"} /\ s.at = r.at /\ s.reg = r.reg
        /\ s.n = r.n /\ s.resolved = r.resolved /\ s.srv = r.srv
    BY <1>0 DEF ConnRecord
  <2> HIDE DEF s
  <2>5. Sound(kind, s)
    BY <1>0, <2>3 DEF Sound, Told
  <2> QED BY <1>0, <2>1, <2>3, <2>5 DEF Over
<1> QED BY <1>1, <1>2

LEMMA CloseSound ==
  ASSUME NEW kind, NEW r, Told(kind, r), r.at \notin Phases
  PROVE  Sound(kind, Close(r)) /\ Over(r, Close(r))
<1>0. r \in ConnRecord
  BY DEF Told
<1>1. CASE r.tun = "Connected"
  <2> DEFINE s == [r EXCEPT !.tun = "Disconnecting", !.cbs = @ \cup {"Close"}]
  <2>1. Close(r) = s
    BY <1>1 DEF Close
  <2>3. /\ s \in ConnRecord /\ s.tun = "Disconnecting" /\ s.cbs = r.cbs \cup {"Close"} /\ s.at = r.at
        /\ s.reg = r.reg /\ s.n = r.n /\ s.resolved = r.resolved /\ s.srv = r.srv
    BY <1>0 DEF ConnRecord
  <2>4. "End" \notin r.cbs
    BY <1>1 DEF Told, Terminal
  <2> HIDE DEF s
  <2>5. Sound(kind, s)
    BY <2>3, <2>4 DEF Sound, Told, Terminal
  <2> QED BY <2>1, <2>3, <2>5 DEF Over
<1>2. CASE r.tun = "Disconnecting"
  BY <1>0, <1>2 DEF Close, Over, Sound
<1>3. CASE r.tun \notin {"Connected", "Disconnecting"}
  <2>1. Close(r) = Ends(r, "Closed") /\ "Closed" \in Terminal
    BY <1>3 DEF Close, Terminal
  <2> QED BY <2>1, EndsSound
<1> QED BY <1>1, <1>2, <1>3

LEMMA LetGoSound ==
  ASSUME NEW kind, NEW r, Sound(kind, r), NEW mode, NEW s, s = LetGo(r, mode)
  PROVE  /\ Sound(kind, s) /\ s.at = r.at /\ s.srv = r.srv /\ ~s.reg
         /\ s.cbs \subseteq r.cbs \cup {"End", "Close"} /\ s.tun \notin {"Connecting", "Connected"}
         /\ r.reg => s.tun /= "None"
         /\ ~r.reg => s = r
<1>1. CASE ~r.reg
  <2>1. r \in ConnRecord /\ (r.tun \in {"Connecting", "Connected"} => r.reg)
    BY DEF Sound, Told
  <2> QED BY <1>1, <2>1 DEF LetGo
<1>2. CASE r.reg
  <2> DEFINE out == [r EXCEPT !.reg = FALSE]
  <2>1. s = Ends(out, "Error") \/ s = Close(out)
    BY <1>2 DEF LetGo
  <2>2. r \in ConnRecord /\ r.at \notin Phases
    BY <1>2 DEF Sound, Told
  <2>3. /\ out \in ConnRecord /\ out.at = r.at /\ out.tun = r.tun /\ out.cbs = r.cbs /\ ~out.reg
        /\ out.n = r.n /\ out.resolved = r.resolved /\ out.gauge = r.gauge /\ out.sock = r.sock
        /\ out.reply = r.reply /\ out.srv = r.srv
    BY <2>2 DEF ConnRecord
  <2> HIDE DEF out
  <2>4. Told(kind, out)
    BY <2>2, <2>3 DEF Sound, Told
  <2>5. Sound(kind, s) /\ Over(out, s)
    BY <2>1, <2>2, <2>3, <2>4, EndsSound, CloseSound DEF Terminal
  <2> QED BY <1>2, <2>3, <2>5 DEF Over
<1> QED BY <1>1, <1>2

\* What c may become, given where it waits and where stop() is.
Late == {"held", "closed", "done"}
May(c, s) ==
  /\ Sound(KindOf(c), s)
  /\ s.at \in Phases => cn[c].at \in Phases
  /\ stp \in {"closed", "done"} => Swept(s)
  /\ stp = "done" => ~s.reg
Tokens == token' \in [Conns -> Nat] /\ \A d \in Conns : token'[d] \in {0, token[d]}
Bridge(c, s) ==
  /\ pipe' \in [bridge : {"none", "made", "running", "stopped"}, ask : BOOLEAN]
  /\ stp \in Late => pipe'.bridge /= "running"
  /\ stp \in Late /\ pipe'.bridge = "made" =>
       IF KindOf(c) = "pipe" THEN s.tun /= "Connecting" /\ "Connected" \notin s.cbs
       ELSE pipe.bridge = "made"

\* Connections change one at a time, or all by close_all().
LEMMA SetSound ==
  ASSUME ConnsInv, NEW c \in Conns, NEW s, May(c, s), Set(c, s), Tokens
  PROVE  ConnsInv' /\ cn'[c] = s /\ \A d \in Conns \ {c} : cn'[d] = cn[d]
<1>1. s \in ConnRecord
  BY DEF May, Sound, Told
<1>2. cn' \in [Conns -> ConnRecord] /\ cn'[c] = s /\ \A d \in Conns \ {c} : cn'[d] = cn[d]
  BY <1>1 DEF Set, ConnsInv
<1>3. ASSUME NEW d \in Conns
      PROVE  Sound(KindOf(d), cn'[d]) /\ (token'[d] /= 0 => cn'[d].at \notin Phases)
  BY <1>2, <1>3 DEF ConnsInv, May, Tokens
<1> QED BY <1>2, <1>3 DEF ConnsInv, Tokens

LEMMA CloseAllSound ==
  ASSUME ConnsInv, NEW mode, close_all(mode), token' = token
  PROVE  /\ ConnsInv'
         /\ \A c \in Conns : /\ ~cn'[c].reg /\ cn'[c].at = cn[c].at
                             /\ cn'[c].tun \notin {"Connecting", "Connected"}
                             /\ "Connected" \in cn'[c].cbs => "Connected" \in cn[c].cbs
<1>1. ASSUME NEW c \in Conns
      PROVE  /\ Sound(KindOf(c), cn'[c]) /\ ~cn'[c].reg /\ cn'[c].at = cn[c].at
             /\ cn'[c].tun \notin {"Connecting", "Connected"}
             /\ "Connected" \in cn'[c].cbs => "Connected" \in cn[c].cbs
  <2>1. Sound(KindOf(c), cn[c]) /\ cn'[c] = LetGo(cn[c], mode)
    BY DEF ConnsInv, close_all
  <2> QED BY <2>1, LetGoSound
<1>2. cn' \in [Conns -> ConnRecord]
  BY <1>1 DEF close_all, Sound, Told
<1> QED BY <1>1, <1>2 DEF ConnsInv

\* What one connection may do in each phase of stop().
LEMMA SetStops ==
  ASSUME StopInv, NEW c \in Conns, NEW s, cn'[c] = s, \A d \in Conns \ {c} : cn'[d] = cn[d],
         May(c, s), Bridge(c, s), stp' = stp, stp \in Late => held'.q = held.q
  PROVE  StopInv'
<1>1. stp' \in {"closed", "done"} => \A d \in Conns : Swept(cn'[d])
  BY DEF StopInv, May
<1>2. stp' = "done" => \A d \in Conns : ~cn'[d].reg
  BY DEF StopInv, May
<1>3. ASSUME stp \in Late, pipe'.bridge = "made", NEW d \in Conns, KindOf(d) = "pipe"
      PROVE  cn'[d].tun /= "Connecting" /\ "Connected" \notin cn'[d].cbs
  <2>1. CASE d = c
    BY <1>3, <2>1 DEF Bridge
  <2>2. CASE d /= c
    <3>1. KindOf(c) /= "pipe"
      BY <1>3, <2>2, ConnAssumption
    <3> QED BY <1>3, <2>2, <3>1 DEF StopInv, Bridge, Late
  <2> QED BY <2>1, <2>2
<1>4. stp' \in Late => held'.q = <<>> /\ pipe'.bridge /= "running"
  BY DEF StopInv, Bridge, Late
<1>5. stp' \in {"no", "started", "held", "closed", "done"}
      /\ pipe' \in [bridge : {"none", "made", "running", "stopped"}, ask : BOOLEAN]
  BY DEF StopInv, Bridge
<1> QED BY <1>1, <1>2, <1>3, <1>4, <1>5 DEF StopInv, Swept, Late

\* A tunnel that lives is not started by an end.
LEMMA OverSwept ==
  ASSUME NEW r, NEW s, Over(r, s), Swept(r) \/ ~r.reg
  PROVE  Swept(s)
BY DEF Over, Swept

----------------------------------------------------------------------------
(* The strand's queue: d tasks are taken off its head, ts is posted. *)

Moved(d, ts) ==
  /\ lane' \in Seq(Tasks) /\ Len(lane) \in Nat /\ Len(lane') \in Nat /\ Len(lane) >= d
  /\ Len(lane') = Len(lane) - d + Len(ts)
  /\ \A p \in 1 .. Len(lane') :
       \/ p + d \in 1 .. Len(lane) /\ lane'[p] = lane[p + d]
       \/ p > Len(lane) - d /\ p - (Len(lane) - d) \in 1 .. Len(ts) /\ lane'[p] = ts[p - (Len(lane) - d)]
  /\ \A p \in 1 .. Len(lane) : p > d => p - d \in 1 .. Len(lane') /\ lane'[p - d] = lane[p]
  /\ \A p \in 1 .. Len(ts) : Len(lane) - d + p \in 1 .. Len(lane') /\ lane'[Len(lane) - d + p] = ts[p]

LEMMA PostMoves ==
  ASSUME lane \in Seq(Tasks), NEW ts \in Seq(Tasks), lane' = lane \o ts
  PROVE  Moved(0, ts)
<1>1. /\ Len(lane) \in Nat /\ Len(ts) \in Nat /\ lane' \in Seq(Tasks) /\ Len(lane') = Len(lane) + Len(ts)
      /\ \A p \in 1 .. Len(lane') : lane'[p] = IF p <= Len(lane) THEN lane[p] ELSE ts[p - Len(lane)]
  BY ConcatProperties, LenProperties
<1> QED BY <1>1 DEF Moved

LEMMA TakeMoves ==
  ASSUME lane \in Seq(Tasks), lane /= <<>>, NEW ts \in Seq(Tasks), lane' = Tail(lane) \o ts
  PROVE  Moved(1, ts)
<1>1. /\ Tail(lane) \in Seq(Tasks) /\ Len(lane) \in Nat /\ Len(lane) >= 1
      /\ Len(Tail(lane)) = Len(lane) - 1
      /\ \A p \in 1 .. Len(lane) - 1 : Tail(lane)[p] = lane[p + 1]
  BY HeadTailProperties, LenProperties, EmptySeq
<1>2. /\ Len(ts) \in Nat /\ lane' \in Seq(Tasks) /\ Len(lane') = Len(lane) - 1 + Len(ts)
      /\ \A p \in 1 .. Len(lane') :
           lane'[p] = IF p <= Len(lane) - 1 THEN Tail(lane)[p] ELSE ts[p - (Len(lane) - 1)]
  BY <1>1, ConcatProperties, LenProperties
<1>3. \A p \in 1 .. Len(lane') : p <= Len(lane) - 1 => p + 1 \in 1 .. Len(lane) /\ lane'[p] = lane[p + 1]
  BY <1>1, <1>2
<1>4. \A p \in 1 .. Len(lane') : p > Len(lane) - 1
        => p - (Len(lane) - 1) \in 1 .. Len(ts) /\ lane'[p] = ts[p - (Len(lane) - 1)]
  BY <1>1, <1>2
<1>5. \A p \in 1 .. Len(lane) : p > 1 => p - 1 \in 1 .. Len(lane') /\ lane'[p - 1] = lane[p]
  BY <1>1, <1>2
<1>6. \A p \in 1 .. Len(ts) : Len(lane) - 1 + p \in 1 .. Len(lane') /\ lane'[Len(lane) - 1 + p] = ts[p]
  BY <1>1, <1>2
<1> QED BY <1>1, <1>2, <1>3, <1>4, <1>5, <1>6 DEF Moved

Calm == {"conn", "verdict", "alive", "resume", "release", "late", "accept"}

\* Posting what is no part of a switch, or a packet of the active server, keeps
\* its order.
LEMMA RouteCalm ==
  ASSUME RouteInv, NEW d \in {0, 1}, NEW ts, Moved(d, ts), UNCHANGED <<active, route, handler>>, gen' \in Nat,
         Len(ts) \in Nat, \A p \in 1 .. Len(ts) : ts[p].k \in Calm \/ (ts[p].k \in Packets /\ ts[p].i = active),
         d = 1 => lane[1].k /= "repin"
  PROVE  RouteInv'
<1> DEFINE old == 1 .. Len(lane)
           new == 1 .. Len(lane')
<1>1. ASSUME NEW p \in new
      PROVE  \/ p + d \in old /\ lane'[p] = lane[p + d]
             \/ lane'[p].k \in Calm
             \/ lane'[p].k \in Packets /\ lane'[p].i = active /\ p > Len(lane) - d
  <2> DEFINE o == p - (Len(lane) - d)
  <2>1. \/ p + d \in old /\ lane'[p] = lane[p + d]
        \/ p > Len(lane) - d /\ o \in 1 .. Len(ts) /\ lane'[p] = ts[o]
    BY DEF Moved
  <2> HIDE DEF o
  <2> QED BY <2>1
<1>2. \A p \in new : lane'[p].k \in {"repin", "failover"}
        => p + d \in old /\ lane'[p] = lane[p + d]
  BY <1>1 DEF Calm, Packets
<1>3. \A p \in old : lane[p].k = "repin" => p - d \in new /\ lane'[p - d] = lane[p]
  BY DEF Moved
<1>4. Len(lane) \in Nat /\ Len(lane') \in Nat /\ lane' \in Seq(Tasks)
  BY DEF Moved
<1>5. \A p \in new : lane'[p].k = "repin" => lane'[p].i = active
  BY <1>2 DEF RouteInv, Is
<1>6. ASSUME NEW p \in new, NEW r \in new, lane'[p].k = "repin", lane'[r].k = "repin"
      PROVE  p = r
  <2>1. p + d \in old /\ lane[p + d].k = "repin" /\ r + d \in old /\ lane[r + d].k = "repin"
    BY <1>2, <1>6
  <2>2. p + d = r + d
    BY <2>1 DEF RouteInv, Is
  <2>3. p \in Int /\ r \in Int /\ d \in Int
    BY <1>4
  <2> HIDE DEF new, old
  <2> QED BY <2>2, <2>3
<1>7. ASSUME NEW p \in new, NEW r \in new, lane'[p].k = "failover", lane'[r].k = "failover"
      PROVE  p = r
  <2>1. p + d \in old /\ lane[p + d].k = "failover" /\ r + d \in old /\ lane[r + d].k = "failover"
    BY <1>2, <1>7
  <2>2. p + d = r + d
    BY <2>1 DEF RouteInv, Is
  <2>3. p \in Int /\ r \in Int /\ d \in Int
    BY <1>4
  <2> HIDE DEF new, old
  <2> QED BY <2>2, <2>3
<1>8. ASSUME NEW p \in new, NEW r \in new, lane'[p].k = "repin", lane'[r].k = "failover"
      PROVE  p < r
  <2>1. p + d \in old /\ lane[p + d].k = "repin" /\ r + d \in old /\ lane[r + d].k = "failover"
    BY <1>2, <1>8
  <2>2. p + d < r + d
    BY <2>1 DEF RouteInv, Is
  <2>3. p \in Int /\ r \in Int /\ d \in Int
    BY <1>4
  <2> HIDE DEF new, old
  <2> QED BY <2>2, <2>3
<1>9. ASSUME NEW p \in new, lane'[p].k \in Packets
      PROVE  lane'[p].i = active <=> \A r \in new : lane'[r].k = "repin" => r < p
  <2>0. CASE lane'[p].i = active /\ p > Len(lane) - d
    <3>1. ASSUME NEW r \in new, lane'[r].k = "repin"
          PROVE  r < p
      <4>1. r + d \in old
        BY <1>2, <3>1
      <4>2. r \in Int /\ p \in Int /\ d \in Int /\ Len(lane) \in Int /\ r + d <= Len(lane)
        BY <1>4, <4>1
      <4> HIDE DEF new, old
      <4> QED BY <2>0, <4>2
    <3> QED BY <2>0, <3>1
  <2> SUFFICES ASSUME ~(lane'[p].i = active /\ p > Len(lane) - d)
               PROVE  lane'[p].i = active <=> \A r \in new : lane'[r].k = "repin" => r < p
    BY <2>0
  <2>1. p + d \in old /\ lane'[p] = lane[p + d]
    BY <1>1, <1>9 DEF Calm, Packets
  <2>2. lane[p + d].i = active <=> \A r \in old : lane[r].k = "repin" => r < p + d
    BY <1>9, <2>1 DEF RouteInv, Is
  <2>3. ASSUME \A r \in old : lane[r].k = "repin" => r < p + d, NEW r \in new, lane'[r].k = "repin"
        PROVE  r < p
    <3>1. r + d \in old /\ lane[r + d].k = "repin"
      BY <1>2, <2>3
    <3>2. r + d < p + d
      BY <2>3, <3>1
    <3>3. r \in Int /\ d \in Int /\ p \in Int
      BY <1>4
    <3> HIDE DEF new, old
    <3> QED BY <3>2, <3>3
  <2>4. ASSUME \A r \in new : lane'[r].k = "repin" => r < p, NEW r \in old, lane[r].k = "repin"
        PROVE  r < p + d
    <3>1. r - d \in new /\ lane'[r - d].k = "repin"
      BY <1>3, <2>4
    <3>2. r - d < p
      BY <2>4, <3>1
    <3>3. r \in Int /\ d \in Int /\ p \in Int
      BY <1>4
    <3> HIDE DEF new, old
    <3> QED BY <3>2, <3>3
  <2> QED BY <2>1, <2>2, <2>3, <2>4
<1>10. route = active <=> \A p \in new : lane'[p].k /= "repin"
  <2>1. route = active <=> \A p \in old : lane[p].k /= "repin"
    BY DEF RouteInv, Is
  <2> QED BY <1>2, <1>3, <2>1
<1>11. active \in Servers /\ handler = route
  BY DEF RouteInv
<1> QED BY <1>4, <1>5, <1>6, <1>7, <1>8, <1>9, <1>10, <1>11 DEF RouteInv, Is

\* Where a connection waits does not change by what happens to others.
LEMMA PostedCalm ==
  ASSUME PostedInv, NEW d \in {0, 1}, NEW ts, Moved(d, ts),
         Len(ts) \in Nat, \A p \in 1 .. Len(ts) : ts[p].k /= "accept",
         \A p \in 1 .. Len(lane) : Is(p, "accept") /\ p > d => cn'[lane[p].c].at = "lane"
  PROVE  PostedInv'
<1>1. ASSUME NEW p \in 1 .. Len(lane'), lane'[p].k = "accept"
      PROVE  p + d \in 1 .. Len(lane) /\ p + d > d /\ lane'[p] = lane[p + d] /\ p \in Int
  <2>1. p \in Int /\ p > 0 /\ d \in Int
    BY DEF Moved
  <2> DEFINE o == p - (Len(lane) - d)
  <2>4. \/ p + d \in 1 .. Len(lane) /\ lane'[p] = lane[p + d]
        \/ o \in 1 .. Len(ts) /\ lane'[p] = ts[o]
    BY DEF Moved
  <2> HIDE DEF o
  <2>2. p + d \in 1 .. Len(lane) /\ lane'[p] = lane[p + d]
    BY <1>1, <2>4
  <2>3. p + d > d
    BY <2>1
  <2> QED BY <2>1, <2>2, <2>3
<1>2. \A p \in 1 .. Len(lane') : lane'[p].k = "accept" => cn'[lane'[p].c].at = "lane"
  BY <1>1 DEF Is
<1>3. ASSUME NEW p \in 1 .. Len(lane'), NEW r \in 1 .. Len(lane'),
             lane'[p].k = "accept", lane'[r].k = "accept", lane'[p].c = lane'[r].c
      PROVE  p = r
  <2>3. /\ p + d \in 1 .. Len(lane) /\ lane'[p] = lane[p + d]
        /\ r + d \in 1 .. Len(lane) /\ lane'[r] = lane[r + d]
    BY <1>1, <1>3
  <2>1. p + d = r + d
    BY <1>3, <2>3 DEF PostedInv, Is
  <2>2. p \in Int /\ r \in Int /\ d \in Int
    BY <1>1, <1>3
  <2> QED BY <2>1, <2>2
<1> QED BY <1>2, <1>3 DEF PostedInv, Is

LEMMA StillPosted ==
  ASSUME NEW d \in {0, 1}, NEW ts, Moved(d, ts), NEW t, t \in ToSet(lane), lane \in Seq(Tasks),
         d = 1 => lane[1] /= t
  PROVE  t \in ToSet(lane')
<1>1. PICK p \in DOMAIN lane : lane[p] = t
  BY DEF ToSet
<1>2. p \in 1 .. Len(lane) /\ DOMAIN lane' = 1 .. Len(lane')
  BY <1>1, LenProperties DEF Moved
<1>3. p > d
  BY <1>1, <1>2
<1> QED BY <1>1, <1>2, <1>3 DEF Moved, ToSet
LEMMA NowPosted ==
  ASSUME NEW d \in {0, 1}, NEW ts, Moved(d, ts), NEW t, NEW p \in 1 .. Len(ts), ts[p] = t
  PROVE  t \in ToSet(lane')
<1>1. DOMAIN lane' = 1 .. Len(lane')
  BY LenProperties DEF Moved
<1> QED BY <1>1 DEF Moved, ToSet

\* A look at the servers is posted where none is.
LEMMA RouteLooks ==
  ASSUME RouteInv, Moved(0, <<Task("failover")>>), UNCHANGED <<active, gen, route, handler>>,
         Task("failover") \notin ToSet(lane)
  PROVE  RouteInv'
<1> DEFINE n == Len(lane)
<1>1. n \in Nat /\ Len(lane') = n + 1 /\ lane' \in Seq(Tasks) /\ lane \in Seq(Tasks) /\ DOMAIN lane = 1 .. n
  BY LenProperties DEF Moved, RouteInv
<1>2. \A p \in 1 .. n : p \in 1 .. Len(lane') /\ lane'[p] = lane[p] /\ lane[p].k /= "failover"
  <2> TAKE p \in 1 .. n
  <2>1. lane[p] \in Tasks /\ lane[p] \in ToSet(lane)
    BY <1>1, ElementOfSeq DEF ToSet
  <2>2. lane[p].k /= "failover"
    BY <2>1 DEF Tasks
  <2>3. p > 0 /\ p - 0 = p
    BY <1>1
  <2> QED BY <2>2, <2>3 DEF Moved
<1>3. lane'[n + 1].k = "failover"
  <2>1. 1 \in 1 .. Len(<<Task("failover")>>) /\ n - 0 + 1 = n + 1 /\ <<Task("failover")>>[1] = Task("failover")
    BY <1>1
  <2> QED BY <2>1 DEF Moved, Task
<1>4. \A p \in 1 .. Len(lane') : p \in 1 .. n \/ p = n + 1
  BY <1>1
<1>5. \A p \in 1 .. Len(lane') : lane'[p].k /= "failover" => p \in 1 .. n /\ lane'[p] = lane[p]
  BY <1>2, <1>3, <1>4
<1>6. \A p \in 1 .. Len(lane') : lane'[p].k = "failover" => p = n + 1
  BY <1>2, <1>3, <1>4
<1>7. \A p, r \in 1 .. Len(lane') : lane'[p].k = "repin" /\ lane'[r].k = "failover" => p < r
  BY <1>1, <1>5, <1>6
<1>8. ASSUME NEW p \in 1 .. Len(lane'), lane'[p].k \in Packets
      PROVE  lane'[p].i = active <=> \A r \in 1 .. Len(lane') : lane'[r].k = "repin" => r < p
  <2>1. p \in 1 .. n /\ lane'[p] = lane[p]
    BY <1>5, <1>8 DEF Packets
  <2>2. lane[p].i = active <=> \A r \in 1 .. n : lane[r].k = "repin" => r < p
    BY <1>8, <2>1 DEF RouteInv, Is
  <2> QED BY <2>1, <2>2, <1>2, <1>5
<1> QED BY <1>1, <1>2, <1>5, <1>6, <1>7, <1>8 DEF RouteInv, Is

\* The switch: the look is at the head, so that no repin is posted yet.
LEMMA RouteSwitches ==
  ASSUME RouteInv, lane /= <<>>, Head(lane).k = "failover", NEW i \in Servers, i /= active,
         active' = i, gen' \in Nat, Moved(1, <<About("repin", i)>>), UNCHANGED <<route, handler>>
  PROVE  RouteInv'
<1> DEFINE n == Len(lane)
<1>1. n \in Nat /\ n >= 1 /\ Len(lane') = n /\ lane' \in Seq(Tasks) /\ lane[1].k = "failover"
  BY EmptySeq, LenProperties DEF Moved, RouteInv
<1>2. \A p \in 1 .. n : lane[p].k /= "repin"
  BY <1>1 DEF RouteInv, Is
<1>3. \A p \in 1 .. n : lane[p].k = "failover" => p = 1
  BY <1>1 DEF RouteInv, Is
<1>4. lane'[n] = About("repin", i)
  <2>1. 1 \in 1 .. Len(<<About("repin", i)>>) /\ n - 1 + 1 = n /\ <<About("repin", i)>>[1] = About("repin", i)
    BY <1>1
  <2> QED BY <2>1 DEF Moved
<1>5. lane'[n].k = "repin" /\ lane'[n].i = i
  BY <1>4 DEF About, Task
<1>6. ASSUME NEW p \in 1 .. n, p /= n
      PROVE  p + 1 \in 1 .. n /\ p + 1 /= 1 /\ lane'[p] = lane[p + 1]
  <2>1. p + 1 \in 1 .. n /\ p + 1 > 1 /\ p + 1 - 1 = p
    BY <1>1, <1>6
  <2> QED BY <1>1, <2>1 DEF Moved
<1>7. \A p \in 1 .. n : lane'[p].k = "repin" => p = n
  BY <1>2, <1>6
<1>8. \A p \in 1 .. n : lane'[p].k /= "failover"
  BY <1>3, <1>5, <1>6
<1>9. ASSUME NEW p \in 1 .. n, lane'[p].k \in Packets
      PROVE  lane'[p].i /= i /\ ~(n < p)
  <2>1. p /= n
    BY <1>5, <1>9 DEF Packets
  <2>2. lane[p + 1].k \in Packets /\ p + 1 \in 1 .. n /\ lane'[p] = lane[p + 1]
    BY <1>6, <1>9, <2>1
  <2>3. lane[p + 1].i = active
    BY <1>2, <2>2 DEF RouteInv, Is
  <2> QED BY <1>1, <2>2, <2>3
<1>10. route = active /\ handler = route
  BY <1>2 DEF RouteInv, Is
<1>11. n \in 1 .. n
  BY <1>1
<1> QED BY <1>1, <1>5, <1>7, <1>8, <1>9, <1>10, <1>11 DEF RouteInv, Is

\* The repin: what is behind it is the new server's.
LEMMA RouteRepins ==
  ASSUME RouteInv, lane /= <<>>, Head(lane).k = "repin", route' = Head(lane).i, handler' = Head(lane).i,
         Moved(1, <<>>), UNCHANGED <<active, gen>>
  PROVE  RouteInv'
<1> DEFINE n == Len(lane)
<1>1. n \in Nat /\ n >= 1 /\ Len(lane') = n - 1 /\ lane' \in Seq(Tasks) /\ lane[1].k = "repin"
  BY EmptySeq, LenProperties DEF Moved, RouteInv
<1>2. lane[1].i = active /\ Head(lane) = lane[1] /\ \A p \in 1 .. n : lane[p].k = "repin" => p = 1
  BY <1>1 DEF RouteInv, Is
<1>3. ASSUME NEW p \in 1 .. Len(lane')
      PROVE  p + 1 \in 1 .. n /\ p + 1 > 1 /\ lane'[p] = lane[p + 1] /\ p \in Int
  <2>1. p + 1 \in 1 .. n /\ p + 1 > 1 /\ p + 1 - 1 = p /\ p \in Int
    BY <1>1
  <2> QED BY <2>1 DEF Moved
<1>4. \A p \in 1 .. Len(lane') : lane'[p].k /= "repin"
  BY <1>2, <1>3
<1>5. ASSUME NEW p \in 1 .. Len(lane'), lane'[p].k \in Packets
      PROVE  lane'[p].i = active
  <2>1. p + 1 \in 1 .. n /\ p + 1 > 1 /\ lane'[p] = lane[p + 1]
    BY <1>3
  <2>2. \A r \in 1 .. n : lane[r].k = "repin" => r < p + 1
    BY <1>2, <2>1
  <2> QED BY <1>5, <2>1, <2>2 DEF RouteInv, Is
<1>6. ASSUME NEW p \in 1 .. Len(lane'), NEW r \in 1 .. Len(lane'),
             lane'[p].k = "failover", lane'[r].k = "failover"
      PROVE  p = r
  <2>1. p + 1 = r + 1
    <3>1. p + 1 \in 1 .. n /\ r + 1 \in 1 .. n /\ lane[p + 1].k = "failover" /\ lane[r + 1].k = "failover"
      BY <1>3, <1>6
    <3> QED BY <3>1 DEF RouteInv, Is
  <2>2. p \in Int /\ r \in Int
    BY <1>3
  <2> QED BY <2>1, <2>2
<1>7. active \in Servers /\ gen \in Nat
  BY DEF RouteInv
<1> QED BY <1>1, <1>2, <1>4, <1>5, <1>6, <1>7 DEF RouteInv, Is

\* An accept is posted for a connection that is new.
LEMMA PostedArrives ==
  ASSUME PostedInv, NEW t \in Tasks, t.k = "accept", Moved(0, <<t>>), cn[t.c].at /= "lane",
         cn'[t.c].at = "lane", \A c \in Conns : cn[c].at = "lane" => cn'[c].at = "lane", lane \in Seq(Tasks)
  PROVE  PostedInv'
<1> DEFINE n == Len(lane)
<1>1. n \in Nat /\ Len(lane') = n + 1
  BY DEF Moved
<1>2. ASSUME NEW p \in 1 .. n
      PROVE  lane'[p] = lane[p] /\ lane[p] \in Tasks
  <2>1. p > 0 /\ p - 0 = p
    BY <1>1
  <2> QED BY <2>1, ElementOfSeq DEF Moved
<1>3. lane'[n + 1] = t
  <2>1. 1 \in 1 .. Len(<<t>>) /\ n - 0 + 1 = n + 1 /\ <<t>>[1] = t
    BY <1>1
  <2> QED BY <2>1 DEF Moved
<1>4. \A p \in 1 .. Len(lane') : p \in 1 .. n \/ p = n + 1
  BY <1>1
<1>5. \A p \in 1 .. n : lane[p].k = "accept" => lane[p].c \in Conns /\ cn[lane[p].c].at = "lane" /\ lane[p].c /= t.c
  BY <1>2 DEF PostedInv, Is, Tasks
<1>6. \A p \in 1 .. Len(lane') : lane'[p].k = "accept" => cn'[lane'[p].c].at = "lane"
  BY <1>2, <1>3, <1>4, <1>5
<1>7. ASSUME NEW p \in 1 .. Len(lane'), NEW r \in 1 .. Len(lane'),
             lane'[p].k = "accept", lane'[r].k = "accept", lane'[p].c = lane'[r].c
      PROVE  p = r
  <2>1. CASE p \in 1 .. n /\ r \in 1 .. n
    BY <1>2, <1>7, <2>1 DEF PostedInv, Is
  <2>2. CASE p = n + 1 /\ r \in 1 .. n
    BY <1>2, <1>3, <1>5, <1>7, <2>2
  <2>3. CASE p \in 1 .. n /\ r = n + 1
    BY <1>2, <1>3, <1>5, <1>7, <2>3
  <2> QED BY <1>4, <2>1, <2>2, <2>3
<1> QED BY <1>6, <1>7 DEF PostedInv, Is

LEMMA HeldCalm ==
  ASSUME HeldInv, held' = held, \A c \in Conns : cn[c].at = "held" => cn'[c].at = "held"
  PROVE  HeldInv'
<1>1. held.q \in Seq(Conns)
  BY DEF HeldInv
<1>2. \A p \in 1 .. Len(held.q) : held.q[p] \in Conns
  BY <1>1, ElementOfSeq
<1> QED BY <1>2 DEF HeldInv

\* A release stays posted for the connections that wait.
LEMMA ReleaseStays ==
  ASSUME HeldHaveRelease, NEW d \in {0, 1}, NEW ts, Moved(d, ts), lane \in Seq(Tasks),
         d = 1 => lane[1].k /= "release",
         held'.q /= <<>> => held.q /= <<>>, so' => so, swap => swap', Stopping => Stopping'
  PROVE  HeldHaveRelease'
<1>1. Task("release") \in ToSet(lane) => Task("release") \in ToSet(lane')
  <2>1. d = 1 => lane[1] /= Task("release")
    BY DEF Task
  <2> QED BY <2>1, StillPosted
<1>2. Task("release")' = Task("release") /\ ToSet(lane)' = ToSet(lane')
  BY DEF Task, ToSet
<1> QED BY <1>1, <1>2 DEF HeldHaveRelease, Stopping

\* One connection takes a step of its own.
LEMMA LocalStep ==
  ASSUME ClientInv, NEW c \in Conns, NEW s, May(c, s), Bridge(c, s), Set(c, s), Tokens,
         s.at = cn[c].at \/ cn[c].at \notin {"lane", "held"},
         UNCHANGED <<routeVars, lane, held, stp>>
  PROVE  ClientInv'
<1>1. ConnsInv' /\ cn'[c] = s /\ \A d \in Conns \ {c} : cn'[d] = cn[d]
  BY SetSound DEF ClientInv
<1>2. StopInv'
  BY <1>1, SetStops DEF ClientInv
<1>3. \A d \in Conns : cn[d].at \in {"lane", "held"} => cn'[d].at = cn[d].at
  BY <1>1
<1>4. PostedInv'
  <2>1. lane \in Seq(Tasks)
    BY DEF ClientInv, RouteInv
  <2>2. \A p \in 1 .. Len(lane) : lane[p].k = "accept" => lane[p].c \in Conns
    BY <2>1, ElementOfSeq DEF Tasks
  <2> QED BY <1>3, <2>2 DEF ClientInv, PostedInv, Is
<1>5. HeldInv'
  BY <1>3, HeldCalm DEF ClientInv
<1>6. RouteInv' /\ ClockInv'
  BY DEF ClientInv, RouteInv, ClockInv, routeVars, Is
<1>7. HeldHaveRelease'
  BY DEF ClientInv, HeldHaveRelease, routeVars, Stopping, Task, ToSet
<1> QED BY <1>1, <1>2, <1>4, <1>5, <1>6, <1>7 DEF ClientInv

----------------------------------------------------------------------------
(* The steps of one connection. *)

LEMMA ShutSound ==
  ASSUME NEW c \in Conns, NEW r, Sound(KindOf(c), r), r.tun \notin {"Connecting", "Connected"},
         NEW s, s = Shut(c, r)
  PROVE  Sound(KindOf(c), s) /\ s.at = "shut" /\ s.tun = r.tun /\ s.cbs = r.cbs /\ s.reg = r.reg
<1> DEFINE q == [r EXCEPT !.at = "shut", !.sock = "shut"]
<1>0. r \in ConnRecord
  BY DEF Sound, Told
<1>1. /\ q \in ConnRecord /\ q.at = "shut" /\ q.sock = "shut" /\ q.tun = r.tun /\ q.cbs = r.cbs /\ q.reg = r.reg
      /\ q.n = r.n /\ q.resolved = r.resolved /\ q.gauge = r.gauge /\ q.reply = r.reply
  BY <1>0 DEF ConnRecord
<1>2. s = IF KindOf(c) = "socks" /\ q.reply = 0 THEN [q EXCEPT !.reply = 1] ELSE q
  BY DEF Shut, Replied
<1> HIDE DEF q
<1>3. /\ s \in ConnRecord /\ s.at = "shut" /\ s.sock = "shut" /\ s.tun = q.tun /\ s.cbs = q.cbs /\ s.reg = q.reg
      /\ s.n = q.n /\ s.resolved = q.resolved /\ s.gauge = q.gauge /\ (q.reply = 1 => s.reply = 1)
  BY <1>1, <1>2 DEF ConnRecord
<1>4. "shut" \notin Phases
  BY DEF Phases
<1> QED BY <1>1, <1>3, <1>4 DEF Sound, Told

\* The bridge is as it was, or is not left running.
LEMMA BridgeStays ==
  ASSUME StopInv, NEW c \in Conns, NEW s, pipe' = pipe,
         KindOf(c) = "pipe" /\ stp \in Late /\ pipe.bridge = "made" =>
           s.tun /= "Connecting" /\ "Connected" \notin s.cbs
  PROVE  Bridge(c, s)
BY DEF StopInv, Bridge, Late

LEMMA BridgeStops ==
  ASSUME StopInv, NEW c \in Conns, NEW s, pipe' = StopsBridge
  PROVE  Bridge(c, s)
BY DEF StopInv, Bridge, StopsBridge

LEMMA TokensStay ==
  ASSUME ConnsInv, token' = token
  PROVE  Tokens
BY DEF ConnsInv, Tokens

\* What holds of one connection while the io threads run.
LEMMA OfConn ==
  ASSUME ClientInv, NEW c \in Conns
  PROVE  /\ Sound(KindOf(c), cn[c]) /\ cn[c] \in ConnRecord
         /\ stp \in {"closed", "done"} => Swept(cn[c])
         /\ stp = "done" => ~cn[c].reg
         /\ KindOf(c) = "pipe" /\ stp \in Late /\ pipe.bridge = "made"
              => cn[c].tun /= "Connecting" /\ "Connected" \notin cn[c].cbs
         /\ stp \in Late => pipe.bridge /= "running"
         /\ ConnsInv /\ StopInv
         /\ pipe \in [bridge : {"none", "made", "running", "stopped"}, ask : BOOLEAN]
BY DEF ClientInv, ConnsInv, StopInv, Late

LEMMA ConnectedStep ==
  ASSUME ClientInv, NEW c \in Conns, ConnectedCallback(c)
  PROVE  ClientInv'
<1> DEFINE r == cn[c]
           q == [r EXCEPT !.cbs = @ \ {"Connected"}]
           b == book_connected(q)
           s == Replied(c, b)
<1>0. /\ Sound(KindOf(c), r) /\ r \in ConnRecord /\ (stp \in {"closed", "done"} => Swept(r))
      /\ ConnsInv /\ StopInv /\ (stp = "done" => ~r.reg)
  BY OfConn
<1>1. /\ q \in ConnRecord /\ q.at = r.at /\ q.sock = r.sock /\ q.tun = r.tun /\ q.cbs = r.cbs \ {"Connected"}
      /\ q.reg = r.reg /\ q.n = r.n /\ q.resolved = r.resolved /\ q.gauge = r.gauge /\ q.reply = r.reply
  BY <1>0 DEF ConnRecord
<1>2. /\ "Connected" \in r.cbs /\ Set(c, s) /\ KindOf(c) /= "pipe"
      /\ UNCHANGED <<routeVars, lane, held, stp>> /\ token' = token /\ pipe' = pipe
  BY DEF ConnectedCallback
<1>3. b = IF q.resolved THEN q ELSE [q EXCEPT !.resolved = TRUE, !.gauge = TRUE, !.n = @ + 1]
  BY DEF book_connected
<1> HIDE DEF q
<1>4. /\ b \in ConnRecord /\ b.at = q.at /\ b.sock = q.sock /\ b.tun = q.tun /\ b.cbs = q.cbs
      /\ b.reg = q.reg /\ b.resolved /\ b.reply = q.reply
      /\ b.n = (IF q.resolved THEN q.n ELSE q.n + 1)
      /\ q.resolved => b.gauge = q.gauge
  <2>1. CASE q.resolved
    BY <1>1, <1>3, <2>1
  <2>2. CASE ~q.resolved
    <3>1. b = [q EXCEPT !.resolved = TRUE, !.gauge = TRUE, !.n = q.n + 1] /\ q.n + 1 \in Nat
      BY <1>1, <1>3, <2>2 DEF ConnRecord
    <3> QED BY <1>1, <2>2, <3>1 DEF ConnRecord
  <2> QED BY <2>1, <2>2
<1>5. s = IF KindOf(c) = "socks" /\ b.reply = 0 THEN [b EXCEPT !.reply = 1] ELSE b
  BY DEF Replied
<1> HIDE DEF b
<1>6. /\ s \in ConnRecord /\ s.at = b.at /\ s.sock = b.sock /\ s.tun = b.tun /\ s.cbs = b.cbs /\ s.reg = b.reg
      /\ s.n = b.n /\ s.resolved = b.resolved /\ s.gauge = b.gauge /\ (b.reply = 1 => s.reply = 1)
  <2>1. CASE s = b
    BY <1>4, <2>1
  <2>2. CASE s = [b EXCEPT !.reply = 1] /\ b.reply = 0
    BY <1>4, <2>2 DEF ConnRecord
  <2> QED BY <1>5, <2>1, <2>2
<1> HIDE DEF s
<1>7. Sound(KindOf(c), s)
  BY <1>0, <1>1, <1>2, <1>4, <1>6 DEF Sound, Told
<1>8. May(c, s) /\ s.at = r.at
  BY <1>0, <1>1, <1>4, <1>6, <1>7 DEF May, Swept
<1>9. Bridge(c, s)
  BY <1>0, <1>2, BridgeStays
<1> QED BY <1>0, <1>2, <1>8, <1>9, LocalStep, TokensStay

LEMMA PipeStep ==
  ASSUME ClientInv, NEW c \in Conns, PipeConnected(c)
  PROVE  ClientInv'
<1> DEFINE r == cn[c]
           q == [r EXCEPT !.cbs = @ \ {"Connected"}]
           s == IF pipe.bridge = "stopped" THEN Close(q) ELSE q
<1>0. /\ Sound(KindOf(c), r) /\ r \in ConnRecord /\ (stp \in {"closed", "done"} => Swept(r))
      /\ ConnsInv /\ StopInv /\ (stp = "done" => ~r.reg)
      /\ pipe \in [bridge : {"none", "made", "running", "stopped"}, ask : BOOLEAN]
  BY OfConn
<1>1. /\ q \in ConnRecord /\ q.at = r.at /\ q.sock = r.sock /\ q.tun = r.tun /\ q.cbs = r.cbs \ {"Connected"}
      /\ q.reg = r.reg /\ q.n = r.n /\ q.resolved = r.resolved /\ q.gauge = r.gauge /\ q.reply = r.reply
  BY <1>0 DEF ConnRecord
<1>2. /\ "Connected" \in r.cbs /\ Set(c, s) /\ KindOf(c) = "pipe" /\ stp /= "done"
      /\ UNCHANGED <<routeVars, lane, held, stp>> /\ token' = token
      /\ pipe' = IF pipe.bridge = "made" THEN [pipe EXCEPT !.bridge = "running"] ELSE pipe
  BY DEF PipeConnected, Io
<1>3. stp \in Late => pipe.bridge /= "made" /\ pipe.bridge /= "running"
  BY <1>2, OfConn
<1> HIDE DEF q
<1>4. Sound(KindOf(c), q) /\ q.at \notin Phases
  BY <1>0, <1>1, <1>2 DEF Sound, Told
<1>5. Sound(KindOf(c), s) /\ s.at = q.at /\ (s = q \/ Over(q, s))
  <2>1. Told(KindOf(c), q)
    BY <1>4 DEF Sound
  <2> QED BY <1>4, <2>1, CloseSound DEF Over
<1> HIDE DEF s
<1>6. stp \in {"closed", "done"} => Swept(s)
  BY <1>0, <1>1, <1>5, OverSwept DEF Swept
<1>7. May(c, s) /\ s.at = r.at
  BY <1>1, <1>2, <1>5, <1>6 DEF May
<1>8. Bridge(c, s)
  BY <1>0, <1>2, <1>3 DEF Bridge
<1> QED BY <1>0, <1>2, <1>7, <1>8, LocalStep, TokensStay

LEMMA EndStep ==
  ASSUME ClientInv, NEW c \in Conns, EndCallback(c)
  PROVE  ClientInv'
<1> DEFINE r == cn[c]
           q == [r EXCEPT !.cbs = @ \ {"End", "Close"}, !.sock = "shut", !.reg = FALSE]
           b == book_terminal(q)
           s == IF KindOf(c) = "pipe" THEN q ELSE Replied(c, b)
<1>0. /\ Sound(KindOf(c), r) /\ r \in ConnRecord /\ (stp \in {"closed", "done"} => Swept(r))
      /\ ConnsInv /\ StopInv
  BY OfConn
<1>1. /\ q \in ConnRecord /\ q.at = r.at /\ q.sock = "shut" /\ q.tun = r.tun /\ q.cbs = r.cbs \ {"End", "Close"}
      /\ ~q.reg /\ q.n = r.n /\ q.resolved = r.resolved /\ q.gauge = r.gauge /\ q.reply = r.reply
  BY <1>0 DEF ConnRecord
<1>2. /\ "End" \in r.cbs /\ Set(c, s) /\ UNCHANGED <<routeVars, lane, held, stp>> /\ token' = token
      /\ pipe' = (IF KindOf(c) = "pipe" THEN StopsBridge ELSE pipe)
  BY DEF EndCallback
<1>3. b = [q EXCEPT !.resolved = TRUE, !.n = IF q.resolved THEN @ ELSE @ + 1, !.gauge = FALSE]
  BY DEF book_terminal
<1> HIDE DEF q
<1>4. /\ b \in ConnRecord /\ b.at = q.at /\ b.sock = q.sock /\ b.tun = q.tun /\ b.cbs = q.cbs
      /\ ~b.reg /\ b.resolved /\ ~b.gauge /\ b.reply = q.reply
      /\ b.n = (IF q.resolved THEN q.n ELSE q.n + 1)
  <2> DEFINE k == IF q.resolved THEN q.n ELSE q.n + 1
  <2>1. k \in Nat /\ b = [q EXCEPT !.resolved = TRUE, !.n = k, !.gauge = FALSE]
    BY <1>1, <1>3 DEF ConnRecord
  <2> HIDE DEF k
  <2>2. b \in ConnRecord /\ b.n = k
    BY <1>1, <2>1 DEF ConnRecord
  <2>3. /\ b.at = q.at /\ b.sock = q.sock /\ b.tun = q.tun /\ b.cbs = q.cbs
        /\ ~b.reg /\ b.resolved /\ ~b.gauge /\ b.reply = q.reply
    BY <1>1, <2>1 DEF ConnRecord
  <2> QED BY <2>2, <2>3 DEF k
<1>5. s = IF KindOf(c) = "pipe" THEN q
          ELSE IF KindOf(c) = "socks" /\ b.reply = 0 THEN [b EXCEPT !.reply = 1] ELSE b
  BY DEF Replied
<1>6. r.tun \in Terminal /\ r.at \notin Phases
  BY <1>0, <1>2 DEF Sound, Told
<1> HIDE DEF b, s
<1>7. CASE KindOf(c) = "pipe"
  <2>1. Sound(KindOf(c), s) /\ s.at = r.at /\ ~s.reg /\ s.tun = r.tun
    BY <1>0, <1>1, <1>5, <1>6, <1>7 DEF Sound, Told, Terminal
  <2>2. May(c, s)
    BY <2>1, <1>6 DEF May, Swept, Terminal
  <2> QED BY <1>0, <1>2, <1>7, <2>1, <2>2, LocalStep, TokensStay, BridgeStops
<1>8. CASE KindOf(c) /= "pipe"
  <2>1. /\ s \in ConnRecord /\ s.at = b.at /\ s.sock = b.sock /\ s.tun = b.tun /\ s.cbs = b.cbs /\ ~s.reg
        /\ s.n = b.n /\ s.resolved /\ ~s.gauge /\ (KindOf(c) = "socks" => s.reply = 1)
    <3>1. CASE s = [b EXCEPT !.reply = 1]
      BY <1>4, <3>1 DEF ConnRecord
    <3>2. CASE s = b /\ (KindOf(c) = "socks" => b.reply /= 0)
      BY <1>4, <3>2 DEF ConnRecord
    <3> QED BY <1>5, <1>8, <3>1, <3>2
  <2>2. Sound(KindOf(c), s) /\ s.at = r.at
    BY <1>0, <1>1, <1>4, <1>6, <2>1 DEF Sound, Told, Terminal
  <2>3. May(c, s)
    BY <2>1, <2>2, <1>6, <1>1, <1>4 DEF May, Swept, Terminal
  <2>4. Bridge(c, s)
    BY <1>0, <1>2, <1>8, BridgeStays
  <2> QED BY <1>0, <1>2, <2>2, <2>3, <2>4, LocalStep, TokensStay
<1> QED BY <1>7, <1>8

LEMMA CloseStep ==
  ASSUME ClientInv, NEW c \in Conns, CloseCallback(c)
  PROVE  ClientInv'
<1> DEFINE r == cn[c]
           s == [r EXCEPT !.cbs = @ \ {"Close"}, !.reg = FALSE]
<1>0. /\ Sound(KindOf(c), r) /\ r \in ConnRecord /\ (stp \in {"closed", "done"} => Swept(r))
      /\ ConnsInv /\ StopInv
  BY OfConn
<1>1. /\ s \in ConnRecord /\ s.at = r.at /\ s.sock = r.sock /\ s.tun = r.tun /\ s.cbs = r.cbs \ {"Close"}
      /\ ~s.reg /\ s.n = r.n /\ s.resolved = r.resolved /\ s.gauge = r.gauge /\ s.reply = r.reply
  BY <1>0 DEF ConnRecord
<1>2. /\ "Close" \in r.cbs /\ Set(c, s) /\ UNCHANGED <<routeVars, lane, held, stp>> /\ token' = token
      /\ pipe' = (IF KindOf(c) = "pipe" THEN StopsBridge ELSE pipe)
  BY DEF CloseCallback
<1> HIDE DEF s
<1>3. r.tun \notin {"None", "Connecting", "Connected"} /\ r.at \notin Phases
  BY <1>0, <1>2 DEF Sound, Told
<1>4. Sound(KindOf(c), s)
  BY <1>0, <1>1, <1>3 DEF Sound, Told
<1>5. May(c, s)
  BY <1>1, <1>3, <1>4 DEF May, Swept
<1>6. Bridge(c, s)
  BY <1>0, <1>2, BridgeStays, BridgeStops
<1> QED BY <1>0, <1>1, <1>2, <1>5, <1>6, LocalStep, TokensStay

\* A connection that is not a tunnel yet goes on, or is shut.
LEMMA ReadMay ==
  ASSUME ClientInv, NEW c \in Conns, cn[c].at \in Phases,
         NEW s, \/ s = [cn[c] EXCEPT !.at = "read", !.srv = active]
                \/ s = [cn[c] EXCEPT !.at = "todo"] \/ s = [cn[c] EXCEPT !.at = "lane"]
                \/ s = [cn[c] EXCEPT !.at = "held"] \/ s = Shut(c, cn[c])
  PROVE  May(c, s) /\ s.tun = "None" /\ s.cbs = {}
<1> DEFINE r == cn[c]
<1>0. /\ Sound(KindOf(c), r) /\ r \in ConnRecord
  BY OfConn
<1>1. r.tun = "None" /\ r.cbs = {} /\ ~r.reg
  BY <1>0 DEF Sound, Told
<1>2. CASE s = Shut(c, cn[c])
  <2>1. Sound(KindOf(c), s) /\ s.at = "shut" /\ s.tun = "None" /\ s.cbs = {} /\ ~s.reg
    BY <1>0, <1>1, <1>2, ShutSound
  <2> QED BY <2>1 DEF May, Swept
<1>3. CASE s /= Shut(c, cn[c])
  <2>1. active \in Servers
    BY DEF ClientInv, RouteInv
  <2>2. /\ s \in ConnRecord /\ s.at \in Phases /\ s.tun = r.tun /\ s.cbs = r.cbs
        /\ s.reg = r.reg /\ s.n = r.n /\ s.resolved = r.resolved
    <3>1. CASE s = [r EXCEPT !.at = "read", !.srv = active]
      BY <1>0, <2>1, <3>1 DEF ConnRecord, Phases
    <3>2. ASSUME NEW k \in Phases, s = [r EXCEPT !.at = k]
          PROVE  /\ s \in ConnRecord /\ s.at \in Phases /\ s.tun = r.tun /\ s.cbs = r.cbs
                 /\ s.reg = r.reg /\ s.n = r.n /\ s.resolved = r.resolved
      BY <1>0, <3>2 DEF ConnRecord
    <3>3. {"todo", "lane", "held"} \subseteq Phases
      BY DEF Phases
    <3> QED BY <1>3, <3>1, <3>2, <3>3
  <2>3. Sound(KindOf(c), s)
    BY <1>0, <1>1, <2>2 DEF Sound, Told, Terminal, Phases
  <2> QED BY <1>1, <2>2, <2>3 DEF May, Swept
<1> QED BY <1>2, <1>3

LEMMA ReadStep ==
  ASSUME ClientInv, NEW c \in Conns, OpenReads(c) \/ SocksReads(c) \/ PipeReads(c)
  PROVE  ClientInv'
<1>1. PICK s : /\ s = [cn[c] EXCEPT !.at = "read", !.srv = active] \/ s = Shut(c, cn[c])
               /\ Set(c, s)
  BY DEF OpenReads, SocksReads, PipeReads
<1>2. /\ cn[c].at = "todo" /\ UNCHANGED <<routeVars, lane, held, stp>> /\ token' = token
      /\ (pipe' = pipe \/ (KindOf(c) = "pipe" /\ pipe' = [pipe EXCEPT !.bridge = "made"]))
  <2>1. CASE OpenReads(c)
    BY <2>1 DEF OpenReads
  <2>2. CASE SocksReads(c)
    BY <2>2 DEF SocksReads
  <2>3. CASE PipeReads(c)
    BY <2>3, Zenon DEF PipeReads
  <2> QED BY <2>1, <2>2, <2>3
<1>3. May(c, s) /\ s.tun = "None" /\ s.cbs = {} /\ cn[c].at \notin {"lane", "held"}
  BY <1>1, <1>2, ReadMay DEF Phases
<1>4. Bridge(c, s)
  <2>1. CASE pipe' = pipe
    BY <1>3, <2>1, OfConn, BridgeStays
  <2>2. CASE KindOf(c) = "pipe" /\ pipe' = [pipe EXCEPT !.bridge = "made"]
    <3>1. pipe' \in [bridge : {"none", "made", "running", "stopped"}, ask : BOOLEAN] /\ pipe'.bridge = "made"
      BY <2>2, OfConn
    <3> QED BY <1>3, <2>2, <3>1 DEF Bridge
  <2> QED BY <1>2, <2>1, <2>2
<1> QED BY <1>1, <1>2, <1>3, <1>4, LocalStep, TokensStay, OfConn

LEMMA RegisterStep ==
  ASSUME ClientInv, NEW c \in Conns, NEW room \in BOOLEAN, OpenRegisters(c, room)
  PROVE  ClientInv'
<1>0. /\ cn[c].at = "read" /\ UNCHANGED <<routeVars, lane, held, stp>> /\ token' = token /\ stp /= "done"
      /\ cn[c].at \in Phases /\ cn[c].at \notin {"lane", "held"}
  BY DEF OpenRegisters, Phases, Io
<1>1. CASE room
  <2> DEFINE r == cn[c]
             s == [r EXCEPT !.at = "added", !.reg = TRUE]
  <2>1. Set(c, s) /\ pipe' = pipe
    BY <1>1 DEF OpenRegisters
  <2>2. Sound(KindOf(c), r) /\ r \in ConnRecord
    BY OfConn
  <2>3. /\ s \in ConnRecord /\ s.at = "added" /\ s.tun = r.tun /\ s.cbs = r.cbs
        /\ s.reg /\ s.n = r.n /\ s.resolved = r.resolved
    BY <2>2 DEF ConnRecord
  <2>4. r.tun = "None" /\ r.cbs = {}
    BY <1>0, <2>2 DEF Sound, Told
  <2> HIDE DEF s
  <2>5. Sound(KindOf(c), s)
    BY <2>2, <2>3, <2>4 DEF Sound, Told, Terminal, Phases
  <2>6. May(c, s)
    BY <1>0, <2>3, <2>4, <2>5 DEF May, Swept
  <2>7. Bridge(c, s)
    BY <2>1, <2>3, <2>4, BridgeStays, OfConn
  <2> QED BY <1>0, <2>1, <2>6, <2>7, LocalStep, TokensStay, OfConn
<1>2. CASE ~room
  <2> DEFINE s == Shut(c, cn[c])
  <2>1. Set(c, s) /\ pipe' = (IF KindOf(c) = "pipe" THEN [bridge |-> "none", ask |-> TRUE] ELSE pipe)
    BY <1>2 DEF OpenRegisters
  <2>2. May(c, s) /\ s.tun = "None" /\ s.cbs = {}
    BY <1>0, ReadMay
  <2> HIDE DEF s
  <2>3. Bridge(c, s)
    BY <2>1, OfConn DEF Bridge
  <2> QED BY <1>0, <2>1, <2>2, <2>3, LocalStep, TokensStay, OfConn
<1> QED BY <1>1, <1>2

LEMMA SendStep ==
  ASSUME ClientInv, NEW c \in Conns, OpenSends(c)
  PROVE  ClientInv'
<1> DEFINE r == cn[c]
<1>0. /\ r.at = "added" /\ UNCHANGED <<routeVars, lane, held, stp>> /\ token' = token /\ pipe' = pipe
      /\ r.at \notin Phases /\ r.at \notin {"lane", "held"}
  BY DEF OpenSends, Phases
<1>1. /\ Sound(KindOf(c), r) /\ r \in ConnRecord /\ ConnsInv /\ StopInv
      /\ KindOf(c) = "pipe" /\ stp \in Late /\ pipe.bridge = "made"
              => r.tun /= "Connecting" /\ "Connected" \notin r.cbs
  BY OfConn
<1>2. CASE Stopping \/ r.tun /= "None"
  <2> DEFINE q == LetGo(r, "Graceful")
             s == Shut(c, q)
  <2>1. Set(c, s)
    BY <1>2 DEF OpenSends, abandon_tunnel_if_stopping
  <2>2. /\ Sound(KindOf(c), q) /\ ~q.reg /\ q.tun \notin {"Connecting", "Connected"}
        /\ q.cbs \subseteq r.cbs \cup {"End", "Close"}
    BY <1>1, LetGoSound
  <2> HIDE DEF q
  <2>3. Sound(KindOf(c), s) /\ s.at = "shut" /\ s.tun = q.tun /\ s.cbs = q.cbs /\ s.reg = q.reg
    BY <2>2, ShutSound
  <2> HIDE DEF s
  <2>4. May(c, s)
    BY <2>2, <2>3 DEF May, Swept, Phases
  <2>5. Bridge(c, s)
    BY <1>0, <1>1, <2>2, <2>3, BridgeStays
  <2> QED BY <1>0, <1>1, <2>1, <2>4, <2>5, LocalStep, TokensStay
<1>3. CASE ~Stopping /\ r.tun = "None"
  <2> DEFINE s == [r EXCEPT !.at = "open", !.tun = "Connecting"]
  <2>1. Set(c, s) /\ stp = "no"
    BY <1>3 DEF OpenSends, abandon_tunnel_if_stopping, Stopping
  <2>2. /\ s \in ConnRecord /\ s.at = "open" /\ s.tun = "Connecting" /\ s.cbs = r.cbs
        /\ s.reg = r.reg /\ s.n = r.n /\ s.resolved = r.resolved
    BY <1>1 DEF ConnRecord
  <2> HIDE DEF s
  <2>3. "End" \notin r.cbs /\ "Close" \notin r.cbs /\ r.reg
    BY <1>0, <1>1, <1>3 DEF Sound, Told, Terminal
  <2>4. Sound(KindOf(c), s)
    BY <1>1, <2>2, <2>3 DEF Sound, Told, Terminal, Phases
  <2>5. May(c, s)
    BY <2>1, <2>2, <2>4 DEF May, Phases
  <2>6. Bridge(c, s)
    BY <1>0, <1>1, <2>1, BridgeStays DEF Late
  <2> QED BY <1>0, <1>1, <2>1, <2>5, <2>6, LocalStep, TokensStay
<1> QED BY <1>2, <1>3

\* A tunnel that ends, or begins to, in whatever phase of stop().
LEMMA OverMay ==
  ASSUME ClientInv, NEW c \in Conns, cn[c].at \notin Phases, NEW r, NEW s, Sound(KindOf(c), s), Over(r, s),
         r.at = cn[c].at, r.reg => cn[c].reg, r.cbs \subseteq cn[c].cbs, pipe' = pipe
  PROVE  May(c, s) /\ Bridge(c, s) /\ s.at = cn[c].at
<1>1. /\ stp \in {"closed", "done"} => Swept(cn[c])
      /\ stp = "done" => ~cn[c].reg
      /\ KindOf(c) = "pipe" /\ stp \in Late /\ pipe.bridge = "made" => "Connected" \notin cn[c].cbs
      /\ StopInv
  BY OfConn
<1>2. /\ s.at = r.at /\ s.reg = r.reg /\ s.tun \notin {"None", "Connecting", "Connected"}
      /\ s.cbs \subseteq r.cbs \cup {"End", "Close"}
  BY DEF Over
<1>3. May(c, s)
  BY <1>1, <1>2 DEF May, Swept
<1>4. Bridge(c, s)
  BY <1>1, <1>2, BridgeStays
<1> QED BY <1>2, <1>3, <1>4

LEMMA TimeoutStep ==
  ASSUME ClientInv, NEW c \in Conns, OpenTimesOut(c)
  PROVE  ClientInv'
<1> DEFINE r == cn[c]
           s == Ends(r, "Error")
<1>0. /\ r.tun = "Connecting" /\ Set(c, s) /\ UNCHANGED <<routeVars, lane, held, stp>>
      /\ token' = token /\ pipe' = pipe
  BY DEF OpenTimesOut
<1>1. Sound(KindOf(c), r) /\ ConnsInv
  BY OfConn
<1>2. r.at \notin Phases /\ Told(KindOf(c), r)
  BY <1>0, <1>1 DEF Sound, Told
<1> HIDE DEF s
<1>3. Sound(KindOf(c), s) /\ Over(r, s)
  BY <1>2, EndsSound DEF Terminal, s
<1>4. May(c, s) /\ Bridge(c, s) /\ s.at = r.at
  BY <1>0, <1>2, <1>3, OverMay
<1> QED BY <1>0, <1>1, <1>4, LocalStep, TokensStay

LEMMA DisconnectStep ==
  ASSUME ClientInv, NEW c \in Conns, NEW abnormal \in BOOLEAN, end_tunnel_for_local_disconnect(c, abnormal)
  PROVE  ClientInv'
<1> DEFINE r == cn[c]
           q == [r EXCEPT !.sock = "shut"]
<1>0. PICK s : /\ s \in {Ends(q, "Error"), Ends(q, "Closed"), Close(q)} /\ Set(c, s)
               /\ r.at = "open" /\ r.tun \notin Terminal /\ UNCHANGED <<routeVars, lane, held, stp>>
               /\ token' = token /\ pipe' = pipe
  BY DEF end_tunnel_for_local_disconnect
<1>1. Sound(KindOf(c), r) /\ ConnsInv /\ r \in ConnRecord
  BY OfConn
<1>2. r.at \notin Phases /\ Told(KindOf(c), r)
  BY <1>0, <1>1 DEF Sound, Phases
<1>3. /\ q \in ConnRecord /\ q.at = r.at /\ q.tun = r.tun /\ q.cbs = r.cbs /\ q.reg = r.reg
      /\ q.n = r.n /\ q.resolved = r.resolved
  BY <1>1 DEF ConnRecord
<1> HIDE DEF q
<1>4. Told(KindOf(c), q)
  BY <1>0, <1>2, <1>3 DEF Told
<1>5. Sound(KindOf(c), s) /\ Over(q, s)
  BY <1>0, <1>2, <1>3, <1>4, EndsSound, CloseSound DEF Terminal
<1>6. May(c, s) /\ Bridge(c, s) /\ s.at = r.at
  BY <1>0, <1>2, <1>3, <1>5, OverMay
<1> QED BY <1>0, <1>1, <1>6, LocalStep, TokensStay

\* A connection that stays what it is.
LEMMA StayMay ==
  ASSUME ClientInv, NEW c \in Conns, pipe' = pipe
  PROVE  May(c, cn[c]) /\ Bridge(c, cn[c])
<1>1. /\ Sound(KindOf(c), cn[c])
      /\ stp \in {"closed", "done"} => Swept(cn[c])
      /\ stp = "done" => ~cn[c].reg
      /\ KindOf(c) = "pipe" /\ stp \in Late /\ pipe.bridge = "made"
           => cn[c].tun /= "Connecting" /\ "Connected" \notin cn[c].cbs
      /\ StopInv
  BY OfConn
<1> QED BY <1>1, BridgeStays DEF May

LEMMA KnownMay ==
  ASSUME ClientInv, NEW c \in Conns, NEW b \in BOOLEAN, NEW s, s = [cn[c] EXCEPT !.known = b], pipe' = pipe
  PROVE  May(c, s) /\ Bridge(c, s) /\ s.at = cn[c].at
<1> DEFINE r == cn[c]
<1>1. /\ Sound(KindOf(c), r) /\ r \in ConnRecord /\ StopInv
      /\ stp \in {"closed", "done"} => Swept(r)
      /\ stp = "done" => ~r.reg
      /\ KindOf(c) = "pipe" /\ stp \in Late /\ pipe.bridge = "made"
           => r.tun /= "Connecting" /\ "Connected" \notin r.cbs
  BY OfConn
<1>2. /\ s \in ConnRecord /\ s.at = r.at /\ s.sock = r.sock /\ s.tun = r.tun /\ s.cbs = r.cbs /\ s.reg = r.reg
      /\ s.n = r.n /\ s.resolved = r.resolved /\ s.gauge = r.gauge /\ s.reply = r.reply
  BY <1>1 DEF ConnRecord
<1>3. Sound(KindOf(c), s)
  BY <1>1, <1>2 DEF Sound, Told
<1>4. May(c, s)
  BY <1>1, <1>2, <1>3 DEF May, Swept
<1> QED BY <1>1, <1>2, <1>4, BridgeStays

LEMMA ForgetStep ==
  ASSUME ClientInv, NEW c \in Conns, ServerForgets(c)
  PROVE  ClientInv'
<1> DEFINE s == [cn[c] EXCEPT !.known = FALSE]
<1>1. /\ Set(c, s) /\ UNCHANGED <<routeVars, lane, held, stp>> /\ token' = token /\ pipe' = pipe
  BY DEF ServerForgets, Set
<1>2. May(c, s) /\ Bridge(c, s) /\ s.at = cn[c].at
  BY <1>1, KnownMay
<1> HIDE DEF s
<1> QED BY <1>1, <1>2, LocalStep, TokensStay, OfConn

\* One token is spent.
LEMMA TokenSpent ==
  ASSUME ConnsInv, NEW c \in Conns, token' = [token EXCEPT ![c] = 0]
  PROVE  Tokens
BY DEF ConnsInv, Tokens

LEMMA DeadlineStep ==
  ASSUME ClientInv, NEW c \in Conns, on_resume_deadline(c)
  PROVE  ClientInv'
<1> DEFINE r == cn[c]
<1>0. /\ token[c] /= 0 /\ token' = [token EXCEPT ![c] = 0] /\ pipe' = pipe
      /\ UNCHANGED <<routeVars, lane, held, stp>>
  BY DEF on_resume_deadline
<1>1. Sound(KindOf(c), r) /\ ConnsInv
  BY OfConn
<1>2. r.at \notin Phases /\ Told(KindOf(c), r)
  BY <1>0, <1>1 DEF Sound, ConnsInv
<1>3. CASE Set(c, Close(r))
  <2> DEFINE s == Close(r)
  <2>1. Sound(KindOf(c), s) /\ Over(r, s)
    BY <1>2, CloseSound
  <2> HIDE DEF s
  <2>2. May(c, s) /\ Bridge(c, s) /\ s.at = r.at
    BY <1>0, <1>2, <2>1, OverMay
  <2>3. Set(c, s)
    BY <1>3 DEF s
  <2> QED BY <1>0, <1>1, <2>2, <2>3, LocalStep, TokenSpent
<1>4. CASE cn' = cn
  <2>1. Set(c, r)
    BY <1>1, <1>4 DEF Set, ConnsInv
  <2> QED BY <1>0, <1>1, <2>1, StayMay, LocalStep, TokenSpent
<1> QED BY <1>3, <1>4 DEF on_resume_deadline

----------------------------------------------------------------------------
(* The strand, and what posts to it. *)

LEMMA TaskTypes ==
  /\ \A k \in {"resume", "release", "late", "failover"} : Task(k) \in Tasks /\ Task(k).k = k
  /\ \A i \in Servers, k \in {"repin", "verdict", "alive", "conn"} :
       About(k, i) \in Tasks /\ About(k, i).k = k /\ About(k, i).i = i
BY ServerAssumption DEF Task, About, Tasks, TaskKinds, Packets

LEMMA HeadOf ==
  ASSUME RouteInv, lane /= <<>>
  PROVE  Head(lane) = lane[1] /\ lane[1] \in Tasks /\ 1 \in 1 .. Len(lane) /\ lane \in Seq(Tasks)
<1>1. lane \in Seq(Tasks)
  BY DEF RouteInv
<1>2. Len(lane) \in Nat /\ Len(lane) /= 0
  BY <1>1, EmptySeq, LenProperties
<1>3. 1 \in 1 .. Len(lane)
  BY <1>2
<1> QED BY <1>1, <1>3, ElementOfSeq

LEMMA TookMoves ==
  ASSUME RouteInv, lane /= <<>>, NEW ts, ts \in Seq(Tasks), Took(ts)
  PROVE  Moved(1, ts)
BY TakeMoves DEF RouteInv, Took

LEMMA PostedMoves ==
  ASSUME RouteInv, NEW ts, ts \in Seq(Tasks), Posted(ts)
  PROVE  Moved(0, ts)
BY PostMoves DEF RouteInv, Posted

\* The connections are left alone.
LEMMA ConnsStay ==
  ASSUME ClientInv, UNCHANGED <<cn, token, held, stp>>, pipe'.bridge = pipe.bridge,
         pipe' \in [bridge : {"none", "made", "running", "stopped"}, ask : BOOLEAN]
  PROVE  ConnsInv' /\ StopInv' /\ HeldInv'
<1>1. ConnsInv'
  BY DEF ClientInv, ConnsInv
<1>2. StopInv'
  BY DEF ClientInv, StopInv
<1>3. HeldInv'
  BY DEF ClientInv, HeldInv
<1> QED BY <1>1, <1>2, <1>3

\* Where an accept is posted no step of others changes it.
LEMMA PostedStays ==
  ASSUME ClientInv, NEW d \in {0, 1}, NEW ts, Moved(d, ts), Len(ts) \in Nat,
         \A p \in 1 .. Len(ts) : ts[p].k /= "accept", \A c \in Conns : cn[c].at = "lane" => cn'[c].at = "lane"
  PROVE  PostedInv'
<1>1. lane \in Seq(Tasks) /\ PostedInv
  BY DEF ClientInv, RouteInv
<1>2. \A p \in 1 .. Len(lane) : lane[p].k = "accept" => lane[p].c \in Conns
  BY <1>1, ElementOfSeq DEF Tasks
<1>3. \A p \in 1 .. Len(lane) : Is(p, "accept") /\ p > d => cn'[lane[p].c].at = "lane"
  BY <1>1, <1>2 DEF PostedInv, Is
<1> QED BY <1>1, <1>3, PostedCalm

\* A step on the queue that leaves the connections and the route alone.
LEMMA QueueStep ==
  ASSUME ClientInv, UNCHANGED <<cn, token, held, stp>>, pipe'.bridge = pipe.bridge,
         pipe' \in [bridge : {"none", "made", "running", "stopped"}, ask : BOOLEAN],
         NEW d \in {0, 1}, NEW ts, Moved(d, ts), ts \in Seq(Tasks), UNCHANGED <<active, route, handler>>, gen' \in Nat,
         \A p \in 1 .. Len(ts) : ts[p].k \in Calm /\ ts[p].k /= "accept",
         d = 1 => lane[1].k /= "repin",
         ClockInv', HeldHaveRelease'
  PROVE  ClientInv'
<1>1. ConnsInv' /\ StopInv' /\ HeldInv'
  BY ConnsStay
<1>2. Len(ts) \in Nat
  BY LenProperties
<1>3. PostedInv'
  BY <1>2, PostedStays
<1>4. RouteInv'
  <2>1. RouteInv
    BY DEF ClientInv
  <2>2. \A p \in 1 .. Len(ts) : ts[p].k \in Calm \/ (ts[p].k \in Packets /\ ts[p].i = active)
    OBVIOUS
  <2>3. UNCHANGED <<active, route, handler>> /\ gen' \in Nat
    OBVIOUS
  <2> QED BY <1>2, <2>1, <2>2, <2>3, RouteCalm
<1> QED BY <1>1, <1>3, <1>4 DEF ClientInv

LEMMA RunConnectionStep ==
  ASSUME ClientInv, RunConnection
  PROVE  ClientInv'
<1> DEFINE i == Head(lane).i
           on == Head(lane).g = 1
           ts == IF i = active /\ on THEN <<Task("resume"), Task("release")>> ELSE <<>>
<1>0. RouteInv /\ lane /= <<>> /\ lane[1].k = "conn" /\ Took(ts) /\ on_friend_connection(i, on)
  <2>1. RouteInv /\ lane /= <<>> /\ Head(lane).k = "conn" /\ Took(ts) /\ on_friend_connection(i, on)
    BY DEF RunConnection, Running, Free, ClientInv
  <2> QED BY <2>1, HeadOf
<1>1. ts \in Seq(Tasks) /\ \A p \in 1 .. Len(ts) : ts[p].k \in Calm /\ ts[p].k /= "accept"
  <2>1. Task("resume") \in Tasks /\ Task("release") \in Tasks /\ Task("resume").k = "resume" /\ Task("release").k = "release"
    BY TaskTypes
  <2> QED BY <2>1 DEF Calm
<1>2. Moved(1, ts)
  BY <1>0, <1>1, TookMoves
<1>3. /\ UNCHANGED <<cn, token, held, stp>> /\ UNCHANGED <<active, route, handler, swap>>
      /\ gen' \in Nat /\ (i /= active => so' = so) /\ (i = active => so' = on)
      /\ ka' \in [on : BOOLEAN, dead : BOOLEAN, tell : BOOLEAN, of : Servers] /\ ka'.of \in {active, ka.of}
  <2>1. gen \in Nat /\ active \in Servers
        /\ ka \in [on : BOOLEAN, dead : BOOLEAN, tell : BOOLEAN, of : Servers]
    BY DEF ClientInv, RouteInv, ClockInv
  <2>2. /\ IF i = active
            THEN /\ so' = on /\ gen' = gen + 1
                 /\ ka' = IF on THEN enable_keepalive ELSE [ka EXCEPT !.on = FALSE]
            ELSE UNCHANGED <<so, gen, ka>>
        /\ UNCHANGED <<active, route, handler, swap>>
    BY <1>0 DEF on_friend_connection
  <2>3. enable_keepalive \in [on : BOOLEAN, dead : BOOLEAN, tell : BOOLEAN, of : Servers] /\ enable_keepalive.of = active
    BY <2>1 DEF enable_keepalive
  <2>4. UNCHANGED <<cn, token, held, stp>>
    BY DEF RunConnection
  <2> HIDE DEF i, on, ts
  <2>5. CASE i /= active
    BY <2>1, <2>2, <2>4, <2>5
  <2>6. CASE i = active
    <3>1. gen + 1 \in Nat /\ on \in BOOLEAN
      BY <2>1 DEF on
    <3>2. [ka EXCEPT !.on = FALSE] \in [on : BOOLEAN, dead : BOOLEAN, tell : BOOLEAN, of : Servers]
          /\ [ka EXCEPT !.on = FALSE].of = ka.of
      BY <2>1
    <3>3. ka' = enable_keepalive \/ ka' = [ka EXCEPT !.on = FALSE]
      BY <2>2, <2>6
    <3>4. /\ ka' \in [on : BOOLEAN, dead : BOOLEAN, tell : BOOLEAN, of : Servers]
          /\ ka'.of \in {active, ka.of}
      BY <2>3, <3>2, <3>3
    <3> QED BY <2>2, <2>4, <2>6, <3>1, <3>4
  <2> QED BY <2>5, <2>6
<1>4. /\ pipe'.bridge = pipe.bridge
      /\ pipe' \in [bridge : {"none", "made", "running", "stopped"}, ask : BOOLEAN]
  <2>1. pipe \in [bridge : {"none", "made", "running", "stopped"}, ask : BOOLEAN]
    BY DEF ClientInv, StopInv
  <2>2. pipe' = pipe \/ pipe' = [pipe EXCEPT !.ask = TRUE]
    BY DEF RunConnection
  <2> QED BY <2>1, <2>2
<1>5. ClockInv'
  BY <1>3 DEF ClientInv, ClockInv
<1>6. HeldHaveRelease'
  <2>1. CASE i = active /\ on
    <3>1. ts = <<Task("resume"), Task("release")>> /\ 2 \in 1 .. Len(ts) /\ ts[2] = Task("release")
      BY <2>1
    <3> HIDE DEF ts
    <3>2. Task("release") \in ToSet(lane')
      BY <1>2, <3>1, NowPosted
    <3> QED BY <3>2 DEF HeldHaveRelease, Task, ToSet
  <2>2. CASE ~(i = active /\ on)
    <3> HIDE DEF i, on, ts
    <3>1. so' => so
      BY <1>3, <2>2
    <3>2. lane[1].k /= "release" /\ lane \in Seq(Tasks) /\ HeldHaveRelease
      BY <1>0 DEF ClientInv, RouteInv
    <3> QED BY <1>2, <1>3, <3>1, <3>2, ReleaseStays DEF Stopping
  <2> QED BY <2>1, <2>2
<1>7. lane[1].k /= "repin"
  BY <1>0
<1> HIDE DEF ts
<1> QED BY <1>1, <1>2, <1>3, <1>4, <1>5, <1>6, <1>7, QueueStep

\* close_all() with what the queue does meanwhile.
LEMMA SweepStep ==
  ASSUME ClientInv, NEW mode, close_all(mode), UNCHANGED <<token, held, pipe, stp>>,
         NEW d \in {0, 1}, NEW ts, Moved(d, ts), ts \in Seq(Tasks), UNCHANGED <<active, route, handler>>, gen' \in Nat,
         \A p \in 1 .. Len(ts) : ts[p].k \in Calm /\ ts[p].k /= "accept",
         d = 1 => lane[1].k /= "repin",
         ClockInv', HeldHaveRelease'
  PROVE  ClientInv'
<1>1. /\ ConnsInv'
      /\ \A c \in Conns : /\ ~cn'[c].reg /\ cn'[c].at = cn[c].at
                          /\ cn'[c].tun \notin {"Connecting", "Connected"}
                          /\ "Connected" \in cn'[c].cbs => "Connected" \in cn[c].cbs
  BY CloseAllSound DEF ClientInv
<1>2. StopInv'
  <2>1. StopInv
    BY DEF ClientInv
  <2> QED BY <1>1, <2>1 DEF StopInv, Swept
<1>3. HeldInv'
  BY <1>1, HeldCalm DEF ClientInv
<1>4. Len(ts) \in Nat
  BY LenProperties
<1>5. PostedInv'
  BY <1>1, <1>4, PostedStays
<1>6. RouteInv'
  <2>1. RouteInv
    BY DEF ClientInv
  <2>2. \A p \in 1 .. Len(ts) : ts[p].k \in Calm \/ (ts[p].k \in Packets /\ ts[p].i = active)
    OBVIOUS
  <2> QED BY <1>4, <2>1, <2>2, RouteCalm
<1> QED BY <1>1, <1>2, <1>3, <1>5, <1>6 DEF ClientInv

LEMMA EmptyPost ==
  /\ <<>> \in Seq(Tasks)
  /\ \A p \in 1 .. Len(<<>>) : <<>>[p].k \in Calm /\ <<>>[p].k /= "accept"
OBVIOUS

LEMMA RunVerdictStep ==
  ASSUME ClientInv, RunVerdict
  PROVE  ClientInv'
<1>0. RouteInv /\ lane /= <<>> /\ lane[1].k = "verdict" /\ Took(<<>>) /\ lane \in Seq(Tasks)
  <2>1. RouteInv /\ lane /= <<>> /\ Head(lane).k = "verdict" /\ Took(<<>>)
    BY DEF RunVerdict, Running, Free, ClientInv
  <2> QED BY <2>1, HeadOf
<1>1. Moved(1, <<>>) /\ lane[1].k /= "repin" /\ lane[1].k /= "release"
  BY <1>0, TookMoves, EmptyPost
<1>2. /\ UNCHANGED <<token, held, pipe, stp>> /\ UNCHANGED <<active, route, handler, gen, ka, swap>>
      /\ (so' = so \/ so' = FALSE)
      /\ (cn' = cn \/ close_all("Abandon"))
  BY DEF RunVerdict, apply_keepalive_dead_verdict, routeVars
<1>3. ClockInv' /\ gen' \in Nat
  BY <1>2 DEF ClientInv, ClockInv, RouteInv
<1>4. HeldHaveRelease'
  BY <1>0, <1>1, <1>2, ReleaseStays DEF ClientInv, Stopping
<1>5. CASE cn' = cn
  <2>1. /\ pipe'.bridge = pipe.bridge
        /\ pipe' \in [bridge : {"none", "made", "running", "stopped"}, ask : BOOLEAN]
    BY <1>2 DEF ClientInv, StopInv
  <2> QED BY <1>1, <1>2, <1>3, <1>4, <1>5, <2>1, EmptyPost, QueueStep
<1>6. CASE close_all("Abandon")
  BY <1>1, <1>2, <1>3, <1>4, <1>6, EmptyPost, SweepStep
<1> QED BY <1>2, <1>5, <1>6

LEMMA SwitchClosesStep ==
  ASSUME ClientInv, SwitchCloses
  PROVE  ClientInv'
<1> DEFINE ts == <<Task("release")>>
<1>0. /\ close_all("Abandon") /\ UNCHANGED <<token, held, pipe, stp>>
      /\ UNCHANGED <<active, route, handler, gen, so>> /\ ka' = enable_keepalive /\ swap' = FALSE /\ Posted(ts)
  BY DEF SwitchCloses
<1>1. ts \in Seq(Tasks) /\ (\A p \in 1 .. Len(ts) : ts[p].k \in Calm /\ ts[p].k /= "accept")
      /\ 1 \in 1 .. Len(ts) /\ ts[1] = Task("release")
  <2>1. Task("release") \in Tasks /\ Task("release").k = "release"
    BY TaskTypes
  <2> QED BY <2>1 DEF Calm
<1> HIDE DEF ts
<1>2. Moved(0, ts)
  BY <1>0, <1>1, PostedMoves DEF ClientInv
<1>3. ClockInv' /\ gen' \in Nat
  BY <1>0 DEF ClientInv, ClockInv, RouteInv, enable_keepalive
<1>4. HeldHaveRelease'
  <2>1. Task("release") \in ToSet(lane')
    BY <1>1, <1>2, NowPosted
  <2> QED BY <2>1 DEF HeldHaveRelease, Task, ToSet
<1> QED BY <1>0, <1>1, <1>2, <1>3, <1>4, SweepStep

LEMMA LeastOf == ASSUME NEW T \in SUBSET Nat, T /= {} PROVE \E x \in T : \A y \in T : x <= y
<1>1. PICK x \in T : \A y \in T : ~ (<<y, x>> \in OpToRel(<, Nat))
  BY NatLessThanWellFounded, WFMin
<1>2. \A y \in T : ~ (y < x)
  BY <1>1 DEF OpToRel
<1> QED BY <1>2

\* A switch is to another server.
LEMMA SwitchesAway ==
  ASSUME NEW e, NEW i \in decide_failover_switch(e)
  PROVE  i \in Servers /\ i /= active
<1>1. CASE ~e[active].online /\ e[active].longOff /\ Usable(e) /= {}
  <2> DEFINE T == Usable(e)
  <2>1. T \subseteq Servers \ {active} /\ T \in SUBSET Nat /\ T /= {}
    BY <1>1, ServerAssumption DEF Usable
  <2>2. i = Min(T)
    BY <1>1 DEF decide_failover_switch
  <2> HIDE DEF T
  <2>3. Min(T) \in T
    BY <2>1, LeastOf DEF Min
  <2> QED BY <2>1, <2>2, <2>3
<1>2. CASE ~(~e[active].online /\ e[active].longOff /\ Usable(e) /= {})
  BY <1>2, ServerAssumption DEF decide_failover_switch
<1> QED BY <1>1, <1>2

LEMMA RunFailoverStep ==
  ASSUME ClientInv, RunFailover
  PROVE  ClientInv'
<1>0. /\ RouteInv /\ lane /= <<>> /\ Head(lane).k = "failover" /\ lane[1].k = "failover" /\ lane \in Seq(Tasks)
      /\ UNCHANGED <<cn, token, held, pipe, stp>> /\ UNCHANGED <<route, handler, ka>>
  <2>1. RouteInv /\ lane /= <<>> /\ Head(lane).k = "failover" /\ UNCHANGED <<cn, token, held, pipe, stp>>
        /\ UNCHANGED <<route, handler, ka>>
    BY DEF RunFailover, Running, Free, ClientInv, connVars, apply_failover_on_strand
  <2> QED BY <2>1, HeadOf
<1>1. /\ pipe'.bridge = pipe.bridge
      /\ pipe' \in [bridge : {"none", "made", "running", "stopped"}, ask : BOOLEAN]
  BY <1>0 DEF ClientInv, StopInv
<1>2. Tail(lane) \in Seq(Tasks)
  BY <1>0, HeadTailProperties
<1>3. CASE decide_failover_switch(expire_standbys) = {}
  <2>1. lane' = Tail(lane) /\ UNCHANGED <<active, gen, so, swap>>
    BY <1>3 DEF RunFailover, apply_failover_on_strand
  <2>2. Took(<<>>)
    BY <1>2, <2>1, ConcatEmptySeq DEF Took
  <2>3. Moved(1, <<>>) /\ lane[1].k /= "repin" /\ lane[1].k /= "release"
    BY <1>0, <2>2, TookMoves, EmptyPost
  <2>4. ClockInv' /\ gen' \in Nat /\ UNCHANGED <<active, route, handler>>
    BY <1>0, <2>1 DEF ClientInv, ClockInv, RouteInv
  <2>5. HeldHaveRelease'
    BY <1>0, <2>1, <2>3, ReleaseStays DEF ClientInv, Stopping
  <2> QED BY <1>0, <1>1, <2>3, <2>4, <2>5, EmptyPost, QueueStep
<1>4. CASE decide_failover_switch(expire_standbys) /= {}
  <2>1. PICK i \in decide_failover_switch(expire_standbys) : SwitchPublishes(expire_standbys, i)
    BY <1>4 DEF RunFailover, apply_failover_on_strand
  <2>2. i \in Servers /\ i /= active
    BY SwitchesAway
  <2>3. active' = i /\ gen' = gen + 1 /\ swap' = TRUE /\ lane' = Append(Tail(lane), About("repin", i))
    BY <2>1 DEF SwitchPublishes
  <2>4. About("repin", i) \in Tasks
    BY <2>2, TaskTypes
  <2> DEFINE ts == <<About("repin", i)>>
  <2>5. ts \in Seq(Tasks) /\ Len(ts) \in Nat /\ \A p \in 1 .. Len(ts) : ts[p].k /= "accept"
    BY <2>4 DEF About, Task
  <2>6. Took(ts)
    BY <1>2, <2>3, <2>4, AppendIsConcat DEF Took
  <2>7. Moved(1, ts)
    BY <1>0, <2>5, <2>6, TookMoves
  <2>8. gen' \in Nat
    BY <2>3 DEF ClientInv, RouteInv
  <2>9. RouteInv'
    BY <1>0, <2>2, <2>3, <2>7, <2>8, RouteSwitches
  <2> HIDE DEF ts
  <2>10. PostedInv'
    BY <1>0, <2>5, <2>7, PostedStays
  <2>11. ClockInv' /\ HeldHaveRelease'
    BY <1>0, <2>3 DEF ClientInv, ClockInv, HeldHaveRelease
  <2> QED BY <1>0, <1>1, <2>9, <2>10, <2>11, ConnsStay DEF ClientInv
<1> QED BY <1>3, <1>4

LEMMA RunRepinStep ==
  ASSUME ClientInv, Running("repin"), Repin(Head(lane).i), UNCHANGED connVars, Took(<<>>)
  PROVE  ClientInv'
<1>0. /\ RouteInv /\ lane /= <<>> /\ Head(lane).k = "repin" /\ lane[1].k = "repin" /\ lane \in Seq(Tasks)
      /\ UNCHANGED <<cn, token, held, pipe, stp>> /\ UNCHANGED <<active, gen, so, ka, swap>>
      /\ route' = Head(lane).i /\ handler' = Head(lane).i
  <2>1. RouteInv /\ lane /= <<>> /\ Head(lane).k = "repin"
    BY DEF Running, Free, ClientInv
  <2>2. UNCHANGED <<cn, token, held, pipe, stp>> /\ UNCHANGED <<active, gen, so, ka, swap>>
      /\ route' = Head(lane).i /\ handler' = Head(lane).i
    BY DEF connVars, Repin
  <2> QED BY <2>1, <2>2, HeadOf
<1>1. Moved(1, <<>>) /\ lane[1].k /= "release"
  BY <1>0, TookMoves, EmptyPost
<1>2. RouteInv'
  BY <1>0, <1>1, RouteRepins
<1>3. /\ pipe'.bridge = pipe.bridge
      /\ pipe' \in [bridge : {"none", "made", "running", "stopped"}, ask : BOOLEAN]
  BY <1>0 DEF ClientInv, StopInv
<1>4. PostedInv'
  <2>1. Len(<<>>) \in Nat /\ \A p \in 1 .. Len(<<>>) : <<>>[p].k /= "accept"
    OBVIOUS
  <2> QED BY <1>0, <1>1, <2>1, PostedStays
<1>5. ClockInv'
  BY <1>0 DEF ClientInv, ClockInv
<1>6. HeldHaveRelease'
  BY <1>0, <1>1, ReleaseStays DEF ClientInv, Stopping
<1> QED BY <1>0, <1>2, <1>3, <1>4, <1>5, <1>6, ConnsStay DEF ClientInv

LEMMA RunAliveStep ==
  ASSUME ClientInv, Running("alive"), note_standby_alive(Head(lane).i), UNCHANGED connVars, Took(<<>>)
  PROVE  ClientInv'
<1>0. /\ RouteInv /\ lane /= <<>> /\ lane[1].k = "alive" /\ lane \in Seq(Tasks)
      /\ UNCHANGED <<cn, token, held, pipe, stp>> /\ UNCHANGED <<active, gen, so, ka, swap, route, handler>>
  <2>1. RouteInv /\ lane /= <<>> /\ Head(lane).k = "alive"
    BY DEF Running, Free, ClientInv
  <2>2. UNCHANGED <<cn, token, held, pipe, stp>> /\ UNCHANGED <<active, gen, so, ka, swap, route, handler>>
    BY DEF connVars, note_standby_alive
  <2> QED BY <2>1, <2>2, HeadOf
<1>1. Moved(1, <<>>) /\ lane[1].k /= "release" /\ lane[1].k /= "repin"
  BY <1>0, TookMoves, EmptyPost
<1>2. /\ pipe'.bridge = pipe.bridge
      /\ pipe' \in [bridge : {"none", "made", "running", "stopped"}, ask : BOOLEAN]
  BY <1>0 DEF ClientInv, StopInv
<1>3. ClockInv' /\ gen' \in Nat
  BY <1>0 DEF ClientInv, ClockInv, RouteInv
<1>4. HeldHaveRelease'
  BY <1>0, <1>1, ReleaseStays DEF ClientInv, Stopping
<1> QED BY <1>0, <1>1, <1>2, <1>3, <1>4, EmptyPost, QueueStep

\* A token is given only to a tunnel in the manager.
LEMMA RunResumeStep ==
  ASSUME ClientInv, Running("resume"), send_resume_requests, UNCHANGED routeVars, Took(<<>>)
  PROVE  ClientInv'
<1>0. /\ RouteInv /\ lane /= <<>> /\ lane[1].k = "resume" /\ lane \in Seq(Tasks)
      /\ UNCHANGED <<cn, held, pipe, stp>> /\ UNCHANGED <<active, gen, so, ka, swap, route, handler>>
  <2>1. RouteInv /\ lane /= <<>> /\ Head(lane).k = "resume"
    BY DEF Running, Free, ClientInv
  <2>2. UNCHANGED <<cn, held, pipe, stp>> /\ UNCHANGED <<active, gen, so, ka, swap, route, handler>>
    BY DEF routeVars, send_resume_requests
  <2> QED BY <2>1, <2>2, HeadOf
<1>1. Moved(1, <<>>) /\ lane[1].k /= "release" /\ lane[1].k /= "repin"
  BY <1>0, TookMoves, EmptyPost
<1>2. ConnsInv'
  <2>1. ASSUME NEW c \in Conns
        PROVE  token'[c] \in Nat /\ (token'[c] /= 0 => cn[c].at \notin Phases)
    <3>1. gen \in Nat /\ Sound(KindOf(c), cn[c])
      BY DEF ClientInv, RouteInv, ConnsInv
    <3> QED BY <3>1 DEF send_resume_requests, Sound
  <2>2. token' \in [Conns -> Nat]
    BY <2>1 DEF send_resume_requests
  <2> QED BY <1>0, <2>1, <2>2 DEF ClientInv, ConnsInv
<1>3. StopInv' /\ HeldInv' /\ ClockInv' /\ gen' \in Nat
  <2>1. StopInv'
    BY <1>0 DEF ClientInv, StopInv
  <2> QED BY <1>0, <2>1, HeldCalm DEF ClientInv, ClockInv, RouteInv
<1>4. HeldHaveRelease'
  BY <1>0, <1>1, ReleaseStays DEF ClientInv, Stopping
<1>5. Len(<<>>) \in Nat /\ \A p \in 1 .. Len(<<>>) : <<>>[p].k /= "accept"
      /\ (<<>>[p].k \in Calm \/ (<<>>[p].k \in Packets /\ <<>>[p].i = active))
  OBVIOUS
<1>6. PostedInv'
  BY <1>0, <1>1, <1>5, PostedStays
<1>7. RouteInv'
  BY <1>0, <1>1, <1>3, <1>5, RouteCalm
<1> QED BY <1>2, <1>3, <1>4, <1>6, <1>7 DEF ClientInv

\* The head of the queue is the only accept of its connection.
LEMMA AcceptTaken ==
  ASSUME ClientInv, lane /= <<>>, lane[1].k = "accept", Moved(1, <<>>),
         \A c \in Conns \ {lane[1].c} : cn'[c] = cn[c]
  PROVE  PostedInv'
<1>1. lane \in Seq(Tasks) /\ PostedInv /\ 1 \in 1 .. Len(lane)
  BY HeadOf DEF ClientInv
<1>2. \A p \in 1 .. Len(lane) : lane[p].k = "accept" => lane[p].c \in Conns
  BY <1>1, ElementOfSeq DEF Tasks
<1>3. ASSUME NEW p \in 1 .. Len(lane), lane[p].k = "accept", p > 1
      PROVE  cn'[lane[p].c].at = "lane"
  <2>1. lane[p].c /= lane[1].c
    BY <1>1, <1>3 DEF PostedInv, Is
  <2> QED BY <1>1, <1>2, <1>3, <2>1 DEF PostedInv, Is
<1>4. Len(<<>>) \in Nat /\ \A p \in 1 .. Len(<<>>) : <<>>[p].k /= "accept"
  OBVIOUS
<1> QED BY <1>1, <1>3, <1>4, PostedCalm DEF Is

\* A connection joins the ones that are held.
LEMMA HeldGrows ==
  ASSUME HeldInv, NEW c \in Conns, cn[c].at /= "held", cn'[c].at = "held",
         \A d \in Conns \ {c} : cn'[d] = cn[d],
         held' = [held EXCEPT !.q = Append(@, c), !.armed = TRUE]
  PROVE  HeldInv'
<1> DEFINE q == held.q
           n == Len(q)
<1>1. q \in Seq(Conns) /\ n \in Nat /\ \A p \in 1 .. n : q[p] \in Conns
  BY ElementOfSeq, LenProperties DEF HeldInv
<1>2. /\ held' \in [q : Seq(Conns), armed : BOOLEAN, shut : BOOLEAN] /\ held'.q = Append(q, c)
  <2>1. Append(q, c) \in Seq(Conns)
    BY <1>1, AppendProperties
  <2> QED BY <2>1 DEF HeldInv
<1>3. /\ Len(held'.q) = n + 1 /\ held'.q[n + 1] = c /\ \A p \in 1 .. n : held'.q[p] = q[p]
  BY <1>1, <1>2, AppendProperties
<1>4. \A p \in 1 .. n : cn[q[p]].at = "held" /\ q[p] /= c
  BY DEF HeldInv
<1>5. \A p \in 1 .. Len(held'.q) : p \in 1 .. n \/ p = n + 1
  BY <1>1, <1>3
<1>6. \A p \in 1 .. Len(held'.q) : cn'[held'.q[p]].at = "held"
  BY <1>1, <1>3, <1>4, <1>5
<1>7. \A p, r \in 1 .. Len(held'.q) : held'.q[p] = held'.q[r] => p = r
  <2>1. \A p, r \in 1 .. n : q[p] = q[r] => p = r
    BY DEF HeldInv
  <2> HIDE DEF q, n
  <2> QED BY <1>3, <1>4, <1>5, <2>1
<1> QED BY <1>2, <1>6, <1>7 DEF HeldInv

LEMMA RunAcceptStep ==
  ASSUME ClientInv, Running("accept"), Accept(Head(lane).c), UNCHANGED <<routeVars, token, pipe, stp>>, Took(<<>>)
  PROVE  ClientInv'
<1> DEFINE c == Head(lane).c
<1>0. /\ RouteInv /\ lane /= <<>> /\ lane[1].k = "accept" /\ c = lane[1].c /\ lane \in Seq(Tasks) /\ c \in Conns
      /\ cn[c].at = "lane"
  <2>1. RouteInv /\ PostedInv /\ lane /= <<>> /\ Head(lane).k = "accept"
    BY DEF Running, Free, ClientInv
  <2>2. Head(lane) = lane[1] /\ lane[1] \in Tasks /\ 1 \in 1 .. Len(lane) /\ lane \in Seq(Tasks)
    BY <2>1, HeadOf
  <2> QED BY <2>1, <2>2 DEF Tasks, PostedInv, Is
<1>1. Moved(1, <<>>) /\ lane[1].k /= "release" /\ lane[1].k /= "repin"
  BY <1>0, TookMoves, EmptyPost
<1>2. UNCHANGED <<token, pipe, stp>> /\ UNCHANGED <<active, gen, so, ka, swap, route, handler>>
  BY DEF routeVars
<1>3. PICK s : /\ Set(c, s)
               /\ \/ s = Shut(c, cn[c]) /\ held' = held
                  \/ s = [cn[c] EXCEPT !.at = "todo"] /\ held' = held
                  \/ /\ s = [cn[c] EXCEPT !.at = "held"] /\ ~so /\ ~Stopping
                     /\ held' = [held EXCEPT !.q = Append(@, c), !.armed = TRUE]
  BY DEF Accept
<1> HIDE DEF c
<1>4. cn[c].at \in Phases /\ cn[c].at /= "held"
  BY <1>0 DEF Phases
<1>5. May(c, s) /\ s.tun = "None" /\ s.cbs = {}
  BY <1>0, <1>3, <1>4, ReadMay
<1>6. ConnsInv' /\ cn'[c] = s /\ \A d \in Conns \ {c} : cn'[d] = cn[d]
  BY <1>0, <1>2, <1>3, <1>5, SetSound, TokensStay DEF ClientInv
<1>7. stp \in Late => held'.q = held.q
  BY <1>3 DEF Late, Stopping
<1>8. StopInv'
  <2>1. StopInv
    BY DEF ClientInv
  <2>2. Bridge(c, s)
    BY <1>0, <1>2, <1>5, <2>1, BridgeStays
  <2> QED BY <1>0, <1>2, <1>5, <1>6, <1>7, <2>1, <2>2, SetStops
<1>9. HeldInv'
  <2>1. CASE held' = held
    <3>1. \A d \in Conns : cn[d].at = "held" => cn'[d].at = "held"
      BY <1>0, <1>6
    <3> QED BY <2>1, <3>1, HeldCalm DEF ClientInv
  <2>2. CASE s = [cn[c] EXCEPT !.at = "held"] /\ held' = [held EXCEPT !.q = Append(@, c), !.armed = TRUE]
    <3>1. s.at = "held"
      BY <1>0, <2>2, OfConn DEF ConnRecord
    <3> QED BY <1>0, <1>4, <1>6, <2>2, <3>1, HeldGrows DEF ClientInv
  <2> QED BY <1>3, <2>1, <2>2
<1>10. PostedInv'
  BY <1>0, <1>1, <1>6, AcceptTaken
<1>11. RouteInv'
  <2>1. Len(<<>>) \in Nat /\ \A p \in 1 .. Len(<<>>) :
          (<<>>[p].k \in Calm \/ (<<>>[p].k \in Packets /\ <<>>[p].i = active))
    OBVIOUS
  <2>2. gen' \in Nat
    BY <1>0, <1>2 DEF RouteInv
  <2> QED BY <1>0, <1>1, <1>2, <2>1, <2>2, RouteCalm
<1>12. ClockInv'
  BY <1>2 DEF ClientInv, ClockInv
<1>13. HeldHaveRelease'
  <2>1. CASE held' = held
    BY <1>0, <1>1, <1>2, <2>1, ReleaseStays DEF ClientInv, Stopping
  <2>2. CASE ~so
    BY <1>2, <2>2 DEF HeldHaveRelease
  <2> QED BY <1>3, <2>1, <2>2
<1> QED BY <1>6, <1>8, <1>9, <1>10, <1>11, <1>12, <1>13 DEF ClientInv

\* Held connections H go on, or are shut.
Leave(H) ==
  /\ H \subseteq Conns /\ (\A c \in H : cn[c].at = "held") /\ cn' = [c \in Conns |-> cn'[c]]
  /\ \A c \in Conns : IF c \in H THEN cn'[c] = [cn[c] EXCEPT !.at = "todo"] \/ cn'[c] = Shut(c, cn[c])
                      ELSE cn'[c] = cn[c]

LEMMA HeldLeave ==
  ASSUME ClientInv, NEW H, Leave(H), token' = token
  PROVE  /\ ConnsInv'
         /\ \A c \in Conns : /\ cn[c].at = "lane" => cn'[c].at = "lane"
                             /\ c \notin H => cn'[c].at = cn[c].at
                             /\ cn'[c].tun = cn[c].tun /\ cn'[c].cbs = cn[c].cbs
                             /\ stp \in {"closed", "done"} => Swept(cn'[c])
                             /\ stp = "done" => ~cn'[c].reg
<1>1. ASSUME NEW c \in Conns
      PROVE  /\ May(c, cn'[c]) /\ (cn[c].at = "lane" => cn'[c].at = "lane")
             /\ c \notin H => cn'[c].at = cn[c].at
             /\ cn'[c].tun = cn[c].tun /\ cn'[c].cbs = cn[c].cbs
  <2>1. CASE c \in H
    <3>1. cn[c].at = "held" /\ cn[c].at \in Phases
      BY <2>1 DEF Leave, Phases
    <3>2. cn[c].tun = "None" /\ cn[c].cbs = {}
      BY <3>1, OfConn DEF Sound, Told
    <3>3. cn'[c] = [cn[c] EXCEPT !.at = "todo"] \/ cn'[c] = Shut(c, cn[c])
      BY <2>1 DEF Leave
    <3>4. May(c, cn'[c]) /\ cn'[c].tun = "None" /\ cn'[c].cbs = {}
      BY <3>1, <3>3, ReadMay
    <3> QED BY <2>1, <3>1, <3>2, <3>4
  <2>2. CASE c \notin H
    <3>1. cn'[c] = cn[c]
      BY <2>2 DEF Leave
    <3>2. /\ Sound(KindOf(c), cn[c])
          /\ stp \in {"closed", "done"} => Swept(cn[c])
          /\ stp = "done" => ~cn[c].reg
      BY OfConn
    <3> QED BY <3>1, <3>2 DEF May
  <2> QED BY <2>1, <2>2
<1>2. cn' \in [Conns -> ConnRecord]
  BY <1>1 DEF Leave, May, Sound, Told
<1>3. ASSUME NEW c \in Conns
      PROVE  Sound(KindOf(c), cn'[c]) /\ (token'[c] /= 0 => cn'[c].at \notin Phases)
  BY <1>1 DEF May, ClientInv, ConnsInv
<1>4. ConnsInv'
  BY <1>2, <1>3 DEF ClientInv, ConnsInv
<1> QED BY <1>1, <1>4 DEF May

LEMMA HeldSet ==
  ASSUME HeldInv
  PROVE  ToSet(held.q) \subseteq Conns /\ \A c \in ToSet(held.q) : cn[c].at = "held"
<1>1. held.q \in Seq(Conns)
  BY DEF HeldInv
<1>2. DOMAIN held.q = 1 .. Len(held.q) /\ \A p \in 1 .. Len(held.q) : held.q[p] \in Conns
  BY <1>1, LenProperties, ElementOfSeq
<1> QED BY <1>2 DEF HeldInv, ToSet

LEMMA RunReleaseStep ==
  ASSUME ClientInv, Running("release"), Release, UNCHANGED <<routeVars, token, pipe, stp>>, Took(<<>>)
  PROVE  ClientInv'
<1>0. /\ RouteInv /\ lane /= <<>> /\ lane[1].k = "release" /\ lane \in Seq(Tasks)
  <2>1. RouteInv /\ lane /= <<>> /\ Head(lane).k = "release"
    BY DEF Running, Free, ClientInv
  <2> QED BY <2>1, HeadOf
<1>1. Moved(1, <<>>) /\ lane[1].k /= "repin"
  BY <1>0, TookMoves, EmptyPost
<1>2. UNCHANGED <<token, pipe, stp>> /\ UNCHANGED <<active, gen, so, ka, swap, route, handler>>
  BY DEF routeVars
<1>3. ClockInv' /\ gen' \in Nat
  BY <1>2 DEF ClientInv, ClockInv, RouteInv
<1>4. CASE ~so \/ Stopping
  <2>1. UNCHANGED <<cn, held>>
    BY <1>4 DEF Release
  <2>2. HeldHaveRelease'
    BY <1>2, <1>4 DEF HeldHaveRelease, Stopping
  <2>3. /\ pipe'.bridge = pipe.bridge
        /\ pipe' \in [bridge : {"none", "made", "running", "stopped"}, ask : BOOLEAN]
    BY <1>2 DEF ClientInv, StopInv
  <2> QED BY <1>1, <1>2, <1>3, <2>1, <2>2, <2>3, EmptyPost, QueueStep
<1>5. CASE so /\ ~Stopping
  <2> DEFINE H == ToSet(held.q)
  <2>1. /\ cn' = [c \in Conns |-> IF c \in H THEN [cn[c] EXCEPT !.at = "todo"] ELSE cn[c]]
        /\ held' = [held EXCEPT !.q = <<>>] /\ stp = "no"
    BY <1>5 DEF Release, Stopping
  <2>2. H \subseteq Conns /\ \A c \in H : cn[c].at = "held"
    BY HeldSet DEF ClientInv
  <2> HIDE DEF H
  <2>3. Leave(H)
    BY <2>1, <2>2 DEF Leave
  <2>4. /\ ConnsInv'
        /\ \A c \in Conns : cn[c].at = "lane" => cn'[c].at = "lane"
    BY <1>2, <2>3, HeldLeave
  <2>5. StopInv'
    BY <1>2, <2>1 DEF ClientInv, StopInv
  <2>6. held'.q = <<>> /\ held' \in [q : Seq(Conns), armed : BOOLEAN, shut : BOOLEAN]
    <3>1. <<>> \in Seq(Conns)
      OBVIOUS
    <3> QED BY <2>1, <3>1 DEF ClientInv, HeldInv
  <2>7. HeldInv' /\ HeldHaveRelease'
    BY <2>6 DEF HeldInv, HeldHaveRelease
  <2>8. Len(<<>>) \in Nat /\ \A p \in 1 .. Len(<<>>) : <<>>[p].k /= "accept"
          /\ (<<>>[p].k \in Calm \/ (<<>>[p].k \in Packets /\ <<>>[p].i = active))
    OBVIOUS
  <2>9. PostedInv'
    BY <1>1, <2>4, <2>8, PostedStays
  <2>10. RouteInv'
    BY <1>0, <1>1, <1>2, <1>3, <2>8, RouteCalm
  <2> QED BY <1>3, <2>4, <2>5, <2>7, <2>9, <2>10 DEF ClientInv
<1> QED BY <1>4, <1>5

LEMMA RunLateStep ==
  ASSUME ClientInv, NEW k \in 0 .. Len(held.q), RunLate(k)
  PROVE  ClientInv'
<1> DEFINE q == held.q
           n == Len(q)
           H == ToSet(SubSeq(q, 1, k))
           rest == SubSeq(q, k + 1, n)
<1>0. /\ RouteInv /\ lane /= <<>> /\ lane[1].k = "late" /\ lane \in Seq(Tasks) /\ Took(<<>>)
  <2>1. RouteInv /\ lane /= <<>> /\ Head(lane).k = "late" /\ Took(<<>>)
    BY DEF RunLate, Running, Free, ClientInv
  <2> QED BY <2>1, HeadOf
<1>1. Moved(1, <<>>) /\ lane[1].k /= "repin" /\ lane[1].k /= "release"
  BY <1>0, TookMoves, EmptyPost
<1>2. UNCHANGED <<token, pipe, stp>> /\ UNCHANGED <<active, gen, so, ka, swap, route, handler>>
  BY DEF routeVars, RunLate
<1>3. ClockInv' /\ gen' \in Nat
  BY <1>2 DEF ClientInv, ClockInv, RouteInv
<1>4. /\ q \in Seq(Conns) /\ n \in Nat /\ k \in Int /\ 0 <= k /\ k <= n /\ \A p \in 1 .. n : q[p] \in Conns
  BY ElementOfSeq, LenProperties DEF ClientInv, HeldInv
<1>5. /\ SubSeq(q, 1, k) \in Seq(Conns) /\ Len(SubSeq(q, 1, k)) = k
      /\ \A p \in 1 .. k : SubSeq(q, 1, k)[p] = q[p]
  <2>1. \A p \in 1 .. k : q[p] \in Conns
    BY <1>4
  <2>2. /\ SubSeq(q, 1, k) \in Seq(Conns)
        /\ Len(SubSeq(q, 1, k)) = IF 1 <= k THEN k - 1 + 1 ELSE 0
        /\ \A p \in 1 .. k - 1 + 1 : SubSeq(q, 1, k)[p] = q[1 + p - 1]
    BY <1>4, <2>1, SubSeqProperties
  <2> QED BY <1>4, <2>2
<1>6. /\ rest \in Seq(Conns) /\ Len(rest) = n - k
      /\ \A p \in 1 .. n - k : rest[p] = q[k + p]
  <2>1. \A p \in k + 1 .. n : q[p] \in Conns
    BY <1>4
  <2>2. k + 1 \in Int /\ n \in Int
    BY <1>4
  <2>3. /\ rest \in Seq(Conns)
        /\ Len(rest) = IF k + 1 <= n THEN n - (k + 1) + 1 ELSE 0
        /\ \A p \in 1 .. n - (k + 1) + 1 : rest[p] = q[(k + 1) + p - 1]
    BY <2>1, <2>2, SubSeqProperties
  <2>4. n - (k + 1) + 1 = n - k /\ (IF k + 1 <= n THEN n - (k + 1) + 1 ELSE 0) = n - k
    BY <1>4
  <2>5. \A p \in 1 .. n - k : (k + 1) + p - 1 = k + p
    BY <1>4
  <2> QED BY <2>3, <2>4, <2>5
<1>7. H = {q[p] : p \in 1 .. k}
  <2>1. DOMAIN SubSeq(q, 1, k) = 1 .. k
    BY <1>5, LenProperties
  <2> QED BY <1>5, <2>1 DEF ToSet
<1>8. /\ cn' = [c \in Conns |-> IF c \in H THEN Shut(c, cn[c]) ELSE cn[c]]
      /\ held' = [held EXCEPT !.q = rest, !.armed = k < n]
  BY DEF RunLate, Expire
<1>9. HeldInv
  BY DEF ClientInv
<1> HIDE DEF H, rest
<1>10. Leave(H)
  <2>1. H \subseteq Conns /\ \A c \in H : cn[c].at = "held"
    <3>1. \A p \in 1 .. k : p \in 1 .. n
      BY <1>4
    <3> QED BY <1>4, <1>7, <1>9, <3>1 DEF HeldInv
  <2> QED BY <1>8, <2>1 DEF Leave
<1>11. /\ ConnsInv'
       /\ \A c \in Conns : /\ cn[c].at = "lane" => cn'[c].at = "lane"
                           /\ c \notin H => cn'[c].at = cn[c].at
                           /\ cn'[c].tun = cn[c].tun /\ cn'[c].cbs = cn[c].cbs
                           /\ stp \in {"closed", "done"} => Swept(cn'[c])
                           /\ stp = "done" => ~cn'[c].reg
  BY <1>2, <1>10, HeldLeave
<1>12. held'.q = rest /\ held' \in [q : Seq(Conns), armed : BOOLEAN, shut : BOOLEAN]
  <2> DEFINE b == k < n
  <2>1. b \in BOOLEAN /\ held' = [held EXCEPT !.q = rest, !.armed = b]
    BY <1>8
  <2> HIDE DEF b
  <2>2. held \in [q : Seq(Conns), armed : BOOLEAN, shut : BOOLEAN]
    BY <1>9 DEF HeldInv
  <2> QED BY <1>6, <2>1, <2>2
<1>13. held'.q /= <<>> => q /= <<>>
  BY <1>4, <1>6, <1>12, EmptySeq
<1>14. StopInv'
  <2>1. stp \in Late => held'.q = <<>>
    BY <1>13 DEF ClientInv, StopInv, Late
  <2>2. StopInv
    BY DEF ClientInv
  <2>3. stp \in {"closed", "done"} => \A c \in Conns : Swept(cn'[c])
    BY <1>11
  <2>4. stp = "done" => \A c \in Conns : ~cn'[c].reg
    BY <1>11
  <2>5. \A c \in Conns : cn'[c].tun = cn[c].tun /\ cn'[c].cbs = cn[c].cbs
    BY <1>11
  <2>6. stp \in Late /\ pipe.bridge = "made" => \A c \in Conns : KindOf(c) = "pipe" =>
                                    cn'[c].tun /= "Connecting" /\ "Connected" \notin cn'[c].cbs
    BY <2>2, <2>5 DEF StopInv, Late
  <2>7. stp \in Late => pipe.bridge /= "running"
    BY <2>2 DEF StopInv, Late
  <2>8. /\ stp \in {"no", "started", "held", "closed", "done"}
        /\ pipe \in [bridge : {"none", "made", "running", "stopped"}, ask : BOOLEAN]
    BY <2>2 DEF StopInv
  <2> QED BY <1>2, <2>1, <2>3, <2>4, <2>6, <2>7, <2>8 DEF StopInv, Swept, Late
<1>15. HeldInv'
  <2>1. ASSUME NEW p \in 1 .. n - k
        PROVE  k + p \in 1 .. n /\ rest[p] = q[k + p] /\ q[k + p] \in Conns \ H /\ p \in Int
    <3>1. k + p \in 1 .. n /\ p \in Int /\ k + p > k
      BY <1>4
    <3>2. \A r \in 1 .. k : r \in 1 .. n /\ k + p /= r
      BY <1>4, <3>1
    <3>3. q[k + p] \notin H
      BY <1>7, <1>9, <3>1, <3>2 DEF HeldInv
    <3> QED BY <1>4, <1>6, <3>1, <3>3
  <2>2. \A p \in 1 .. n - k : cn'[rest[p]].at = "held"
    <3> TAKE p \in 1 .. n - k
    <3>1. k + p \in 1 .. n /\ rest[p] = q[k + p] /\ q[k + p] \in Conns \ H
      BY <2>1
    <3>2. cn[q[k + p]].at = "held"
      BY <1>9, <3>1 DEF HeldInv
    <3>3. \A c \in Conns \ H : cn'[c].at = cn[c].at
      BY <1>11
    <3> QED BY <3>1, <3>2, <3>3
  <2>3. ASSUME NEW p \in 1 .. n - k, NEW r \in 1 .. n - k, rest[p] = rest[r]
        PROVE  p = r
    <3>1. k + p \in 1 .. n /\ k + r \in 1 .. n /\ q[k + p] = q[k + r] /\ p \in Int /\ r \in Int
      BY <2>1, <2>3
    <3>2. k + p = k + r
      BY <1>9, <3>1 DEF HeldInv
    <3> QED BY <1>4, <3>1, <3>2
  <2> QED BY <1>6, <1>12, <2>2, <2>3 DEF HeldInv
<1>16. Len(<<>>) \in Nat /\ \A p \in 1 .. Len(<<>>) : <<>>[p].k /= "accept"
          /\ (<<>>[p].k \in Calm \/ (<<>>[p].k \in Packets /\ <<>>[p].i = active))
  OBVIOUS
<1>17. PostedInv'
  <2>1. \A c \in Conns : cn[c].at = "lane" => cn'[c].at = "lane"
    BY <1>11
  <2>2. \A p \in 1 .. Len(<<>>) : <<>>[p].k /= "accept"
    OBVIOUS
  <2> QED BY <1>1, <1>16, <2>1, <2>2, PostedStays
<1>18. RouteInv'
  BY <1>0, <1>1, <1>2, <1>3, <1>16, RouteCalm
<1>19. HeldHaveRelease'
  BY <1>0, <1>1, <1>2, <1>13, ReleaseStays DEF ClientInv, Stopping
<1> QED BY <1>3, <1>11, <1>14, <1>15, <1>17, <1>18, <1>19 DEF ClientInv

\* A frame of a tunnel ends it, connects it, notes the peer's close, or does nothing.
LEMMA FrameMay ==
  ASSUME ClientInv, NEW t \in Tasks, t.k \in Packets, RouteFrame(t), pipe' = pipe
  PROVE  /\ Tokens
         /\ \E s : May(t.c, s) /\ Bridge(t.c, s) /\ Set(t.c, s) /\ s.at = cn[t.c].at
<1> DEFINE c == t.c
           r == cn[c]
           Goes(s) == May(c, s) /\ Bridge(c, s) /\ s.at = r.at
<1>0. c \in Conns
  BY DEF Tasks
<1>1. /\ Sound(KindOf(c), r) /\ r \in ConnRecord /\ StopInv /\ ConnsInv
      /\ stp \in {"closed", "done"} => Swept(r)
      /\ stp = "done" => ~r.reg
      /\ KindOf(c) = "pipe" /\ stp \in Late /\ pipe.bridge = "made"
           => r.tun /= "Connecting" /\ "Connected" \notin r.cbs
  BY <1>0, OfConn
<1>2. Told(KindOf(c), r)
  BY <1>1 DEF Sound
<1>3. Goes(r)
  BY <1>0, StayMay
<1>4. cn' = cn => Set(c, r)
  BY <1>0, <1>1 DEF Set, ConnsInv
<1>5. ASSUME r.at \notin Phases, NEW e \in Terminal
      PROVE  Goes(Ends(r, e))
  <2> DEFINE s == Ends(r, e)
  <2>1. Sound(KindOf(c), s) /\ Over(r, s)
    BY <1>2, <1>5, EndsSound
  <2> HIDE DEF s
  <2>2. Goes(s)
    BY <1>0, <1>5, <2>1, OverMay
  <2> QED BY <2>2 DEF s
<1>6. r.reg => r.at \notin Phases
  BY <1>1 DEF Sound
<1>7. CASE t.k \in {"RESUMED", "DECLINED"}
  <2> DEFINE ok == t.k = "RESUMED"
             g == t.g
  <2>1. handle_resume_ack(c, g, ok)
    BY <1>7 DEF RouteFrame
  <2> HIDE DEF c, ok, g
  <2>2. CASE g /= gen \/ ~cn[c].reg \/ token[c] = 0
    <3>1. cn' = cn /\ token' = token
      BY <2>1, <2>2 DEF handle_resume_ack
    <3> QED BY <1>1, <1>3, <1>4, <3>1, TokensStay DEF c
  <2>3. CASE ~(g /= gen \/ ~cn[c].reg \/ token[c] = 0)
    <3>1. token' = [token EXCEPT ![c] = 0] /\ (cn' = cn \/ Set(c, Ends(r, "Error")))
      BY <2>1, <2>3 DEF handle_resume_ack
    <3>2. Goes(Ends(r, "Error"))
      BY <1>5, <1>6, <2>3 DEF Terminal
    <3>3. Tokens
      BY <1>0, <1>1, <3>1, TokenSpent
    <3>4. CASE cn' = cn
      BY <1>3, <1>4, <3>3, <3>4 DEF c
    <3>5. CASE Set(c, Ends(r, "Error"))
      BY <3>2, <3>3, <3>5 DEF c
    <3> QED BY <3>1, <3>4, <3>5
  <2> QED BY <2>2, <2>3
<1>8. CASE t.k \notin {"RESUMED", "DECLINED"} /\ (~Gate(t.i) \/ ~r.reg)
  <2>1. cn' = cn /\ token' = token
    BY <1>8 DEF RouteFrame
  <2> HIDE DEF c
  <2> QED BY <1>1, <1>3, <1>4, <2>1, TokensStay DEF c
<1>9. CASE t.k \notin {"RESUMED", "DECLINED"} /\ Gate(t.i) /\ r.reg
  <2> DEFINE w == CASE t.k = "ACK" /\ r.tun = "Connecting" ->
                         [r EXCEPT !.tun = "Connected", !.cbs = @ \cup {"Connected"}]
                    [] t.k = "ERROR" -> Ends(r, "Error")
                    [] t.k = "CLOSE" /\ r.tun = "Disconnecting" -> Ends(r, "Closed")
                    [] t.k = "CLOSE" /\ r.tun = "Connected" -> [r EXCEPT !.pc = TRUE]
                    [] OTHER -> r
  <2>1. token' = token /\ Set(c, w)
    BY <1>9 DEF RouteFrame
  <2>2. \/ w = [r EXCEPT !.tun = "Connected", !.cbs = @ \cup {"Connected"}] /\ r.tun = "Connecting"
        \/ w = Ends(r, "Error") \/ w = Ends(r, "Closed") \/ w = [r EXCEPT !.pc = TRUE] \/ w = r
    BY <1>9 DEF Packets
  <2> HIDE DEF w
  <2>3. CASE w = [r EXCEPT !.tun = "Connected", !.cbs = @ \cup {"Connected"}] /\ r.tun = "Connecting"
    <3> HIDE DEF c
    <3>1. /\ w \in ConnRecord /\ w.at = r.at /\ w.tun = "Connected" /\ w.cbs = r.cbs \cup {"Connected"}
          /\ w.reg = r.reg /\ w.n = r.n /\ w.resolved = r.resolved
      BY <1>1, <2>3 DEF ConnRecord
    <3>2. "End" \notin r.cbs /\ "Close" \notin r.cbs /\ r.at \notin Phases
      BY <1>2, <2>3 DEF Told, Terminal
    <3>3. Sound(KindOf(c), w)
      BY <1>1, <1>9, <3>1, <3>2 DEF Sound, Told, Terminal
    <3>4. stp \notin {"closed", "done"}
      BY <1>1, <2>3 DEF Swept
    <3>5. May(c, w)
      BY <3>1, <3>2, <3>3, <3>4 DEF May
    <3>6. Bridge(c, w)
      BY <1>0, <1>1, <2>3, BridgeStays
    <3> QED BY <1>1, <2>1, <3>1, <3>5, <3>6, TokensStay DEF c
  <2>4. CASE w = Ends(r, "Error") \/ w = Ends(r, "Closed")
    <3>1. Goes(w)
      BY <1>5, <1>6, <1>9, <2>4 DEF Terminal
    <3> QED BY <1>1, <2>1, <3>1, TokensStay
  <2>5. CASE w = [r EXCEPT !.pc = TRUE]
    <3> HIDE DEF c
    <3>1. /\ w \in ConnRecord /\ w.at = r.at /\ w.sock = r.sock /\ w.tun = r.tun /\ w.cbs = r.cbs /\ w.reg = r.reg
          /\ w.n = r.n /\ w.resolved = r.resolved /\ w.gauge = r.gauge /\ w.reply = r.reply
      BY <1>1, <2>5 DEF ConnRecord
    <3>2. Sound(KindOf(c), w)
      BY <1>1, <3>1 DEF Sound, Told
    <3>3. May(c, w)
      BY <1>1, <3>1, <3>2 DEF May, Swept
    <3>4. Bridge(c, w)
      BY <1>0, <1>1, <3>1, BridgeStays
    <3> QED BY <1>1, <2>1, <3>1, <3>3, <3>4, TokensStay DEF c
  <2>6. CASE w = r
    BY <1>1, <1>3, <2>1, <2>6, TokensStay
  <2> QED BY <2>2, <2>3, <2>4, <2>5, <2>6
<1> QED BY <1>7, <1>8, <1>9

LEMMA RunPacketStep ==
  ASSUME ClientInv, RunPacket
  PROVE  ClientInv'
<1> DEFINE t == Head(lane)
           ts == IF Gate(t.i) /\ restores THEN <<Task("release")>> ELSE <<>>
<1>0. /\ RouteInv /\ lane /= <<>> /\ t = lane[1] /\ t \in Tasks /\ t.k \in Packets /\ lane \in Seq(Tasks) /\ Took(ts)
      /\ RouteFrame(t) /\ UNCHANGED <<held, pipe, stp>>
  <2>1. RouteInv /\ lane /= <<>> /\ t.k \in Packets /\ Took(ts) /\ RouteFrame(t) /\ UNCHANGED <<held, pipe, stp>>
    BY DEF RunPacket, Free, ClientInv
  <2> QED BY <2>1, HeadOf
<1>1. /\ ts \in Seq(Tasks) /\ (\A p \in 1 .. Len(ts) : ts[p].k /= "accept")
      /\ \A p \in 1 .. Len(ts) : ts[p].k \in Calm \/ (ts[p].k \in Packets /\ ts[p].i = active)
  <2>1. Task("release") \in Tasks /\ Task("release").k = "release"
    BY TaskTypes
  <2> QED BY <2>1 DEF Calm
<1>2. /\ UNCHANGED <<active, gen, route, handler, swap>>
      /\ \/ so' = so /\ (ka' = ka \/ ka' = [ka EXCEPT !.dead = FALSE])
         \/ so' = TRUE /\ ka' = [ka EXCEPT !.dead = FALSE] /\ Gate(t.i) /\ restores
  BY DEF RunPacket, note_peer_activity, routeVars
<1>3. Tokens /\ \E s : May(t.c, s) /\ Bridge(t.c, s) /\ Set(t.c, s) /\ s.at = cn[t.c].at
  BY <1>0, FrameMay
<1>4. PICK s : May(t.c, s) /\ Bridge(t.c, s) /\ Set(t.c, s) /\ s.at = cn[t.c].at
  BY <1>3
<1>5. Moved(1, ts) /\ Len(ts) \in Nat
  BY <1>0, <1>1, TookMoves, LenProperties
<1>6. HeldHaveRelease'
  <2>1. CASE Gate(t.i) /\ restores
    <3>1. ts = <<Task("release")>> /\ 1 \in 1 .. Len(ts) /\ ts[1] = Task("release")
      BY <2>1
    <3> HIDE DEF ts
    <3>2. Task("release") \in ToSet(lane')
      BY <1>5, <3>1, NowPosted
    <3> QED BY <3>2 DEF HeldHaveRelease, Task, ToSet
  <2>2. CASE ~(Gate(t.i) /\ restores)
    <3> HIDE DEF ts
    <3>1. lane[1].k /= "release" /\ HeldHaveRelease
      BY <1>0 DEF Packets, ClientInv
    <3> QED BY <1>0, <1>2, <1>5, <2>2, <3>1, ReleaseStays DEF Stopping
  <2> QED BY <2>1, <2>2
<1> HIDE DEF ts
<1>7. t.c \in Conns
  BY <1>0 DEF Tasks
<1> HIDE DEF t
<1>8. ConnsInv' /\ cn'[t.c] = s /\ \A d \in Conns \ {t.c} : cn'[d] = cn[d]
  BY <1>3, <1>4, <1>7, SetSound DEF ClientInv
<1>9. \A d \in Conns : cn'[d].at = cn[d].at
  BY <1>4, <1>8
<1>10. StopInv'
  BY <1>0, <1>4, <1>7, <1>8, SetStops DEF ClientInv
<1>11. HeldInv'
  BY <1>0, <1>9, HeldCalm DEF ClientInv
<1>12. PostedInv'
  BY <1>1, <1>5, <1>9, PostedStays
<1>13. RouteInv'
  <2>1. lane[1].k /= "repin" /\ gen' \in Nat
    BY <1>0, <1>2 DEF Packets, RouteInv
  <2> QED BY <1>0, <1>1, <1>2, <1>5, <2>1, RouteCalm
<1>14. ClockInv'
  BY <1>2 DEF ClientInv, ClockInv
<1> QED BY <1>6, <1>8, <1>10, <1>11, <1>12, <1>13, <1>14 DEF ClientInv

\* What is posted from outside the strand, with the connections left alone.
LEMMA PostStep ==
  ASSUME ClientInv, UNCHANGED <<cn, token, held, pipe, stp>>, UNCHANGED <<active, so, gen, route, handler, swap>>,
         NEW t \in Tasks, t.k \in Calm, t.k /= "accept", Posted(<<t>>),
         ka' \in [on : BOOLEAN, dead : BOOLEAN, tell : BOOLEAN, of : Servers], ka'.of = ka.of
  PROVE  ClientInv'
<1> DEFINE ts == <<t>>
<1>1. ts \in Seq(Tasks) /\ Posted(ts) /\ \A p \in 1 .. Len(ts) : ts[p].k \in Calm /\ ts[p].k /= "accept"
  OBVIOUS
<1> HIDE DEF ts
<1>2. Moved(0, ts) /\ lane \in Seq(Tasks)
  BY <1>1, PostedMoves DEF ClientInv, RouteInv
<1>3. /\ pipe'.bridge = pipe.bridge
      /\ pipe' \in [bridge : {"none", "made", "running", "stopped"}, ask : BOOLEAN]
  BY DEF ClientInv, StopInv
<1>4. ClockInv' /\ gen' \in Nat
  BY DEF ClientInv, ClockInv, RouteInv
<1>5. HeldHaveRelease'
  BY <1>2, ReleaseStays DEF ClientInv, Stopping
<1> QED BY <1>1, <1>2, <1>3, <1>4, <1>5, QueueStep

LEMMA PostingStep ==
  ASSUME ClientInv,
         \/ PeerDeadCallback /\ UNCHANGED connVars
         \/ HeldTimerFires
         \/ \E i \in Servers : (LinkChanges(i) \/ StandbyPong(i)) /\ UNCHANGED connVars
  PROVE  ClientInv'
<1>0. ka \in [on : BOOLEAN, dead : BOOLEAN, tell : BOOLEAN, of : Servers] /\ active \in Servers
  BY DEF ClientInv, ClockInv, RouteInv
<1>1. CASE PeerDeadCallback /\ UNCHANGED connVars
  <2> DEFINE t == About("verdict", active)
  <2>1. t \in Tasks /\ t.k = "verdict"
    BY <1>0, TaskTypes
  <2>2. /\ UNCHANGED <<cn, token, held, pipe, stp>> /\ UNCHANGED <<active, so, gen, route, handler, swap>>
        /\ Posted(<<t>>) /\ ka' = [ka EXCEPT !.tell = FALSE]
    BY <1>1 DEF PeerDeadCallback, connVars
  <2>3. ka' \in [on : BOOLEAN, dead : BOOLEAN, tell : BOOLEAN, of : Servers] /\ ka'.of = ka.of
    BY <1>0, <2>2
  <2> HIDE DEF t
  <2> QED BY <2>1, <2>2, <2>3, PostStep DEF Calm
<1>2. CASE HeldTimerFires
  <2> DEFINE t == Task("late")
  <2>1. t \in Tasks /\ t.k = "late"
    BY TaskTypes
  <2>2. /\ UNCHANGED <<cn, token, held, pipe, stp>> /\ UNCHANGED <<active, so, gen, route, handler, swap, ka>>
        /\ Posted(<<t>>)
    BY <1>2 DEF HeldTimerFires, connVars, routeVars
  <2> HIDE DEF t
  <2> QED BY <1>0, <2>1, <2>2, PostStep DEF Calm
<1>3. ASSUME NEW i \in Servers, LinkChanges(i), UNCHANGED connVars
      PROVE  ClientInv'
  <2> DEFINE g == IF up[i] THEN 0 ELSE 1
             t == [About("conn", i) EXCEPT !.g = g]
  <2>1. t \in Tasks /\ t.k = "conn"
    BY TaskTypes DEF About, Task, Tasks
  <2>2. /\ UNCHANGED <<cn, token, held, pipe, stp>> /\ UNCHANGED <<active, so, gen, route, handler, swap, ka>>
        /\ Posted(<<t>>)
    BY <1>3 DEF LinkChanges, connVars, routeVars
  <2> HIDE DEF t
  <2> QED BY <1>0, <2>1, <2>2, PostStep DEF Calm
<1>4. ASSUME NEW i \in Servers, StandbyPong(i), UNCHANGED connVars
      PROVE  ClientInv'
  <2> DEFINE t == About("alive", i)
  <2>1. t \in Tasks /\ t.k = "alive"
    BY TaskTypes
  <2>2. /\ UNCHANGED <<cn, token, held, pipe, stp>> /\ UNCHANGED <<active, so, gen, route, handler, swap, ka>>
        /\ Posted(<<t>>)
    BY <1>4 DEF StandbyPong, connVars, routeVars
  <2> HIDE DEF t
  <2> QED BY <1>0, <2>1, <2>2, PostStep DEF Calm
<1> QED BY <1>1, <1>2, <1>3, <1>4

LEMMA TickStep ==
  ASSUME ClientInv, run_failover_tick, UNCHANGED connVars
  PROVE  ClientInv'
<1> DEFINE ts == <<Task("failover")>>
<1>0. /\ UNCHANGED <<cn, token, held, pipe, stp>> /\ UNCHANGED <<active, so, gen, route, handler, swap, ka>>
      /\ Posted(ts) /\ Task("failover") \notin ToSet(lane)
  BY DEF run_failover_tick, connVars, routeVars
<1>1. ts \in Seq(Tasks) /\ Len(ts) \in Nat /\ \A p \in 1 .. Len(ts) : ts[p].k /= "accept"
  <2>1. Task("failover") \in Tasks /\ Task("failover").k = "failover"
    BY TaskTypes
  <2> QED BY <2>1
<1>2. Moved(0, ts) /\ lane \in Seq(Tasks)
  BY <1>0, <1>1, PostedMoves DEF ClientInv, RouteInv
<1>3. RouteInv'
  BY <1>0, <1>2, RouteLooks DEF ClientInv
<1> HIDE DEF ts
<1>4. PostedInv'
  BY <1>0, <1>1, <1>2, PostedStays
<1>5. /\ pipe'.bridge = pipe.bridge
      /\ pipe' \in [bridge : {"none", "made", "running", "stopped"}, ask : BOOLEAN]
  BY <1>0 DEF ClientInv, StopInv
<1>6. ClockInv'
  BY <1>0 DEF ClientInv, ClockInv
<1>7. HeldHaveRelease'
  BY <1>0, <1>2, ReleaseStays DEF ClientInv, Stopping
<1> QED BY <1>0, <1>3, <1>4, <1>5, <1>6, <1>7, ConnsStay DEF ClientInv

\* Only the endpoints' ages, or the keepalive's verdict.
LEMMA QuietStep ==
  ASSUME ClientInv, UNCHANGED connVars,
         \/ PeerSilent
         \/ \E i \in Servers : Silence(i) \/ Ages(i)
         \/ UNCHANGED <<routeVars, lane, up>>
  PROVE  ClientInv'
<1>1. /\ UNCHANGED <<cn, token, held, pipe, stp>> /\ UNCHANGED <<active, so, gen, route, handler, swap, lane>>
      /\ ka' = ka \/ ka' = [ka EXCEPT !.dead = TRUE, !.tell = TRUE]
  <2>1. UNCHANGED <<cn, token, held, pipe, stp>>
    BY DEF connVars
  <2>2. CASE PeerSilent
    BY <2>1, <2>2 DEF PeerSilent
  <2>3. ASSUME NEW i \in Servers, Silence(i) \/ Ages(i)
        PROVE  UNCHANGED <<active, so, gen, route, handler, swap, lane, ka>>
    BY <2>3 DEF Silence, Ages
  <2>4. CASE UNCHANGED <<routeVars, lane, up>>
    BY <2>1, <2>4 DEF routeVars
  <2> QED BY <2>1, <2>2, <2>3, <2>4
<1>2. ConnsInv'
  BY <1>1 DEF ClientInv, ConnsInv
<1>3. StopInv'
  BY <1>1 DEF ClientInv, StopInv
<1>4. PostedInv'
  BY <1>1 DEF ClientInv, PostedInv, Is
<1>5. HeldInv'
  BY <1>1 DEF ClientInv, HeldInv
<1>6. RouteInv'
  BY <1>1 DEF ClientInv, RouteInv, Is
<1>7. ClockInv'
  BY <1>1 DEF ClientInv, ClockInv
<1>8. HeldHaveRelease'
  BY <1>1 DEF ClientInv, HeldHaveRelease, Stopping, Task, ToSet
<1> QED BY <1>2, <1>3, <1>4, <1>5, <1>6, <1>7, <1>8 DEF ClientInv

LEMMA ArriveStep ==
  ASSUME ClientInv, NEW c \in Conns, Arrives(c)
  PROVE  ClientInv'
<1>0. /\ cn[c].at = "new" /\ UNCHANGED <<routeVars, held, stp>> /\ token' = token /\ pipe' = pipe
      /\ cn[c].at \in Phases /\ cn[c].at \notin {"lane", "held"}
  BY DEF Arrives, Phases
<1>1. CASE KindOf(c) /= "forward"
  <2> DEFINE s == [cn[c] EXCEPT !.at = "todo"]
  <2>1. Set(c, s) /\ lane' = lane
    BY <1>1 DEF Arrives
  <2>2. May(c, s) /\ s.tun = "None" /\ s.cbs = {}
    BY <1>0, ReadMay
  <2> HIDE DEF s
  <2>3. Bridge(c, s)
    BY <1>0, <2>2, BridgeStays, OfConn
  <2> QED BY <1>0, <2>1, <2>2, <2>3, LocalStep, TokensStay, OfConn
<1>2. CASE KindOf(c) = "forward"
  <2> DEFINE s == [cn[c] EXCEPT !.at = "lane"]
             t == [Task("accept") EXCEPT !.c = c]
             ts == <<t>>
  <2>1. Set(c, s) /\ Posted(ts)
    BY <1>2 DEF Arrives
  <2>2. May(c, s) /\ s.tun = "None" /\ s.cbs = {} /\ s.at = "lane"
    BY <1>0, ReadMay, OfConn DEF ConnRecord
  <2>3. t \in Tasks /\ t.k = "accept" /\ t.c = c
    BY ServerAssumption DEF Task, Tasks, TaskKinds, Packets
  <2> HIDE DEF s, t
  <2>4. Bridge(c, s)
    BY <1>0, <2>2, BridgeStays, OfConn
  <2>5. ConnsInv' /\ cn'[c] = s /\ \A d \in Conns \ {c} : cn'[d] = cn[d]
    BY <1>0, <2>1, <2>2, SetSound, TokensStay DEF ClientInv
  <2>6. StopInv'
    BY <1>0, <2>2, <2>4, <2>5, SetStops DEF ClientInv
  <2>7. ts \in Seq(Tasks) /\ Len(ts) \in Nat
        /\ \A p \in 1 .. Len(ts) : ts[p].k \in Calm \/ (ts[p].k \in Packets /\ ts[p].i = active)
    BY <2>3 DEF Calm
  <2>8. Moved(0, ts) /\ lane \in Seq(Tasks)
    BY <2>1, <2>7, PostedMoves DEF ClientInv, RouteInv
  <2>9. PostedInv'
    BY <1>0, <2>2, <2>3, <2>5, <2>8, PostedArrives DEF ClientInv
  <2> HIDE DEF ts
  <2>10. HeldInv'
    BY <1>0, <2>5, HeldCalm DEF ClientInv
  <2>11. UNCHANGED <<active, so, gen, route, handler, ka, swap>> /\ gen' \in Nat
    BY <1>0 DEF routeVars, ClientInv, RouteInv
  <2>12. RouteInv'
    BY <2>7, <2>8, <2>11, RouteCalm DEF ClientInv
  <2>13. ClockInv'
    BY <2>11 DEF ClientInv, ClockInv
  <2>14. HeldHaveRelease'
    BY <1>0, <2>8, <2>11, ReleaseStays DEF ClientInv, Stopping
  <2> QED BY <2>5, <2>6, <2>9, <2>10, <2>12, <2>13, <2>14 DEF ClientInv
<1> QED BY <1>1, <1>2

LEMMA ServerStep ==
  ASSUME ClientInv, NEW c \in Conns, NEW k \in Packets, ServerSends(k, c)
  PROVE  ClientInv'
<1> DEFINE b == k \notin {"ERROR", "DECLINED"}
           s == [cn[c] EXCEPT !.known = b]
           i == cn[c].srv
           t == [k |-> k, i |-> i, c |-> c, g |-> gen]
           ts == <<t>>
<1>0. /\ UNCHANGED <<routeVars, held, stp>> /\ token' = token /\ pipe' = pipe
      /\ Set(c, s) /\ (IF i = active THEN Posted(ts) ELSE lane' = lane)
  BY DEF ServerSends, Set
<1>1. b \in BOOLEAN
  OBVIOUS
<1> HIDE DEF b
<1>2. May(c, s) /\ Bridge(c, s) /\ s.at = cn[c].at
  BY <1>0, <1>1, KnownMay
<1> HIDE DEF s
<1>3. CASE i /= active
  BY <1>0, <1>2, <1>3, LocalStep, TokensStay, OfConn
<1>4. CASE i = active
  <2>1. ConnsInv' /\ cn'[c] = s /\ \A d \in Conns \ {c} : cn'[d] = cn[d]
    BY <1>0, <1>2, SetSound, TokensStay DEF ClientInv
  <2>2. StopInv'
    BY <1>0, <1>2, <2>1, SetStops DEF ClientInv
  <2>3. t \in Tasks /\ t.k \in Packets /\ t.i = active
    <3>1. active \in Servers /\ gen \in Nat
      BY DEF ClientInv, RouteInv
    <3> QED BY <1>4, <3>1 DEF Tasks, TaskKinds, Packets
  <2> HIDE DEF t
  <2>4. ts \in Seq(Tasks) /\ Len(ts) \in Nat /\ (\A p \in 1 .. Len(ts) : ts[p].k /= "accept")
        /\ \A p \in 1 .. Len(ts) : ts[p].k \in Calm \/ (ts[p].k \in Packets /\ ts[p].i = active)
    BY <2>3 DEF Packets
  <2>5. Moved(0, ts) /\ lane \in Seq(Tasks)
    BY <1>0, <1>4, <2>4, PostedMoves DEF ClientInv, RouteInv
  <2> HIDE DEF ts
  <2>6. \A d \in Conns : cn'[d].at = cn[d].at
    BY <1>2, <2>1
  <2>7. PostedInv'
    BY <2>4, <2>5, <2>6, PostedStays
  <2>8. HeldInv'
    BY <1>0, <2>6, HeldCalm DEF ClientInv
  <2>9. UNCHANGED <<active, so, gen, route, handler, ka, swap>> /\ gen' \in Nat
    BY <1>0 DEF routeVars, ClientInv, RouteInv
  <2>10. RouteInv'
    BY <2>4, <2>5, <2>9, RouteCalm DEF ClientInv
  <2>11. ClockInv'
    BY <2>9 DEF ClientInv, ClockInv
  <2>12. HeldHaveRelease'
    BY <1>0, <2>5, <2>9, ReleaseStays DEF ClientInv, Stopping
  <2> QED BY <2>1, <2>2, <2>7, <2>8, <2>10, <2>11, <2>12 DEF ClientInv
<1> QED BY <1>3, <1>4

----------------------------------------------------------------------------
(* stop(). *)

\* What stop() leaves alone while it closes connections.
LEMMA StopLeaves ==
  ASSUME ClientInv, UNCHANGED <<routeVars, lane>>, stp' /= "no",
         \A c \in Conns : cn[c].at = "lane" => cn'[c].at = "lane"
  PROVE  PostedInv' /\ RouteInv' /\ ClockInv' /\ HeldHaveRelease'
<1>1. PostedInv'
  <2>1. lane \in Seq(Tasks)
    BY DEF ClientInv, RouteInv
  <2>2. \A p \in 1 .. Len(lane) : lane[p].k = "accept" => lane[p].c \in Conns
    BY <2>1, ElementOfSeq DEF Tasks
  <2> QED BY <2>2 DEF ClientInv, PostedInv, Is
<1>2. RouteInv' /\ ClockInv'
  BY DEF ClientInv, RouteInv, ClockInv, routeVars, Is
<1>3. HeldHaveRelease'
  BY DEF HeldHaveRelease, Stopping
<1> QED BY <1>1, <1>2, <1>3

LEMMA StopStep ==
  ASSUME ClientInv, StopStarts \/ close_held_connections \/ StopClosesTunnels \/ StopIo
  PROVE  ClientInv'
<1>0. /\ ConnsInv /\ StopInv /\ HeldInv
      /\ pipe \in [bridge : {"none", "made", "running", "stopped"}, ask : BOOLEAN]
  BY DEF ClientInv, StopInv
<1>1. CASE StopStarts
  <2>1. /\ stp = "no" /\ stp' = "started" /\ token' = [c \in Conns |-> 0]
        /\ UNCHANGED <<routeVars, lane>> /\ UNCHANGED <<cn, held, pipe>>
    BY <1>1 DEF StopStarts
  <2>2. ConnsInv'
    BY <1>0, <2>1 DEF ConnsInv
  <2>3. StopInv' /\ HeldInv'
    BY <1>0, <2>1, HeldCalm DEF StopInv
  <2> QED BY <2>1, <2>2, <2>3, StopLeaves DEF ClientInv
<1>2. CASE close_held_connections
  <2> DEFINE H == ToSet(held.q)
  <2>1. /\ stp = "started" /\ stp' = "held"
        /\ cn' = [c \in Conns |-> IF c \in H THEN Shut(c, cn[c]) ELSE cn[c]]
        /\ held' = [q |-> <<>>, armed |-> FALSE, shut |-> TRUE]
        /\ pipe' = [pipe EXCEPT !.bridge = IF @ = "none" THEN @ ELSE "stopped"]
        /\ UNCHANGED <<routeVars, lane>> /\ token' = token
    BY <1>2 DEF close_held_connections
  <2>2. H \subseteq Conns /\ \A c \in H : cn[c].at = "held"
    BY <1>0, HeldSet
  <2> HIDE DEF H
  <2>3. Leave(H)
    BY <2>1, <2>2 DEF Leave
  <2>4. ConnsInv' /\ \A c \in Conns : cn[c].at = "lane" => cn'[c].at = "lane"
    BY <2>1, <2>3, HeldLeave
  <2>5. pipe' \in [bridge : {"none", "stopped"}, ask : BOOLEAN]
    BY <1>0, <2>1
  <2>6. StopInv'
    BY <2>1, <2>5 DEF StopInv
  <2>7. HeldInv'
    BY <2>1 DEF HeldInv
  <2> QED BY <2>1, <2>4, <2>6, <2>7, StopLeaves DEF ClientInv
<1>3. CASE StopClosesTunnels
  <2>1. /\ stp = "held" /\ stp' = "closed" /\ close_all("Graceful")
        /\ UNCHANGED <<routeVars, lane>> /\ UNCHANGED <<held, token, pipe>>
    BY <1>3 DEF StopClosesTunnels
  <2>2. /\ ConnsInv'
        /\ \A c \in Conns : /\ ~cn'[c].reg /\ cn'[c].at = cn[c].at
                            /\ cn'[c].tun \notin {"Connecting", "Connected"}
                            /\ "Connected" \in cn'[c].cbs => "Connected" \in cn[c].cbs
    BY <1>0, <2>1, CloseAllSound
  <2>3. StopInv'
    BY <1>0, <2>1, <2>2 DEF StopInv, Swept
  <2>4. HeldInv'
    BY <1>0, <2>1, <2>2, HeldCalm
  <2> QED BY <2>1, <2>2, <2>3, <2>4, StopLeaves DEF ClientInv
<1>4. CASE StopIo
  <2>1. /\ stp = "closed" /\ stp' = "done" /\ UNCHANGED <<routeVars, lane>> /\ UNCHANGED <<cn, held, token, pipe>>
        /\ \A c \in Conns : cn[c].at \notin {"read", "added"}
    BY <1>4 DEF StopIo
  <2>2. ConnsInv' /\ HeldInv'
    BY <1>0, <2>1, HeldCalm DEF ConnsInv
  <2>3. StopInv'
    BY <1>0, <2>1 DEF StopInv, Swept
  <2> QED BY <2>1, <2>2, <2>3, StopLeaves DEF ClientInv
<1> QED BY <1>1, <1>2, <1>3, <1>4

----------------------------------------------------------------------------
(* The specification. *)

LEMMA InitHolds ==
  ASSUME Init
  PROVE  ClientInv
<1>0. 0 \in Servers
  BY ServerAssumption
<1>1. Fresh \in ConnRecord /\ \A c \in Conns : Sound(KindOf(c), Fresh)
  BY <1>0 DEF Fresh, ConnRecord, Sound, Told, Phases, Terminal
<1>2. ConnsInv
  BY <1>1 DEF Init, ConnectionsInit, ConnsInv
<1>3. StopInv
  BY DEF Init, ConnectionsInit, StopInv
<1>4. PostedInv
  BY DEF Init, FailoverInit, PostedInv
<1>5. HeldInv
  BY DEF Init, ConnectionsInit, HeldInv
<1>6. RouteInv
  BY <1>0 DEF Init, FailoverInit, RouteInv, Is
<1>7. ClockInv
  BY <1>0 DEF Init, FailoverInit, ClockInv
<1>8. HeldHaveRelease
  BY DEF Init, ConnectionsInit, HeldHaveRelease
<1> QED BY <1>2, <1>3, <1>4, <1>5, <1>6, <1>7, <1>8 DEF ClientInv

LEMMA StrandStep ==
  ASSUME ClientInv, Strand
  PROVE  ClientInv'
<1>1. CASE RunConnection
  BY <1>1, RunConnectionStep
<1>2. CASE RunVerdict
  BY <1>2, RunVerdictStep
<1>3. CASE RunFailover
  BY <1>3, RunFailoverStep
<1>4. CASE SwitchCloses
  BY <1>4, SwitchClosesStep
<1>5. CASE RunOther
  BY <1>5, RunRepinStep, RunAliveStep, RunResumeStep, RunAcceptStep, RunReleaseStep DEF RunOther
<1>6. CASE RunPacket
  BY <1>6, RunPacketStep
<1>7. ASSUME NEW k \in 0 .. Len(held.q), RunLate(k)
      PROVE  ClientInv'
  BY <1>7, RunLateStep
<1> QED BY <1>1, <1>2, <1>3, <1>4, <1>5, <1>6, <1>7 DEF Strand

LEMMA ThreadsStep ==
  ASSUME ClientInv, Threads
  PROVE  ClientInv'
<1>1. ASSUME NEW c \in Conns, \/ OpenReads(c) \/ SocksReads(c) \/ PipeReads(c)
                              \/ OpenRegisters(c, TRUE) \/ OpenSends(c)
                              \/ ConnectedCallback(c) \/ PipeConnected(c) \/ EndCallback(c) \/ CloseCallback(c)
      PROVE  ClientInv'
  BY <1>1, ReadStep, RegisterStep, SendStep, ConnectedStep, PipeStep, EndStep, CloseStep
<1>2. CASE PeerDeadCallback /\ Io /\ UNCHANGED connVars
  BY <1>2, PostingStep
<1>3. CASE close_held_connections \/ StopClosesTunnels \/ StopIo \/ MainStops
  BY <1>3, StopStep DEF MainStops
<1> QED BY <1>1, <1>2, <1>3 DEF Threads

LEMMA TimersStep ==
  ASSUME ClientInv, Timers
  PROVE  ClientInv'
<1>1. CASE HeldTimerFires
  BY <1>1, PostingStep
<1>2. CASE run_failover_tick /\ Io /\ UNCHANGED connVars
  BY <1>2, TickStep
<1>3. ASSUME NEW c \in Conns, OpenTimesOut(c) \/ on_resume_deadline(c)
      PROVE  ClientInv'
  BY <1>3, TimeoutStep, DeadlineStep
<1> QED BY <1>1, <1>2, <1>3 DEF Timers

LEMMA OutsideStep ==
  ASSUME ClientInv, Outside
  PROVE  ClientInv'
<1>1. CASE StopStarts
  BY <1>1, StopStep
<1>2. ASSUME NEW c \in Conns, Arrives(c) \/ OpenRegisters(c, FALSE) \/ ServerForgets(c)
      PROVE  ClientInv'
  BY <1>2, ArriveStep, RegisterStep, ForgetStep
<1>3. ASSUME NEW c \in Conns, NEW b \in BOOLEAN, end_tunnel_for_local_disconnect(c, b)
      PROVE  ClientInv'
  BY <1>3, DisconnectStep
<1>4. ASSUME NEW c \in Conns, NEW k \in Packets, ServerSends(k, c)
      PROVE  ClientInv'
  BY <1>4, ServerStep
<1>5. ASSUME UNCHANGED connVars, PeerSilent \/ \E i \in Servers : Silence(i)
      PROVE  ClientInv'
  BY <1>5, QuietStep
<1>6. ASSUME NEW i \in Servers, LinkChanges(i) \/ StandbyPong(i), UNCHANGED connVars
      PROVE  ClientInv'
  BY <1>6, PostingStep
<1> QED BY <1>1, <1>2, <1>3, <1>4, <1>5, <1>6 DEF Outside

LEMMA NextHolds ==
  ASSUME ClientInv, [Next]_vars
  PROVE  ClientInv'
<1>1. CASE Strand \/ Threads \/ Timers \/ Outside
  BY <1>1, StrandStep, ThreadsStep, TimersStep, OutsideStep
<1>2. CASE Clock
  BY <1>2, QuietStep DEF Clock
<1>3. CASE UNCHANGED vars
  <2>1. UNCHANGED connVars /\ UNCHANGED <<routeVars, lane, up>>
    BY <1>3 DEF vars
  <2> QED BY <2>1, QuietStep
<1> QED BY <1>1, <1>2, <1>3 DEF Next

\* Every connection's record tells the truth, each accepted connection waits in
\* one place, the strand's queue is ordered across a switch, and what stop() has
\* swept stays swept, in every state of the client.
THEOREM ClientInvariant == Spec => []ClientInv
<1>1. Init => ClientInv
  BY InitHolds
<1>2. ClientInv /\ [Next]_vars => ClientInv'
  BY NextHolds
<1> QED BY <1>1, <1>2, PTL DEF Spec

LEMMA InvAccounts ==
  ASSUME ClientInv
  PROVE  Accounts
<1>1. HeldHaveRelease
  BY DEF ClientInv
<1>2. BooksBalance
  <2>1. ASSUME NEW c \in Conns
        PROVE  /\ cn[c].n <= 1
               /\ cn[c].tun \in Terminal /\ cn[c].cbs = {} /\ KindOf(c) /= "pipe"
                    => cn[c].n = 1 /\ ~cn[c].gauge /\ cn[c].sock = "shut"
                       /\ (KindOf(c) = "socks" => cn[c].reply = 1)
    <3>1. Told(KindOf(c), cn[c])
      BY OfConn DEF Sound
    <3> QED BY <3>1 DEF Told
  <2> QED BY <2>1 DEF BooksBalance
<1>3. NothingSurvivesStop
  BY DEF ClientInv, StopInv, Swept, NothingSurvivesStop
<1> QED BY <1>1, <1>2, <1>3 DEF Accounts

\* Accounts of the client run: no accepted connection waits for a release that
\* has run, an OPEN is booked and a SOCKS client answered once in whatever order
\* a tunnel's callbacks run, and stop() leaves no tunnel, held connection or
\* bridge behind.
THEOREM AccountsHold == Spec => []Accounts
<1>1. ClientInv => Accounts
  BY InvAccounts
<1> QED BY <1>1, ClientInvariant, PTL

\* Only a verdict that stands takes the server down.
LEMMA VerdictStands ==
  ASSUME ClientInv, [Next]_vars, lane /= <<>>, Head(lane).k = "verdict", so, ~so'
  PROVE  Head(lane).i = active /\ ka.dead /\ ka.of = active
<1>1. RunVerdict
  <2>1. CASE Strand
    <3>1. ~RunConnection /\ ~RunPacket
      BY DEF RunConnection, Running, RunPacket, Packets
    <3>2. ~RunFailover
      BY DEF RunFailover, Running
    <3>3. SwitchCloses => so' = so
      BY DEF SwitchCloses
    <3>4. RunOther => so' = so
      BY DEF RunOther, Repin, note_standby_alive, routeVars
    <3>5. \A k \in 0 .. Len(held.q) : RunLate(k) => so' = so
      BY DEF RunLate, routeVars
    <3> QED BY <2>1, <3>1, <3>2, <3>3, <3>4, <3>5 DEF Strand
  <2>2. Threads => so' = so
    BY DEF Threads, OpenReads, SocksReads, PipeReads, OpenRegisters, OpenSends, ConnectedCallback, PipeConnected,
           EndCallback, CloseCallback, PeerDeadCallback, close_held_connections, StopClosesTunnels, StopIo,
           MainStops, StopStarts, routeVars
  <2>3. Timers => so' = so
    BY DEF Timers, HeldTimerFires, run_failover_tick, OpenTimesOut, on_resume_deadline, routeVars
  <2>4. Outside => so' = so
    BY DEF Outside, StopStarts, Arrives, OpenRegisters, end_tunnel_for_local_disconnect, ServerSends,
           ServerForgets, PeerSilent, LinkChanges, StandbyPong, Silence, routeVars
  <2>5. Clock => so' = so
    BY DEF Clock, Ages
  <2>6. UNCHANGED vars => so' = so
    BY DEF vars, routeVars
  <2> QED BY <2>1, <2>2, <2>3, <2>4, <2>5, <2>6 DEF Next
<1>2. verdict_stands(Head(lane).i) /\ ~swap
  BY <1>1 DEF RunVerdict, routeVars, Running, Free
<1> QED BY <1>2 DEF verdict_stands, ClientInv, ClockInv

\* The gate opens to the server the manager answers to, and shuts out only one
\* that was switched away from.
LEMMA GateHolds ==
  ASSUME ClientInv, lane /= <<>>, Head(lane).k \in Packets
  PROVE  IF Gate(Head(lane).i) THEN handler = Head(lane).i ELSE Head(lane).i /= active
<1>1. RouteInv /\ Head(lane) = lane[1] /\ 1 \in 1 .. Len(lane) /\ lane \in Seq(Tasks)
  BY HeadOf DEF ClientInv
<1>2. handler = route
  BY <1>1 DEF RouteInv
<1>3. ASSUME lane[1].i = active
      PROVE  route = active
  <2>1. \A r \in 1 .. Len(lane) : lane[r].k = "repin" => r < 1
    BY <1>1, <1>3 DEF RouteInv, Is
  <2>2. \A r \in 1 .. Len(lane) : lane[r].k /= "repin"
    BY <1>1, <2>1, LenProperties
  <2> QED BY <1>1, <2>2 DEF RouteInv, Is
<1> QED BY <1>1, <1>2, <1>3 DEF Gate

\* RoutesAgree of the client run: a frame is routed only while the manager
\* answers to the server it came from, none of the current server is dropped
\* across a switch, and a dead verdict takes down only the server it judged.
THEOREM RoutesAgreeHolds == Spec => RoutesAgree
<1> DEFINE A == \A c \in Conns : lane /= <<>> /\ Head(lane).c = c /\ Head(lane).k \in {"ACK", "ERROR", "CLOSE"}
                  /\ lane' = Tail(lane)
                  => IF Gate(Head(lane).i) THEN handler = Head(lane).i ELSE Head(lane).i /= active
           B == lane /= <<>> /\ Head(lane).k = "verdict" /\ so /\ ~so'
                  => Head(lane).i = active /\ ka.dead /\ ka.of = active
<1>1. ClientInv /\ [Next]_vars => A
  BY GateHolds DEF Packets
<1>2. ClientInv /\ [Next]_vars => B
  BY VerdictStands
<1>3. Spec => [][A]_vars
  BY <1>1, ClientInvariant, PTL DEF Spec
<1>4. Spec => [][B]_vars
  BY <1>2, ClientInvariant, PTL DEF Spec
<1> QED BY <1>3, <1>4 DEF RoutesAgree, GateConsistent, VerdictHitsJudged
=============================================================================
