---------------------------- MODULE SocketProofs ----------------------------
(***************************************************************************)
(* LocalSockets for any connections, kinds, limits and scenarios: what a   *)
(* connection tells of its end, and what the listener counts.              *)
(*                                                                         *)
(* A step either leaves the fields of the end alone (Goes), queues a       *)
(* handler (Posts) or closes the socket (Shuts), which queues one aborted  *)
(* handler for every pending operation; each preserves EndInv.             *)
(***************************************************************************)
EXTENDS LocalSockets, SequenceTheorems, FiniteSetTheorems, TLAPS

----------------------------------------------------------------------------
(* Types. *)

Operations == {"w", "r", "wait", "c"}
TaskKinds == {"write", "shut", "close", "force", "abort", "start", "doread", "watch", "unwatch",
              "wdone", "wfail", "wabort", "rdone", "reof", "rfail", "rabort", "ready", "waitabort",
              "cdone", "cfail"}
Tasks == {t \in [k : TaskKinds, b : Seq(Int)] : t.k = "write" => Len(t.b) = 1}
SockRecord ==
  [st : {"Disconnected", "Connecting", "Connected", "Disconnecting"},
   run : Seq(Tasks), ops : SUBSET Operations, fault : BOOLEAN,
   q : Seq(Int), fly : Seq(Int), bytes : Int, writing : BOOLEAN, req : BOOLEAN, done : BOOLEAN,
   rfly : BOOLEAN, rclosed : BOOLEAN, paused : BOOLEAN,
   watch : BOOLEAN, wfly : BOOLEAN, hold : Seq(Int), pend : BOOLEAN,
   fed : Seq(Int), eof : Nat, ends : Nat, told : Nat,
   inb : Seq(Int), pfin : {"no", "fin", "rst"}, sentIn : Seq(Int),
   out : Seq(Int), fin : {"no", "fin", "rst"}, sent : Nat, due : Int]

LEMMA Empty == <<>> \in Seq(Int) /\ {} \in SUBSET Operations
OBVIOUS

LEMMA TaskType == \A k \in TaskKinds \ {"write"} : T(k) \in Tasks /\ T(k).k = k
BY DEF T, Tasks

\* What the closing of the socket puts on the strand: one handler for each pending
\* operation.
LEMMA AbortedType ==
  ASSUME NEW s, s.ops \in SUBSET Operations
  PROVE  /\ Aborted(s) \in Seq(Tasks)
         /\ \A i \in 1 .. Len(Aborted(s)) : \E o \in s.ops : Aborted(s)[i] = T(AbortOf[o])
         /\ \A i, j \in 1 .. Len(Aborted(s)) : Aborted(s)[i] = Aborted(s)[j] => i = j
<1> DEFINE S == {T(AbortOf[o]) : o \in s.ops}
           n == Cardinality(S)
           f == Aborted(s)
<1>1. IsFiniteSet(S)
  <2>1. S \subseteq {T("wabort"), T("rabort"), T("waitabort"), T("cfail")}
    BY DEF AbortOf, Operations
  <2>2. IsFiniteSet({T("wabort"), T("rabort"), T("waitabort"), T("cfail")})
    <3>1. IsFiniteSet({} \cup {T("wabort")})
      BY FS_EmptySet, FS_AddElement, Zenon
    <3>2. IsFiniteSet(({} \cup {T("wabort")}) \cup {T("rabort")})
      BY <3>1, FS_AddElement, Zenon
    <3>3. IsFiniteSet((({} \cup {T("wabort")}) \cup {T("rabort")}) \cup {T("waitabort")})
      BY <3>2, FS_AddElement, Zenon
    <3>4. IsFiniteSet(((({} \cup {T("wabort")}) \cup {T("rabort")}) \cup {T("waitabort")}) \cup {T("cfail")})
      BY <3>3, FS_AddElement, Zenon
    <3>5. ((({} \cup {T("wabort")}) \cup {T("rabort")}) \cup {T("waitabort")}) \cup {T("cfail")}
            = {T("wabort"), T("rabort"), T("waitabort"), T("cfail")}
      OBVIOUS
    <3> QED BY <3>4, <3>5
  <2> QED BY <2>1, <2>2, FS_Subset, Zenon
<1>2. S \subseteq Tasks
  BY TaskType DEF AbortOf, Operations, TaskKinds
<1>3. f = SetToSeq(S)
  BY DEF Aborted
<1> HIDE DEF f
<1> DEFINE D == 1 .. n
<1>4. n \in Nat /\ ExistsBijection(D, S)
  BY <1>1, FS_CardinalityType, Zenon
<1>5. \E g \in [D -> S] : IsInjective(g) /\ \A y \in S : \E i \in D : g[i] = y
  BY <1>4 DEF ExistsBijection, Bijection, Injection, Surjection, IsInjective
<1>6. f \in [D -> S] /\ IsInjective(f)
  BY <1>3, <1>5 DEF SetToSeq
<1> HIDE DEF S, n
<1>7. f \in Seq(Tasks) /\ Len(f) = n
  BY <1>2, <1>4, <1>6
<1>8. \A i \in D : \E o \in s.ops : f[i] = T(AbortOf[o])
  BY <1>6 DEF S
<1>9. \A i, j \in D : f[i] = f[j] => i = j
  BY <1>6 DEF IsInjective
<1> QED BY <1>7, <1>8, <1>9 DEF f

----------------------------------------------------------------------------
(* An operation is pending, or its handler is on the strand, never both. *)

Once(run, ops, o, K) ==
  /\ \A i, j \in 1 .. Len(run) : run[i].k \in K /\ run[j].k \in K => i = j
  /\ o \in ops => \A i \in 1 .. Len(run) : run[i].k \notin K
None(run, K) == \A i \in 1 .. Len(run) : run[i].k \notin K

LEMMA TaskOfAppend ==
  ASSUME NEW run \in Seq(Tasks), NEW t \in Tasks
  PROVE  /\ Append(run, t) \in Seq(Tasks) /\ Len(Append(run, t)) = Len(run) + 1 /\ Len(run) \in Nat
         /\ \A i \in 1 .. Len(Append(run, t)) :
              \/ i \in 1 .. Len(run) /\ Append(run, t)[i] = run[i]
              \/ i = Len(run) + 1 /\ Append(run, t)[i] = t
<1>1. /\ Append(run, t) \in Seq(Tasks) /\ Len(Append(run, t)) = Len(run) + 1 /\ Len(run) \in Nat
      /\ \A i \in 1 .. Len(run) : Append(run, t)[i] = run[i]
      /\ Append(run, t)[Len(run) + 1] = t
  BY AppendProperties, LenProperties
<1> DEFINE n == Len(run)
           u == Append(run, t)
<1>2. n \in Nat /\ Len(u) = n + 1 /\ (\A i \in 1 .. n : u[i] = run[i]) /\ u[n + 1] = t
  BY <1>1
<1> HIDE DEF n, u
<1>3. \A i \in 1 .. Len(u) : (i \in 1 .. n /\ u[i] = run[i]) \/ (i = n + 1 /\ u[i] = t)
  BY <1>2
<1> QED BY <1>1, <1>3 DEF n, u

LEMMA TaskOfTail ==
  ASSUME NEW run \in Seq(Tasks), run # <<>>
  PROVE  /\ Tail(run) \in Seq(Tasks) /\ Head(run) \in Tasks /\ Head(run) = run[1]
         /\ 1 \in 1 .. Len(run) /\ Len(Tail(run)) = Len(run) - 1 /\ Len(run) \in Nat
         /\ \A i \in 1 .. Len(Tail(run)) : i + 1 \in 1 .. Len(run) /\ Tail(run)[i] = run[i + 1]
<1>1. /\ Tail(run) \in Seq(Tasks) /\ Head(run) \in Tasks /\ Len(Tail(run)) = Len(run) - 1
      /\ \A i \in 1 .. Len(Tail(run)) : Tail(run)[i] = run[i + 1]
  BY HeadTailProperties
<1>2. Len(run) \in Nat /\ Len(run) # 0 /\ Head(run) = run[1]
  BY EmptySeq, LenProperties
<1> DEFINE n == Len(run)
           u == Tail(run)
           m == Len(u)
<1>3. n \in Nat /\ n # 0 /\ m = n - 1
  BY <1>1, <1>2
<1> HIDE DEF n, u, m
<1>4. 1 \in 1 .. n /\ \A i \in 1 .. m : i + 1 \in 1 .. n
  BY <1>3
<1> QED BY <1>1, <1>2, <1>4 DEF n, u, m

LEMMA TaskOfConcat ==
  ASSUME NEW run \in Seq(Tasks), NEW add \in Seq(Tasks)
  PROVE  /\ run \o add \in Seq(Tasks)
         /\ \A i \in 1 .. Len(run \o add) :
              \/ i \in 1 .. Len(run) /\ (run \o add)[i] = run[i]
              \/ \E j \in 1 .. Len(add) : i = Len(run) + j /\ (run \o add)[i] = add[j]
<1>1. /\ run \o add \in Seq(Tasks) /\ Len(run \o add) = Len(run) + Len(add)
      /\ \A i \in 1 .. Len(run) + Len(add) : (run \o add)[i] =
           IF i <= Len(run) THEN run[i] ELSE add[i - Len(run)]
  BY ConcatProperties
<1>2. Len(run) \in Nat /\ Len(add) \in Nat
  BY LenProperties
<1> DEFINE n == Len(run)
           m == Len(add)
           u == run \o add
<1>3. n \in Nat /\ m \in Nat /\ Len(u) = n + m
      /\ \A i \in 1 .. n + m : u[i] = IF i <= n THEN run[i] ELSE add[i - n]
  BY <1>1, <1>2
<1> HIDE DEF n, m, u
<1>4. \A i \in 1 .. n + m : (i <= n => i \in 1 .. n) /\ (~(i <= n) => i - n \in 1 .. m /\ i = n + (i - n))
  BY <1>3
<1>5. \A i \in 1 .. Len(u) :
        \/ i \in 1 .. n /\ u[i] = run[i]
        \/ \E j \in 1 .. m : i = n + j /\ u[i] = add[j]
  BY <1>3, <1>4
<1> QED BY <1>1, <1>5 DEF n, m, u

LEMMA OnceAppend ==
  ASSUME NEW run \in Seq(Tasks), NEW t \in Tasks, NEW ops, NEW opsN, NEW o, NEW K,
         Once(run, ops, o, K), t.k \notin K, o \in opsN => o \in ops
  PROVE  Once(Append(run, t), opsN, o, K)
BY TaskOfAppend DEF Once

\* The kernel completes it.
LEMMA OnceDone ==
  ASSUME NEW run \in Seq(Tasks), NEW t \in Tasks, NEW ops, NEW opsN, NEW o, NEW K,
         Once(run, ops, o, K), o \in ops, o \notin opsN
  PROVE  Once(Append(run, t), opsN, o, K)
BY TaskOfAppend DEF Once

LEMMA OnceTail ==
  ASSUME NEW run \in Seq(Tasks), run # <<>>, NEW ops, NEW o, NEW K, Once(run, ops, o, K)
  PROVE  /\ Once(Tail(run), ops, o, K)
         /\ Head(run).k \in K => None(Tail(run), K) /\ o \notin ops
<1>1. /\ Head(run) = run[1] /\ 1 \in 1 .. Len(run)
      /\ \A i \in 1 .. Len(Tail(run)) : i + 1 \in 1 .. Len(run) /\ Tail(run)[i] = run[i + 1]
  BY TaskOfTail
<1>2. \A i, j \in 1 .. Len(Tail(run)) : (i + 1 = j + 1 => i = j) /\ i + 1 # 1
  OBVIOUS
<1>3. Once(Tail(run), ops, o, K)
  BY <1>1, <1>2 DEF Once
<1>4. ASSUME Head(run).k \in K PROVE None(Tail(run), K) /\ o \notin ops
  BY <1>1, <1>2, <1>4 DEF Once, None
<1> QED BY <1>3, <1>4

\* The socket is closed: every pending operation gets its handler.
LEMMA OnceClosed ==
  ASSUME NEW s, s.run \in Seq(Tasks), s.ops \in SUBSET Operations, NEW o \in Operations, NEW K,
         Once(s.run, s.ops, o, K), \A p \in Operations : AbortOf[p] \in K => p = o
  PROVE  /\ Once(s.run \o Aborted(s), {}, o, K)
         /\ None(s.run, K) /\ o \notin s.ops => None(s.run \o Aborted(s), K)
<1> DEFINE run == s.run
           add == Aborted(s)
           u == run \o add
<1>1. /\ add \in Seq(Tasks)
      /\ \A i \in 1 .. Len(add) : \E p \in s.ops : add[i] = T(AbortOf[p])
      /\ \A i, j \in 1 .. Len(add) : add[i] = add[j] => i = j
  BY AbortedType
<1>2. \A p \in Operations : T(AbortOf[p]).k = AbortOf[p]
  BY DEF T
<1>3. \A i \in 1 .. Len(add) : add[i].k \in K => o \in s.ops /\ add[i] = T(AbortOf[o])
  BY <1>1, <1>2
<1>4. \A i, j \in 1 .. Len(add) : add[i].k \in K /\ add[j].k \in K => i = j
  BY <1>1, <1>3
<1>5. \A i \in 1 .. Len(u) :
        \/ i \in 1 .. Len(run) /\ u[i] = run[i]
        \/ \E j \in 1 .. Len(add) : i = Len(run) + j /\ u[i] = add[j]
  BY <1>1, TaskOfConcat
<1>6. Once(run, s.ops, o, K)
  OBVIOUS
<1> HIDE DEF add, run, u
<1>7. Once(u, {}, o, K)
  <2>1. \A i, j \in 1 .. Len(run) : run[i].k \in K /\ run[j].k \in K => i = j
    BY <1>6 DEF Once
  <2>2. o \in s.ops => \A i \in 1 .. Len(run) : run[i].k \notin K
    BY <1>6 DEF Once
  <2>3. ASSUME NEW i \in 1 .. Len(u), NEW j \in 1 .. Len(u), u[i].k \in K, u[j].k \in K
        PROVE  i = j
    <3>1. CASE i \in 1 .. Len(run) /\ u[i] = run[i] /\ j \in 1 .. Len(run) /\ u[j] = run[j]
      BY <2>1, <2>3, <3>1
    <3>2. CASE /\ \E k \in 1 .. Len(add) : i = Len(run) + k /\ u[i] = add[k]
               /\ \E k \in 1 .. Len(add) : j = Len(run) + k /\ u[j] = add[k]
      BY <1>4, <2>3, <3>2
    <3>3. CASE o \in s.ops
      BY <1>5, <2>2, <2>3, <3>2, <3>3
    <3>4. CASE o \notin s.ops
      BY <1>3, <1>5, <2>3, <3>1, <3>4
    <3> QED BY <3>3, <3>4
  <2> QED BY <2>3 DEF Once
<1>8. None(run, K) /\ o \notin s.ops => None(u, K)
  BY <1>3, <1>5 DEF None
<1> QED BY <1>7, <1>8 DEF add, run, u

----------------------------------------------------------------------------
(* One connection and its end. *)

ConnectKinds == {"cdone", "cfail"}

\* A connection that was told of its end stays closed, the outcome of a connect
\* is pending, on the strand or told; only a target connects.
EndInv(k, s) ==
  /\ s.ends <= 1 /\ (s.ends = 1 => s.st = "Disconnected")
  /\ Once(s.run, s.ops, "c", ConnectKinds)
  /\ s.told <= 1 /\ ("c" \in s.ops \/ ~None(s.run, ConnectKinds) => s.told = 0)
  /\ k # "target" => /\ "c" \notin s.ops /\ None(s.run, ConnectKinds)
                     /\ s.st = "Disconnected" => s.ends = 1

\* What a call or a handler does to these fields: nothing ends, or the socket is
\* closed.
Goes(s, r) ==
  /\ r \in SockRecord
  /\ r.st = s.st \/ (s.st # "Disconnected" /\ r.st = "Disconnecting")
  /\ r.ends = s.ends /\ r.told = s.told /\ r.run = s.run /\ ("c" \in r.ops <=> "c" \in s.ops)
Posts(s, r) ==
  /\ r \in SockRecord
  /\ r.st = s.st /\ r.ends = s.ends /\ r.told = s.told /\ r.ops = s.ops
  /\ \E t \in Tasks : t.k \notin ConnectKinds /\ r.run = Append(s.run, t)
Shuts(s, r) ==
  /\ r \in SockRecord
  /\ s.st # "Disconnected" /\ r.st = "Disconnected"
  /\ r.ends = s.ends + 1 /\ r.told = s.told /\ r.ops = {} /\ r.run = s.run \o Aborted(s)

LEMMA GoesKeeps == ASSUME NEW k, NEW s, NEW r, EndInv(k, s), Goes(s, r) PROVE EndInv(k, r)
BY DEF EndInv, Goes, Once, None

LEMMA PostsKeeps ==
  ASSUME NEW k, NEW s \in SockRecord, NEW r, EndInv(k, s), Posts(s, r) PROVE EndInv(k, r)
<1>1. PICK t \in Tasks : t.k \notin ConnectKinds /\ r.run = Append(s.run, t)
  BY DEF Posts
<1>2. s.run \in Seq(Tasks)
  BY DEF SockRecord
<1>3. r.st = s.st /\ r.ends = s.ends /\ r.told = s.told /\ r.ops = s.ops
  BY DEF Posts
<1>4. Once(r.run, r.ops, "c", ConnectKinds)
  BY <1>1, <1>2, <1>3, OnceAppend DEF EndInv
<1>5. None(s.run, ConnectKinds) <=> None(r.run, ConnectKinds)
  BY <1>1, <1>2, TaskOfAppend, AppendProperties DEF None
<1> QED BY <1>3, <1>4, <1>5 DEF EndInv

LEMMA ShutsKeeps ==
  ASSUME NEW k, NEW s \in SockRecord, NEW r, EndInv(k, s), Shuts(s, r) PROVE EndInv(k, r)
<1>1. /\ s.run \in Seq(Tasks) /\ s.ops \in SUBSET Operations /\ "c" \in Operations /\ s.ends \in Nat
      /\ s.told \in Nat
  BY DEF SockRecord, Operations
<1>2. \A p \in Operations : AbortOf[p] \in ConnectKinds => p = "c"
  BY DEF Operations, AbortOf, ConnectKinds
<1>3. /\ s.st # "Disconnected" /\ r.st = "Disconnected" /\ r.ends = s.ends + 1 /\ r.told = s.told
      /\ r.ops = {} /\ r.run = s.run \o Aborted(s)
  BY DEF Shuts
<1>4. /\ Once(r.run, r.ops, "c", ConnectKinds)
      /\ None(s.run, ConnectKinds) /\ "c" \notin s.ops => None(r.run, ConnectKinds)
  BY <1>1, <1>2, <1>3, OnceClosed DEF EndInv
<1>5. s.ends = 0
  BY <1>1, <1>3 DEF EndInv
<1>6. r.ends <= 1 /\ r.ends = 1
  BY <1>3, <1>5
<1>7. r.told <= 1 /\ ("c" \in r.ops \/ ~None(r.run, ConnectKinds) => r.told = 0)
  BY <1>3, <1>4 DEF EndInv
<1>8. k # "target" => "c" \notin r.ops /\ None(r.run, ConnectKinds)
  BY <1>3, <1>4 DEF EndInv
<1> QED BY <1>3, <1>4, <1>6, <1>7, <1>8 DEF EndInv

\* The handler leaves the strand.
LEMMA PopKeeps ==
  ASSUME NEW k, NEW s \in SockRecord, s.run # <<>>, EndInv(k, s)
  PROVE  /\ [s EXCEPT !.run = Tail(@)] \in SockRecord /\ EndInv(k, [s EXCEPT !.run = Tail(@)])
         /\ Head(s.run) \in Tasks
         /\ Head(s.run).k \in ConnectKinds =>
              None(Tail(s.run), ConnectKinds) /\ "c" \notin s.ops /\ s.told = 0 /\ k = "target"
<1> DEFINE r == [s EXCEPT !.run = Tail(@)]
<1>1. /\ s.run \in Seq(Tasks) /\ Tail(s.run) \in Seq(Tasks) /\ Head(s.run) \in Tasks
      /\ Head(s.run) = s.run[1] /\ 1 \in 1 .. Len(s.run)
      /\ \A i \in 1 .. Len(Tail(s.run)) : i + 1 \in 1 .. Len(s.run) /\ Tail(s.run)[i] = s.run[i + 1]
  BY TaskOfTail DEF SockRecord
<1>2. r \in SockRecord
  BY <1>1 DEF SockRecord
<1>3. r.st = s.st /\ r.ends = s.ends /\ r.told = s.told /\ r.ops = s.ops /\ r.run = Tail(s.run)
  BY DEF SockRecord
<1> HIDE DEF r
<1>4. /\ Once(Tail(s.run), s.ops, "c", ConnectKinds)
      /\ Head(s.run).k \in ConnectKinds => None(Tail(s.run), ConnectKinds) /\ "c" \notin s.ops
  BY <1>1, OnceTail DEF EndInv
<1>5. None(s.run, ConnectKinds) => None(Tail(s.run), ConnectKinds)
  BY <1>1 DEF None
<1>6. EndInv(k, r)
  BY <1>3, <1>4, <1>5 DEF EndInv
<1>7. Head(s.run).k \in ConnectKinds => ~None(s.run, ConnectKinds)
  BY <1>1 DEF None
<1>8. Head(s.run).k \in ConnectKinds => s.told = 0 /\ k = "target"
  BY <1>7 DEF EndInv
<1> QED BY <1>1, <1>2, <1>4, <1>6, <1>8 DEF r

----------------------------------------------------------------------------
(* Closing. *)

\* The record stays well formed, and the end is told of at most now.
Keeps(k, s, r) ==
  r \in SockRecord /\ EndInv(k, r) /\ (r.ends = s.ends \/ r.ends = s.ends + 1)

LEMMA CloseShuts ==
  ASSUME NEW s \in SockRecord, NEW abortive \in BOOLEAN, s.st # "Disconnected"
  PROVE  Shuts(s, do_close(s, abortive))
<1> DEFINE run == s.run \o Aborted(s)
           bytes == s.bytes - Len(s.q)
           ends == s.ends + 1
           fin == IF s.fin = "no" THEN (IF abortive THEN "rst" ELSE "fin") ELSE s.fin
           none == <<>>
           r == do_close(s, abortive)
<1>1. run \in Seq(Tasks)
  <2>1. Aborted(s) \in Seq(Tasks) /\ s.run \in Seq(Tasks)
    BY AbortedType DEF SockRecord
  <2> QED BY <2>1, ConcatProperties
<1>2. bytes \in Int /\ ends \in Nat /\ fin \in {"no", "fin", "rst"} /\ none \in Seq(Int)
  BY LenProperties, Empty DEF SockRecord
<1>3. r = [s EXCEPT !.st = "Disconnected", !.run = run, !.ops = {}, !.bytes = bytes, !.q = none,
                    !.writing = FALSE, !.rclosed = TRUE, !.req = TRUE, !.done = TRUE,
                    !.ends = ends, !.fin = fin]
  BY DEF do_close, SockRecord
<1> HIDE DEF run, bytes, ends, fin, none, r
<1> DEFINE a == [s EXCEPT !.st = "Disconnected", !.run = run, !.ops = {}, !.bytes = bytes, !.q = none]
<1>4. a \in SockRecord
  BY <1>1, <1>2 DEF SockRecord
<1>5. r = [a EXCEPT !.writing = FALSE, !.rclosed = TRUE, !.req = TRUE, !.done = TRUE,
                    !.ends = ends, !.fin = fin]
  BY <1>3 DEF SockRecord
<1>6. r \in SockRecord
  <2> HIDE DEF a
  <2> QED BY <1>2, <1>4, <1>5 DEF SockRecord
<1>7. /\ r.st = "Disconnected" /\ r.run = run /\ r.ops = {} /\ r.ends = ends /\ r.told = s.told
  BY <1>3 DEF SockRecord
<1> QED BY <1>6, <1>7 DEF Shuts, run, ends, r

\* Fields of the end that a step leaves alone, whatever it does before a close.
LEMMA SameKeeps ==
  ASSUME NEW k, NEW s, NEW r, EndInv(k, s), Goes(s, r) PROVE Keeps(k, s, r)
BY GoesKeeps DEF Keeps, Goes

LEMMA CloseKeeps ==
  ASSUME NEW k, NEW s \in SockRecord, EndInv(k, s), NEW abortive \in BOOLEAN
  PROVE  Keeps(k, s, do_close(s, abortive))
<1>1. CASE s.st = "Disconnected"
  BY <1>1 DEF do_close, Keeps
<1>2. CASE s.st # "Disconnected"
  BY <1>2, CloseShuts, ShutsKeeps DEF Keeps, Shuts
<1> QED BY <1>1, <1>2

\* A step before a close.
LEMMA KeepsAfter ==
  ASSUME NEW k, NEW s, NEW a, NEW r, Goes(s, a), Keeps(k, a, r) PROVE Keeps(k, s, r)
BY DEF Keeps, Goes

LEMMA FailKeeps ==
  ASSUME NEW k, NEW s \in SockRecord, EndInv(k, s) PROVE Keeps(k, s, Fail(s))
<1>1. CASE s.st = "Disconnected"
  BY <1>1 DEF Fail, Keeps
<1>2. CASE s.st # "Disconnected"
  <2> DEFINE a == [s EXCEPT !.st = "Disconnecting", !.fault = TRUE]
  <2>1. Goes(s, a)
    BY <1>2 DEF SockRecord, Goes
  <2>2. Fail(s) = do_close(a, FALSE)
    BY <1>2 DEF Fail
  <2> HIDE DEF a
  <2>3. a \in SockRecord /\ EndInv(k, a)
    BY <2>1, GoesKeeps DEF Goes
  <2> QED BY <2>1, <2>2, <2>3, CloseKeeps, KeepsAfter
<1> QED BY <1>1, <1>2

LEMMA ForceKeeps ==
  ASSUME NEW k, NEW s \in SockRecord, EndInv(k, s), NEW reset \in BOOLEAN
  PROVE  Keeps(k, s, do_force_close(s, reset))
<1>1. CASE s.st = "Disconnected"
  BY <1>1 DEF do_force_close, Keeps
<1>2. CASE s.st # "Disconnected"
  <2> DEFINE bytes == s.bytes - Len(s.q)
             none == <<>>
             a == [s EXCEPT !.bytes = bytes, !.q = none, !.fault = TRUE]
  <2>1. bytes \in Int /\ none \in Seq(Int)
    BY LenProperties, Empty DEF SockRecord
  <2>2. do_force_close(s, reset) = do_close(a, reset)
    BY <1>2 DEF do_force_close, SockRecord
  <2> HIDE DEF bytes, none
  <2>3. Goes(s, a)
    BY <2>1 DEF SockRecord, Goes
  <2> HIDE DEF a
  <2>4. a \in SockRecord /\ EndInv(k, a)
    BY <2>3, GoesKeeps DEF Goes
  <2> QED BY <2>2, <2>3, <2>4, CloseKeeps, KeepsAfter
<1> QED BY <1>1, <1>2

----------------------------------------------------------------------------
(* Writing. *)

LEMMA ShutdownGoes ==
  ASSUME NEW s \in SockRecord
  PROVE  /\ Goes(s, maybe_shutdown_send(s)) /\ maybe_shutdown_send(s).st = s.st
         /\ Goes(s, shutdown_send(s))
<1> DEFINE fin(x) == IF x.fin = "no" THEN "fin" ELSE x.fin
<1>1. \A x \in SockRecord : fin(x) \in {"no", "fin", "rst"}
  BY DEF SockRecord
<1>2. \A x \in SockRecord : maybe_shutdown_send(x) =
        IF x.req /\ ~x.done /\ ~x.writing /\ x.q = <<>> THEN [x EXCEPT !.done = TRUE, !.fin = fin(x)] ELSE x
  BY DEF maybe_shutdown_send, SockRecord
<1> HIDE DEF fin
<1>3. \A x \in SockRecord : Goes(x, maybe_shutdown_send(x)) /\ maybe_shutdown_send(x).st = x.st
  <2> TAKE x \in SockRecord
  <2>1. CASE x.req /\ ~x.done /\ ~x.writing /\ x.q = <<>>
    <3> DEFINE r == [x EXCEPT !.done = TRUE, !.fin = fin(x)]
    <3>1. r \in SockRecord /\ r.st = x.st /\ r.ends = x.ends /\ r.told = x.told /\ r.run = x.run
          /\ r.ops = x.ops
      BY <1>1 DEF SockRecord
    <3> QED BY <1>2, <2>1, <3>1 DEF Goes
  <2>2. CASE ~(x.req /\ ~x.done /\ ~x.writing /\ x.q = <<>>)
    BY <1>2, <2>2 DEF Goes
  <2> QED BY <2>1, <2>2
<1>4. CASE s.st = "Disconnected"
  BY <1>3, <1>4 DEF Goes, shutdown_send
<1>5. CASE s.st # "Disconnected"
  <2> DEFINE a == [s EXCEPT !.req = TRUE]
  <2>1. a \in SockRecord /\ a.st = s.st /\ a.ends = s.ends /\ a.told = s.told /\ a.run = s.run
        /\ a.ops = s.ops
    BY DEF SockRecord
  <2>2. shutdown_send(s) = maybe_shutdown_send(a)
    BY <1>5 DEF shutdown_send
  <2> HIDE DEF a
  <2> QED BY <1>3, <2>1, <2>2 DEF Goes
<1> QED BY <1>4, <1>5

LEMMA DoWriteKeeps ==
  ASSUME NEW k, NEW s \in SockRecord, EndInv(k, s) PROVE Keeps(k, s, do_write(s))
<1>1. CASE s.q = <<>>
  <2> DEFINE a == [s EXCEPT !.writing = FALSE]
             r == maybe_shutdown_send(a)
  <2>1. Goes(s, a) /\ a \in SockRecord
    BY DEF SockRecord, Goes
  <2>2. do_write(s) = IF r.st = "Disconnecting" THEN do_close(r, FALSE) ELSE r
    BY <1>1 DEF do_write
  <2> HIDE DEF a
  <2>3. Goes(a, r) /\ EndInv(k, a) /\ r \in SockRecord
    BY <2>1, GoesKeeps, ShutdownGoes DEF Goes
  <2> HIDE DEF r
  <2>4. EndInv(k, r)
    BY <2>3, GoesKeeps
  <2>5. Keeps(k, r, do_write(s))
    BY <2>2, <2>3, <2>4, CloseKeeps DEF Keeps
  <2> QED BY <2>1, <2>3, <2>5, KeepsAfter
<1>2. CASE s.q # <<>>
  <2> DEFINE fly == <<Head(s.q)>>
             q == Tail(s.q)
             ops == s.ops \cup {"w"}
             r == [s EXCEPT !.writing = TRUE, !.fly = fly, !.q = q, !.ops = ops]
  <2>1. fly \in Seq(Int) /\ q \in Seq(Int)
    BY <1>2, HeadTailProperties DEF SockRecord
  <2>2. ops \in SUBSET Operations /\ ("c" \in ops <=> "c" \in s.ops)
    BY DEF SockRecord, Operations
  <2>3. do_write(s) = r
    BY <1>2 DEF do_write, SockRecord
  <2> HIDE DEF fly, q, ops
  <2>4. Goes(s, r)
    BY <2>1, <2>2 DEF SockRecord, Goes
  <2> QED BY <2>3, <2>4, SameKeeps
<1> QED BY <1>1, <1>2

LEMMA RunWriteKeeps ==
  ASSUME NEW k, NEW s \in SockRecord, EndInv(k, s), NEW t \in Tasks, t.k = "write"
  PROVE  Keeps(k, s, RunWrite(s, t.b))
<1>1. CASE ~Open(s) \/ s.req
  BY <1>1 DEF RunWrite, Keeps
<1>2. CASE ~(~Open(s) \/ s.req)
  <2> DEFINE b == t.b[1]
             bytes == s.bytes + 1
             q == Append(s.q, b)
             a == [s EXCEPT !.bytes = bytes, !.q = q]
  <2>1. b \in Int
    BY DEF Tasks
  <2>2. bytes \in Int /\ q \in Seq(Int)
    BY <2>1, AppendProperties DEF SockRecord
  <2>3. RunWrite(s, t.b) = IF a.writing THEN a ELSE do_write(a)
    BY <1>2 DEF RunWrite, enqueue_write, SockRecord
  <2> HIDE DEF bytes, q
  <2>4. Goes(s, a)
    BY <2>2 DEF SockRecord, Goes
  <2> HIDE DEF a
  <2>5. a \in SockRecord /\ EndInv(k, a)
    BY <2>4, GoesKeeps DEF Goes
  <2>6. Keeps(k, a, do_write(a)) /\ Keeps(k, a, a)
    BY <2>5, DoWriteKeeps DEF Keeps
  <2> QED BY <2>3, <2>4, <2>6, KeepsAfter
<1> QED BY <1>1, <1>2

LEMMA WriteDoneKeeps ==
  ASSUME NEW k, NEW s \in SockRecord, EndInv(k, s) PROVE Keeps(k, s, WriteDone(s))
<1> DEFINE bytes == s.bytes - 1
           none == <<>>
           a == [s EXCEPT !.bytes = bytes, !.fly = none]
<1>1. bytes \in Int /\ none \in Seq(Int)
  BY Empty DEF SockRecord
<1>2. WriteDone(s) = do_write(a)
  BY DEF WriteDone, SockRecord
<1> HIDE DEF bytes, none
<1>3. Goes(s, a)
  BY <1>1 DEF SockRecord, Goes
<1> HIDE DEF a
<1>4. a \in SockRecord /\ EndInv(k, a)
  BY <1>3, GoesKeeps DEF Goes
<1> QED BY <1>2, <1>3, <1>4, DoWriteKeeps, KeepsAfter

LEMMA WriteFailedKeeps ==
  ASSUME NEW k, NEW s \in SockRecord, EndInv(k, s) PROVE Keeps(k, s, WriteFailed(s))
<1> DEFINE bytes == s.bytes - 1
           none == <<>>
           st == IF s.st = "Connected" THEN "Disconnecting" ELSE s.st
           a == [s EXCEPT !.writing = FALSE, !.bytes = bytes, !.fly = none, !.fault = TRUE, !.st = st]
<1>1. bytes \in Int /\ none \in Seq(Int)
  BY Empty DEF SockRecord
<1>2. /\ st \in {"Disconnected", "Connecting", "Connected", "Disconnecting"}
      /\ st = s.st \/ (s.st # "Disconnected" /\ st = "Disconnecting")
  BY DEF SockRecord
<1>3. WriteFailed(s) = do_close(a, FALSE)
  BY DEF WriteFailed, SockRecord
<1> HIDE DEF bytes, none, st
<1>4. Goes(s, a)
  BY <1>1, <1>2 DEF SockRecord, Goes
<1> HIDE DEF a
<1>5. a \in SockRecord /\ EndInv(k, a)
  BY <1>4, GoesKeeps DEF Goes
<1> QED BY <1>3, <1>4, <1>5, CloseKeeps, KeepsAfter

LEMMA CloseCallKeeps ==
  ASSUME NEW k, NEW s \in SockRecord, EndInv(k, s) PROVE Keeps(k, s, close(s))
<1>1. CASE s.st = "Disconnected"
  BY <1>1 DEF close, Keeps
<1>2. CASE s.st # "Disconnected"
  <2> DEFINE a == [s EXCEPT !.st = "Disconnecting"]
  <2>1. Goes(s, a)
    BY <1>2 DEF SockRecord, Goes
  <2>2. close(s) = do_close(a, FALSE) \/ close(s) = a
    BY <1>2 DEF close
  <2> HIDE DEF a
  <2>3. a \in SockRecord /\ EndInv(k, a)
    BY <2>1, GoesKeeps DEF Goes
  <2>4. Keeps(k, a, do_close(a, FALSE)) /\ Keeps(k, a, a)
    BY <2>3, CloseKeeps DEF Keeps
  <2> QED BY <2>1, <2>2, <2>4, KeepsAfter
<1> QED BY <1>1, <1>2

----------------------------------------------------------------------------
(* Reading, and the watch. *)

LEMMA ReadGoes == ASSUME NEW s \in SockRecord PROVE Goes(s, do_read(s)) /\ Goes(s, do_watch(s))
<1> DEFINE ro == s.ops \cup {"r"}
           wo == s.ops \cup {"wait"}
<1>1. /\ ro \in SUBSET Operations /\ ("c" \in ro <=> "c" \in s.ops)
      /\ wo \in SUBSET Operations /\ ("c" \in wo <=> "c" \in s.ops)
  BY DEF SockRecord, Operations
<1>2. do_read(s) = [s EXCEPT !.rfly = TRUE, !.ops = ro] \/ do_read(s) = s
  BY DEF do_read, SockRecord
<1>3. do_watch(s) = [s EXCEPT !.wfly = TRUE, !.ops = wo] \/ do_watch(s) = s
  BY DEF do_watch, SockRecord
<1> HIDE DEF ro, wo
<1>4. Goes(s, [s EXCEPT !.rfly = TRUE, !.ops = ro])
  BY <1>1 DEF SockRecord, Goes
<1>5. Goes(s, [s EXCEPT !.wfly = TRUE, !.ops = wo])
  BY <1>1 DEF SockRecord, Goes
<1>6. Goes(s, s)
  BY DEF Goes
<1> QED BY <1>2, <1>3, <1>4, <1>5, <1>6

\* Two steps that leave the strand alone and do not close.
LEMMA GoesTwice ==
  ASSUME NEW s, NEW a, NEW r, Goes(s, a), Goes(a, r) PROVE Goes(s, r)
BY DEF Goes

LEMMA ReadEndGoes ==
  ASSUME NEW s \in SockRecord
  PROVE  Goes(s, ReadEnded(s)) /\ Goes(s, [s EXCEPT !.rfly = FALSE]) /\ Goes(s, [s EXCEPT !.wfly = FALSE])
         /\ Goes(s, [s EXCEPT !.watch = FALSE]) /\ Goes(s, [s EXCEPT !.watch = TRUE])
         /\ Goes(s, pause_read(s))
<1> DEFINE eof == s.eof + 1
<1>1. eof \in Nat
  BY DEF SockRecord
<1>2. ReadEnded(s) = [s EXCEPT !.rfly = FALSE, !.rclosed = TRUE, !.eof = eof]
  BY DEF ReadEnded, SockRecord
<1> HIDE DEF eof
<1>3. Goes(s, ReadEnded(s))
  <2> DEFINE r == [s EXCEPT !.rfly = FALSE, !.rclosed = TRUE, !.eof = eof]
  <2>1. r \in SockRecord
    BY <1>1 DEF SockRecord
  <2>2. r.st = s.st /\ r.ends = s.ends /\ r.told = s.told /\ r.run = s.run /\ r.ops = s.ops
    BY DEF SockRecord
  <2> QED BY <1>2, <2>1, <2>2 DEF Goes
<1>4. Goes(s, [s EXCEPT !.rfly = FALSE])
  BY DEF SockRecord, Goes
<1>4a. Goes(s, [s EXCEPT !.wfly = FALSE])
  BY DEF SockRecord, Goes
<1>5. Goes(s, [s EXCEPT !.watch = FALSE])
  BY DEF SockRecord, Goes
<1>5a. Goes(s, [s EXCEPT !.watch = TRUE])
  BY DEF SockRecord, Goes
<1>6. Goes(s, pause_read(s))
  BY DEF SockRecord, Goes, pause_read
<1> QED BY <1>3, <1>4, <1>4a, <1>5, <1>5a, <1>6

LEMMA ReadFailedKeeps ==
  ASSUME NEW k, NEW s \in SockRecord, EndInv(k, s) PROVE Keeps(k, s, ReadFailed(s))
<1> DEFINE a == [s EXCEPT !.rfly = FALSE]
<1>1. Goes(s, a)
  BY ReadEndGoes
<1>2. ReadFailed(s) = Fail(a) \/ ReadFailed(s) = a
  BY DEF ReadFailed
<1> HIDE DEF a
<1>3. a \in SockRecord /\ EndInv(k, a)
  BY <1>1, GoesKeeps DEF Goes
<1>4. Keeps(k, a, Fail(a)) /\ Keeps(k, a, a)
  BY <1>3, FailKeeps DEF Keeps
<1> QED BY <1>1, <1>2, <1>4, KeepsAfter

LEMMA StartReadGoes == ASSUME NEW s \in SockRecord PROVE Goes(s, StartRead(s))
<1>1. CASE s.st # "Connected"
  BY <1>1, ReadEndGoes DEF StartRead
<1>2. CASE s.st = "Connected"
  <2> DEFINE fed == s.fed \o s.hold
             none == <<>>
             eof == s.eof + 1
             a == [s EXCEPT !.watch = FALSE, !.fed = fed, !.hold = none]
             e == [a EXCEPT !.pend = FALSE, !.eof = eof]
  <2>1. fed \in Seq(Int) /\ none \in Seq(Int) /\ eof \in Nat
    BY ConcatProperties, Empty DEF SockRecord
  <2>2. StartRead(s) = e \/ StartRead(s) = do_read(a)
    BY <1>2 DEF StartRead, SockRecord
  <2> HIDE DEF fed, none, eof
  <2>3. Goes(s, a)
    BY <2>1 DEF SockRecord, Goes
  <2>4. a \in SockRecord
    BY <2>3 DEF Goes
  <2> HIDE DEF a
  <2>5. Goes(a, e)
    BY <2>1, <2>4 DEF SockRecord, Goes
  <2> HIDE DEF e
  <2> QED BY <2>2, <2>3, <2>4, <2>5, ReadGoes, GoesTwice
<1> QED BY <1>1, <1>2

LEMMA ReadableKeeps ==
  ASSUME NEW k, NEW s \in SockRecord, EndInv(k, s) PROVE Keeps(k, s, Readable(s))
<1> DEFINE n == IF Len(s.inb) <= HoldCap - Len(s.hold) THEN Len(s.inb) ELSE HoldCap - Len(s.hold)
           none == <<>>
           hold == s.hold \o SubSeq(s.inb, 1, n)
           inb == SubSeq(s.inb, n + 1, Len(s.inb))
           a == [s EXCEPT !.wfly = FALSE]
           d == [a EXCEPT !.watch = FALSE, !.hold = none]
           h == [a EXCEPT !.hold = hold, !.inb = inb]
           p == [a EXCEPT !.watch = FALSE, !.pend = TRUE, !.rclosed = TRUE]
<1>1. Goes(s, a) /\ a \in SockRecord
  BY ReadEndGoes DEF Goes
<1>2. a.inb = s.inb /\ a.hold = s.hold /\ a.st = s.st /\ a.watch = s.watch /\ a.pfin = s.pfin
  BY DEF SockRecord
<1>3. \/ Readable(s) = a
      \/ Readable(s) = Fail(d)
      \/ s.inb # <<>> /\ Len(s.hold) < HoldCap /\ Readable(s) = do_watch(h)
      \/ Readable(s) = do_watch(a)
      \/ Readable(s) = p
  <2>0. Readable(s) =
          CASE ~a.watch \/ a.st /= "Connected" -> a
            [] OTHER ->
                 CASE a.inb /= <<>> /\ Len(a.hold) >= HoldCap -> Fail(d)
                   [] a.inb /= <<>> /\ Len(a.hold) < HoldCap ->
                        do_watch([a EXCEPT !.hold = @ \o SubSeq(a.inb, 1, n),
                                           !.inb = SubSeq(@, n + 1, Len(@))])
                   [] a.inb = <<>> /\ a.pfin = "no" -> do_watch(a)
                   [] a.inb = <<>> /\ a.pfin = "fin" /\ a.hold /= <<>> -> p
                   [] OTHER -> Fail(d)
    BY Zenon DEF Readable
  <2>h. [a EXCEPT !.hold = @ \o SubSeq(a.inb, 1, n), !.inb = SubSeq(@, n + 1, Len(@))] = h
    <3> HIDE DEF a, n
    <3> QED BY <1>1, <1>2 DEF SockRecord
  <2> HIDE DEF a, d, p, h, n
  <2>1. CASE ~s.watch \/ s.st # "Connected"
    BY <1>2, <2>0, <2>1
  <2>2. CASE ~(~s.watch \/ s.st # "Connected")
    <3>0. Len(s.hold) \in Nat /\ HoldCap \in Nat
      BY HoldAssumption, LenProperties DEF SockRecord
    <3>1. CASE s.inb # <<>> /\ Len(s.hold) >= HoldCap
      BY <1>2, <2>0, <2>2, <3>0, <3>1
    <3>2. CASE s.inb # <<>> /\ Len(s.hold) < HoldCap
      BY <1>2, <2>0, <2>h, <2>2, <3>0, <3>2
    <3>3. CASE s.inb = <<>> /\ s.pfin = "no"
      BY <1>2, <2>0, <2>2, <3>3
    <3>4. CASE s.inb = <<>> /\ s.pfin # "no"
      <4>1. CASE s.pfin = "fin" /\ s.hold # <<>>
        BY <1>2, <2>0, <2>2, <3>4, <4>1
      <4>2. CASE ~(s.pfin = "fin" /\ s.hold # <<>>)
        BY <1>2, <2>0, <2>2, <3>4, <4>2
      <4> QED BY <4>1, <4>2
    <3>5. Len(s.hold) >= HoldCap \/ Len(s.hold) < HoldCap
      BY <3>0
    <3> QED BY <3>1, <3>2, <3>3, <3>4, <3>5
  <2> QED BY <2>1, <2>2
<1>4. none \in Seq(Int)
  BY Empty
<1>5. ASSUME s.inb # <<>>, Len(s.hold) < HoldCap PROVE hold \in Seq(Int) /\ inb \in Seq(Int)
  <2>1. s.inb \in Seq(Int) /\ s.hold \in Seq(Int) /\ Len(s.inb) \in Nat /\ Len(s.hold) \in Nat
    BY LenProperties DEF SockRecord
  <2>2. n \in Nat /\ n <= Len(s.inb)
    <3> DEFINE u == Len(s.inb)
               v == Len(s.hold)
    <3>1. u \in Nat /\ v \in Nat /\ v < HoldCap /\ HoldCap \in Nat
      BY <1>5, <2>1, HoldAssumption
    <3> HIDE DEF u, v
    <3>2. (IF u <= HoldCap - v THEN u ELSE HoldCap - v) \in Nat
          /\ (IF u <= HoldCap - v THEN u ELSE HoldCap - v) <= u
      BY <3>1
    <3> QED BY <3>2 DEF u, v
  <2> HIDE DEF n
  <2>3. \A i \in 1 .. n : i \in 1 .. Len(s.inb)
    BY <2>1, <2>2
  <2>4. \A i \in n + 1 .. Len(s.inb) : i \in 1 .. Len(s.inb)
    BY <2>1, <2>2
  <2>5. \A i \in 1 .. Len(s.inb) : s.inb[i] \in Int
    BY <2>1, ElementOfSeq
  <2>6. SubSeq(s.inb, 1, n) \in Seq(Int) /\ inb \in Seq(Int)
    BY <2>1, <2>2, <2>3, <2>4, <2>5, SubSeqProperties
  <2> QED BY <2>1, <2>6, ConcatProperties
<1> HIDE DEF a, none, hold, inb
<1>6. EndInv(k, a)
  BY <1>1, GoesKeeps
<1>7. Goes(a, d)
  BY <1>1, <1>4 DEF SockRecord, Goes
<1>8. Goes(a, p)
  BY <1>1 DEF SockRecord, Goes
<1>9. ASSUME s.inb # <<>>, Len(s.hold) < HoldCap PROVE Goes(a, h)
  BY <1>1, <1>5, <1>9 DEF SockRecord, Goes
<1> HIDE DEF d, h, p, n
<1>10. CASE Readable(s) = Fail(d)
  <2>1. d \in SockRecord /\ EndInv(k, d)
    BY <1>6, <1>7, GoesKeeps DEF Goes
  <2>2. Keeps(k, a, Fail(d))
    BY <1>7, <2>1, FailKeeps, KeepsAfter
  <2> QED BY <1>1, <1>10, <2>2, KeepsAfter
<1>11. CASE s.inb # <<>> /\ Len(s.hold) < HoldCap /\ Readable(s) = do_watch(h)
  <2>1. Goes(a, h) /\ h \in SockRecord
    BY <1>9, <1>11 DEF Goes
  <2>2. Goes(s, do_watch(h))
    BY <1>1, <2>1, ReadGoes, GoesTwice
  <2> QED BY <1>11, <2>2, SameKeeps
<1>12. CASE Readable(s) = a \/ Readable(s) = do_watch(a) \/ Readable(s) = p
  <2>1. Goes(s, Readable(s))
    BY <1>1, <1>8, <1>12, ReadGoes, GoesTwice
  <2> QED BY <2>1, SameKeeps
<1> QED BY <1>3, <1>10, <1>11, <1>12

----------------------------------------------------------------------------
(* A task of the strand. *)

\* The outcome of a connect is told when its handler runs.
LEMMA ConnectKeeps ==
  ASSUME NEW s \in SockRecord, EndInv("target", s), s.told = 0, "c" \notin s.ops, None(s.run, ConnectKinds)
  PROVE  Keeps("target", s, ConnectDone(s)) /\ Keeps("target", s, ConnectFailed(s))
<1> DEFINE one == s.told + 1
           x == [s EXCEPT !.st = "Connected", !.told = one]
           y == [s EXCEPT !.told = one]
           z == [s EXCEPT !.st = "Disconnected", !.told = one]
<1>1. one = 1 /\ one \in Nat
  OBVIOUS
<1>2. /\ (s.st = "Connecting" /\ ConnectDone(s) = x) \/ ConnectDone(s) = y
      /\ ConnectFailed(s) = z
  BY DEF ConnectDone, ConnectFailed, SockRecord
<1> HIDE DEF one
<1>3. /\ x \in SockRecord /\ x.st = "Connected" /\ x.told = one /\ x.ends = s.ends /\ x.run = s.run
      /\ x.ops = s.ops
      /\ y \in SockRecord /\ y.st = s.st /\ y.told = one /\ y.ends = s.ends /\ y.run = s.run
      /\ y.ops = s.ops
  BY <1>1 DEF SockRecord
<1>4. /\ z \in SockRecord /\ z.st = "Disconnected" /\ z.told = one /\ z.ends = s.ends /\ z.run = s.run
      /\ z.ops = s.ops
  BY <1>1 DEF SockRecord
<1> HIDE DEF x, y, z
<1>5. EndInv("target", y) /\ EndInv("target", z)
  BY <1>1, <1>3, <1>4 DEF EndInv
<1>6. s.st = "Connecting" => EndInv("target", x)
  BY <1>1, <1>3 DEF EndInv
<1> QED BY <1>2, <1>3, <1>4, <1>5, <1>6 DEF Keeps

LEMMA HandleKeeps ==
  ASSUME NEW k, NEW s \in SockRecord, EndInv(k, s), NEW t \in Tasks, t.k # "rdone",
         t.k \in ConnectKinds =>
           None(s.run, ConnectKinds) /\ "c" \notin s.ops /\ s.told = 0 /\ k = "target"
  PROVE  Keeps(k, s, Handle(s, t))
<1>0. t.k \in TaskKinds
  BY DEF Tasks
<1>1. CASE t.k = "write"
  BY <1>1, RunWriteKeeps DEF Handle
<1>2. CASE t.k = "shut"
  BY <1>2, ShutdownGoes, SameKeeps DEF Handle
<1>3. CASE t.k = "close"
  BY <1>3, CloseCallKeeps DEF Handle
<1>4. CASE t.k \in {"force", "abort"}
  BY <1>4, ForceKeeps DEF Handle
<1>5. CASE t.k = "start"
  BY <1>5, StartReadGoes, SameKeeps DEF Handle
<1>6. CASE t.k = "doread"
  BY <1>6, ReadGoes, SameKeeps DEF Handle
<1>7. CASE t.k = "watch"
  <2> DEFINE a == [s EXCEPT !.watch = TRUE]
  <2>1. Goes(s, a) /\ a \in SockRecord
    BY ReadEndGoes DEF Goes
  <2>2. Handle(s, t) = do_watch(a)
    BY <1>7 DEF Handle
  <2> HIDE DEF a
  <2>3. Goes(s, do_watch(a))
    BY <2>1, ReadGoes, GoesTwice
  <2> QED BY <2>2, <2>3, SameKeeps
<1>8. CASE t.k = "unwatch"
  <2>1. Handle(s, t) = [s EXCEPT !.watch = FALSE]
    BY <1>8 DEF Handle
  <2> QED BY <2>1, ReadEndGoes, SameKeeps
<1>9. CASE t.k = "wdone"
  BY <1>9, WriteDoneKeeps DEF Handle
<1>10. CASE t.k \in {"wfail", "wabort"}
  BY <1>10, WriteFailedKeeps DEF Handle
<1>11. CASE t.k = "reof"
  BY <1>11, ReadEndGoes, SameKeeps DEF Handle
<1>12. CASE t.k = "rfail"
  BY <1>12, ReadFailedKeeps DEF Handle
<1>13. CASE t.k = "rabort"
  <2>1. Handle(s, t) = [s EXCEPT !.rfly = FALSE]
    BY <1>13 DEF Handle
  <2> QED BY <2>1, ReadEndGoes, SameKeeps
<1>14. CASE t.k = "ready"
  BY <1>14, ReadableKeeps DEF Handle
<1>15. CASE t.k = "waitabort"
  <2>1. Handle(s, t) = [s EXCEPT !.wfly = FALSE]
    BY <1>15 DEF Handle
  <2> QED BY <2>1, ReadEndGoes, SameKeeps
<1>16. CASE t.k \in ConnectKinds
  <2>1. Handle(s, t) = ConnectDone(s) \/ Handle(s, t) = ConnectFailed(s)
    BY <1>16 DEF Handle, ConnectKinds
  <2> QED BY <1>16, <2>1, ConnectKeeps
<1> QED BY <1>0, <1>1, <1>2, <1>3, <1>4, <1>5, <1>6, <1>7, <1>8, <1>9, <1>10, <1>11, <1>12,
           <1>13, <1>14, <1>15, <1>16 DEF TaskKinds, ConnectKinds

----------------------------------------------------------------------------
(* Calls, the kernel and the peer. *)

\* A connection that goes on: its end is not told of.
Lives(k, s, r) == r \in SockRecord /\ EndInv(k, r) /\ r.ends = s.ends

LEMMA PostLives ==
  ASSUME NEW k, NEW s \in SockRecord, EndInv(k, s), NEW t \in Tasks, t.k \notin ConnectKinds
  PROVE  Lives(k, s, Post(s, t))
<1> DEFINE run == Append(s.run, t)
<1>1. run \in Seq(Tasks)
  BY AppendProperties DEF SockRecord
<1>2. Post(s, t) = [s EXCEPT !.run = run]
  BY DEF Post, SockRecord
<1> HIDE DEF run
<1>3. Post(s, t) \in SockRecord
  BY <1>1, <1>2 DEF SockRecord
<1>4. /\ Post(s, t).st = s.st /\ Post(s, t).ends = s.ends /\ Post(s, t).told = s.told
      /\ Post(s, t).ops = s.ops /\ Post(s, t).run = run
  BY <1>2 DEF SockRecord
<1>5. Posts(s, Post(s, t))
  BY <1>3, <1>4 DEF Posts, run
<1> QED BY <1>4, <1>5, PostsKeeps DEF Lives, Posts

LEMMA GoesLives ==
  ASSUME NEW k, NEW s, NEW r, EndInv(k, s), Goes(s, r) PROVE Lives(k, s, r)
BY GoesKeeps DEF Lives, Goes

LEMMA LivesTwice ==
  ASSUME NEW k, NEW s, NEW a, NEW r, Lives(k, s, a), Lives(k, a, r) PROVE Lives(k, s, r)
BY DEF Lives

LEMMA WriteLives ==
  ASSUME NEW k, NEW s \in SockRecord, EndInv(k, s) PROVE Lives(k, s, Write(s))
<1>1. CASE ~Open(s) \/ s.req
  BY <1>1 DEF Write, Lives
<1>2. CASE ~(~Open(s) \/ s.req)
  <2> DEFINE sent == s.sent + 1
             a == [s EXCEPT !.sent = sent]
             t == With("write", <<sent>>)
  <2>1. sent \in Nat /\ <<sent>> \in Seq(Int) /\ Len(<<sent>>) = 1
    BY DEF SockRecord
  <2>2. Write(s) = Post(a, t)
    BY <1>2 DEF Write, SockRecord
  <2>3. t \in Tasks /\ t.k = "write"
    BY <2>1 DEF Tasks, With, TaskKinds
  <2> HIDE DEF sent, t
  <2>4. Goes(s, a)
    BY <2>1 DEF SockRecord, Goes
  <2> HIDE DEF a
  <2>5. Lives(k, s, a)
    BY <2>4, GoesLives
  <2>6. Lives(k, a, Post(a, t))
    BY <2>3, <2>5, PostLives DEF Lives, ConnectKinds
  <2> QED BY <2>2, <2>5, <2>6, LivesTwice
<1> QED BY <1>1, <1>2

LEMMA ResumeLives ==
  ASSUME NEW k, NEW s \in SockRecord, EndInv(k, s) PROVE Lives(k, s, resume_read(s))
<1>1. CASE ~s.paused
  BY <1>1 DEF resume_read, Lives
<1>2. CASE s.paused
  <2> DEFINE a == [s EXCEPT !.paused = FALSE]
  <2>1. Goes(s, a)
    BY DEF SockRecord, Goes
  <2>2. resume_read(s) = Post(a, T("doread"))
    BY <1>2 DEF resume_read
  <2> HIDE DEF a
  <2>3. Lives(k, s, a)
    BY <2>1, GoesLives
  <2>4. T("doread") \in Tasks /\ T("doread").k \notin ConnectKinds
    BY TaskType DEF TaskKinds, ConnectKinds
  <2>5. Lives(k, a, Post(a, T("doread")))
    BY <2>3, <2>4, PostLives DEF Lives
  <2> QED BY <2>2, <2>3, <2>5, LivesTwice
<1> QED BY <1>1, <1>2

\* The end of the send side is asked for.
LEMMA EndCallLives ==
  ASSUME NEW k, NEW s \in SockRecord, EndInv(k, s), NEW c \in {"shut", "close"}
  PROVE  Lives(k, s, Post([s EXCEPT !.due = IF @ = -1 THEN s.sent ELSE @], T(c)))
<1> DEFINE due == IF s.due = -1 THEN s.sent ELSE s.due
           a == [s EXCEPT !.due = due]
<1>1. due \in Int
  BY DEF SockRecord
<1>2. [s EXCEPT !.due = IF @ = -1 THEN s.sent ELSE @] = a
  BY DEF SockRecord
<1> HIDE DEF due
<1>3. Goes(s, a)
  BY <1>1 DEF SockRecord, Goes
<1> HIDE DEF a
<1>4. Lives(k, s, a)
  BY <1>3, GoesLives
<1>5. T(c) \in Tasks /\ T(c).k \notin ConnectKinds
  BY TaskType DEF TaskKinds, ConnectKinds
<1>6. Lives(k, a, Post(a, T(c)))
  BY <1>4, <1>5, PostLives DEF Lives
<1> QED BY <1>2, <1>4, <1>6, LivesTwice

LEMMA PeerLives ==
  ASSUME NEW k, NEW s \in SockRecord, EndInv(k, s), NEW b \in Int, NEW how \in {"fin", "rst"}
  PROVE  Lives(k, s, PeerSends(s, b)) /\ Lives(k, s, PeerEnds(s, how))
<1> DEFINE inb == Append(s.inb, b)
           sentIn == Append(s.sentIn, b)
           left == IF how = "rst" THEN <<>> ELSE s.inb
           fault == s.fault \/ how = "rst"
           x == [s EXCEPT !.inb = inb, !.sentIn = sentIn]
           y == [s EXCEPT !.pfin = how, !.inb = left, !.fault = fault]
<1>1. inb \in Seq(Int) /\ sentIn \in Seq(Int) /\ left \in Seq(Int) /\ fault \in BOOLEAN
  BY AppendProperties, Empty DEF SockRecord
<1>2. PeerSends(s, b) = x /\ PeerEnds(s, how) = y
  BY DEF PeerSends, PeerEnds, SockRecord
<1> HIDE DEF inb, sentIn, left, fault
<1>3. Goes(s, x)
  BY <1>1 DEF SockRecord, Goes
<1>4. Goes(s, y)
  BY <1>1 DEF SockRecord, Goes
<1> HIDE DEF x, y
<1> QED BY <1>2, <1>3, <1>4, GoesLives

\* The kernel queues the handler of an operation; a connect's only once.
LEMMA CompletedLives ==
  ASSUME NEW k, NEW s \in SockRecord, EndInv(k, s), NEW op \in Operations, op \in s.ops,
         NEW t \in Tasks, t.k \in ConnectKinds => op = "c", op = "c" => t.k \in ConnectKinds
  PROVE  Lives(k, s, Completed(s, op, t))
<1> DEFINE run == Append(s.run, t)
           ops == s.ops \ {op}
           r == Completed(s, op, t)
<1>1. run \in Seq(Tasks) /\ ops \in SUBSET Operations /\ s.run \in Seq(Tasks)
  BY AppendProperties DEF SockRecord
<1>2. r = [s EXCEPT !.ops = ops, !.run = run]
  BY DEF Completed, Post, SockRecord
<1> HIDE DEF run, ops, r
<1>3. /\ r \in SockRecord /\ r.st = s.st /\ r.ends = s.ends /\ r.told = s.told /\ r.ops = ops
      /\ r.run = run
  BY <1>1, <1>2 DEF SockRecord
<1>4. CASE op = "c"
  <2>1. Once(run, ops, "c", ConnectKinds)
    BY <1>1, <1>4, OnceDone DEF run, ops, EndInv
  <2>2. s.told = 0 /\ k = "target"
    BY <1>4 DEF EndInv
  <2> QED BY <1>3, <2>1, <2>2 DEF Lives, EndInv, r
<1>5. CASE op # "c"
  <2>1. Once(run, ops, "c", ConnectKinds)
    BY <1>1, <1>5, OnceAppend DEF run, ops, EndInv
  <2>2. None(s.run, ConnectKinds) <=> None(run, ConnectKinds)
    BY <1>1, <1>5, TaskOfAppend, AppendProperties DEF None, run
  <2>3. "c" \in ops <=> "c" \in s.ops
    BY <1>5 DEF ops
  <2>4. EndInv(k, r)
    BY <1>3, <2>1, <2>2, <2>3 DEF EndInv
  <2> QED BY <1>3, <2>4 DEF Lives, r
<1> QED BY <1>4, <1>5

LEMMA KernelLives ==
  ASSUME NEW k, NEW s \in SockRecord, EndInv(k, s), NEW r \in Completions(s) PROVE Lives(k, s, r)
<1>0. \A kk \in TaskKinds \ {"write"} : T(kk) \in Tasks /\ T(kk).k = kk
  BY TaskType
<1>1. CASE "w" \in s.ops /\ r \in {IF s.pfin = "rst" THEN Completed(s, "w", T("wfail"))
         ELSE Completed([s EXCEPT !.out = @ \o s.fly], "w", T("wdone"))}
  <2> DEFINE out == s.out \o s.fly
             a == [s EXCEPT !.out = out]
  <2>1. out \in Seq(Int)
    BY ConcatProperties DEF SockRecord
  <2>2. r = Completed(s, "w", T("wfail")) \/ r = Completed(a, "w", T("wdone"))
    BY <1>1 DEF SockRecord
  <2> HIDE DEF out
  <2>3. Goes(s, a) /\ a \in SockRecord /\ a.ops = s.ops
    BY <2>1 DEF SockRecord, Goes
  <2> HIDE DEF a
  <2>4. Lives(k, s, a)
    BY <2>3, GoesLives
  <2>5. "w" \in Operations /\ "w" # "c" /\ "wfail" \in TaskKinds \ {"write"} /\ "wdone" \in TaskKinds \ {"write"}
        /\ "wfail" \notin ConnectKinds /\ "wdone" \notin ConnectKinds
    BY DEF Operations, TaskKinds, ConnectKinds
  <2>6. Lives(k, s, Completed(s, "w", T("wfail")))
    BY <1>0, <1>1, <2>5, CompletedLives
  <2>7. Lives(k, a, Completed(a, "w", T("wdone")))
    BY <1>0, <1>1, <2>3, <2>4, <2>5, CompletedLives DEF Lives
  <2> QED BY <2>2, <2>4, <2>6, <2>7, LivesTwice
<1>2. CASE "r" \in s.ops /\ s.inb # <<>> /\
        r \in {Completed([s EXCEPT !.inb = SubSeq(@, n + 1, Len(@))], "r",
                        With("rdone", SubSeq(s.inb, 1, n))) : n \in 1 .. Len(s.inb)}
  <2>1. PICK n \in 1 .. Len(s.inb) :
          r = Completed([s EXCEPT !.inb = SubSeq(@, n + 1, Len(@))], "r", With("rdone", SubSeq(s.inb, 1, n)))
    BY <1>2
  <2> DEFINE inb == SubSeq(s.inb, n + 1, Len(s.inb))
             a == [s EXCEPT !.inb = inb]
             t == With("rdone", SubSeq(s.inb, 1, n))
  <2>2. r = Completed(a, "r", t)
    BY <2>1 DEF SockRecord
  <2>3. s.inb \in Seq(Int) /\ Len(s.inb) \in Nat /\ n \in Nat
    BY LenProperties DEF SockRecord
  <2>4. \A i \in 1 .. n : i \in 1 .. Len(s.inb)
    BY <2>3
  <2>5. \A i \in n + 1 .. Len(s.inb) : i \in 1 .. Len(s.inb)
    BY <2>3
  <2>6. \A i \in 1 .. Len(s.inb) : s.inb[i] \in Int
    BY <2>3, ElementOfSeq
  <2>7. SubSeq(s.inb, 1, n) \in Seq(Int) /\ inb \in Seq(Int)
    BY <2>3, <2>4, <2>5, <2>6, SubSeqProperties
  <2>8. t \in Tasks /\ t.k = "rdone"
    BY <2>7 DEF Tasks, With, TaskKinds
  <2> HIDE DEF inb, t
  <2>9. Goes(s, a) /\ a \in SockRecord /\ a.ops = s.ops
    BY <2>7 DEF SockRecord, Goes
  <2> HIDE DEF a
  <2>10. Lives(k, s, a)
    BY <2>9, GoesLives
  <2>11. Lives(k, a, Completed(a, "r", t))
    BY <1>2, <2>8, <2>9, <2>10, CompletedLives DEF Lives, Operations, ConnectKinds
  <2> QED BY <2>2, <2>10, <2>11, LivesTwice
<1>3. CASE "r" \in s.ops /\ r \in {Completed(s, "r", T(IF s.pfin = "fin" THEN "reof" ELSE "rfail"))}
  <2>1. r = Completed(s, "r", T("reof")) \/ r = Completed(s, "r", T("rfail"))
    BY <1>3
  <2>2. "r" \in Operations /\ "r" # "c" /\ "reof" \in TaskKinds \ {"write"} /\ "rfail" \in TaskKinds \ {"write"}
        /\ "reof" \notin ConnectKinds /\ "rfail" \notin ConnectKinds
    BY DEF Operations, TaskKinds, ConnectKinds
  <2> QED BY <1>0, <1>3, <2>1, <2>2, CompletedLives
<1>4. CASE "wait" \in s.ops /\ r \in {Completed(s, "wait", T("ready"))}
  <2>1. "wait" \in Operations /\ "wait" # "c" /\ "ready" \in TaskKinds \ {"write"} /\ "ready" \notin ConnectKinds
    BY DEF Operations, TaskKinds, ConnectKinds
  <2> QED BY <1>0, <1>4, <2>1, CompletedLives
<1>5. CASE "c" \in s.ops /\ r \in {Completed(s, "c", T("cdone")), Completed(s, "c", T("cfail"))}
  <2>1. "c" \in Operations /\ "cdone" \in TaskKinds \ {"write"} /\ "cfail" \in TaskKinds \ {"write"}
        /\ "cdone" \in ConnectKinds /\ "cfail" \in ConnectKinds
    BY DEF Operations, TaskKinds, ConnectKinds
  <2> QED BY <1>0, <1>5, <2>1, CompletedLives
<1> QED BY <1>1, <1>2, <1>3, <1>4, <1>5 DEF Completions

----------------------------------------------------------------------------
(* The SOCKS session writes to its connection and closes it, never more. *)

SessionRecord ==
  [conn : BOOLEAN, proto : {"", "socks", "http"},
   phase : {"greeting", "request", "stream", "crashed"}, buf : Seq(Int), pay : Seq(Int),
   tun : {"none", "Connecting", "Connected", "ready", "gone"}]
Pairs == [s : SockRecord, x : SessionRecord]
Lasts(k, s, p) == p \in Pairs /\ Lives(k, s, p.s)

LEMMA TaskOk == \A k \in {"close", "start", "shut", "force", "abort", "watch", "unwatch", "doread"} :
                  T(k) \in Tasks /\ T(k).k \notin ConnectKinds
BY TaskType DEF TaskKinds, ConnectKinds

LEMMA RepliesLasts ==
  ASSUME NEW k, NEW s, NEW p, EndInv(k, p.s), Lasts(k, s, p)
  PROVE  /\ Lasts(k, s, Replies(p)) /\ Replies(p).x = p.x
         /\ Lasts(k, s, Closes(p)) /\ Closes(p).x = p.x
<1> DEFINE w == Write(p.s)
           q == Post(p.s, T("close"))
<1>1. p \in Pairs /\ p.s \in SockRecord /\ Lives(k, s, p.s)
  BY DEF Lasts, Pairs
<1>2. Lives(k, p.s, w)
  BY <1>1, WriteLives
<1>3. Lives(k, p.s, q)
  BY <1>1, TaskOk, PostLives
<1>4. Lives(k, s, w) /\ Lives(k, s, q)
  BY <1>1, <1>2, <1>3, LivesTwice
<1>5. /\ Replies(p) = [p EXCEPT !.s = w] \/ Replies(p) = p
      /\ Closes(p) = [p EXCEPT !.s = q] \/ Closes(p) = p
  BY <1>1 DEF Replies, Closes, Pairs
<1>6. w \in SockRecord /\ q \in SockRecord
  BY <1>4 DEF Lives
<1> HIDE DEF w, q
<1>7. /\ [p EXCEPT !.s = w] \in Pairs /\ [p EXCEPT !.s = w].s = w /\ [p EXCEPT !.s = w].x = p.x
      /\ [p EXCEPT !.s = q] \in Pairs /\ [p EXCEPT !.s = q].s = q /\ [p EXCEPT !.s = q].x = p.x
  BY <1>1, <1>6 DEF Pairs
<1> QED BY <1>1, <1>4, <1>5, <1>7 DEF Lasts

LEMMA RejectLasts ==
  ASSUME NEW k, NEW s, NEW p, Lasts(k, s, p) PROVE Lasts(k, s, RejectAndClose(p))
<1>1. EndInv(k, p.s)
  BY DEF Lasts, Lives
<1>2. Lasts(k, s, Replies(p))
  BY <1>1, RepliesLasts
<1>3. EndInv(k, Replies(p).s)
  BY <1>2 DEF Lasts, Lives
<1> QED BY <1>2, <1>3, RepliesLasts DEF RejectAndClose

\* A step of the session alone.
LEMMA SessionLasts ==
  ASSUME NEW k, NEW s, NEW p, NEW r, Lasts(k, s, p), r \in Pairs, r.s = p.s PROVE Lasts(k, s, r)
BY DEF Lasts

LEMMA HandoffLasts ==
  ASSUME NEW k, NEW s, NEW p, Lasts(k, s, p), p.x.buf # <<>> PROVE Lasts(k, s, handoff_to_tunnel(p))
<1> DEFINE r == handoff_to_tunnel(p)
           pay == Tail(p.x.buf)
           none == <<>>
           x == [p.x EXCEPT !.phase = "stream", !.pay = pay, !.buf = none, !.tun = "Connecting"]
           y == [p.x EXCEPT !.phase = "crashed"]
<1>1. p \in Pairs /\ p.x \in SessionRecord /\ p.s \in SockRecord
  BY DEF Lasts, Pairs
<1>2. pay \in Seq(Int) /\ none \in Seq(Int)
  BY <1>1, HeadTailProperties, Empty DEF SessionRecord
<1>3. r = [p EXCEPT !.x = x] \/ r = [p EXCEPT !.x = y]
  BY <1>1 DEF handoff_to_tunnel, Pairs, SessionRecord
<1> HIDE DEF pay, none, r
<1>4. x \in SessionRecord /\ y \in SessionRecord
  BY <1>1, <1>2 DEF SessionRecord
<1> HIDE DEF x, y
<1>5. r \in Pairs /\ r.s = p.s
  BY <1>1, <1>3, <1>4 DEF Pairs
<1> QED BY <1>5, SessionLasts DEF r

LEMMA SniffLasts ==
  ASSUME NEW k, NEW s, NEW p, Lasts(k, s, p)
  PROVE  Lasts(k, s, Sniff(p)) /\ Sniff(p).x.buf = p.x.buf /\ Sniff(p).x.phase = p.x.phase
<1> DEFINE proto == IF Head(p.x.buf) = HttpConnect THEN "http" ELSE "socks"
           x == [p.x EXCEPT !.proto = proto]
<1>1. p \in Pairs /\ p.x \in SessionRecord /\ p.s \in SockRecord
  BY DEF Lasts, Pairs
<1>2. proto \in {"", "socks", "http"}
  OBVIOUS
<1>3. Sniff(p) = [p EXCEPT !.x = x] \/ Sniff(p) = p
  BY <1>1 DEF Sniff, Pairs, SessionRecord
<1> HIDE DEF proto
<1>4. x \in SessionRecord /\ x.buf = p.x.buf /\ x.phase = p.x.phase
  BY <1>1, <1>2 DEF SessionRecord
<1> HIDE DEF x
<1>5. Sniff(p) \in Pairs /\ Sniff(p).s = p.s /\ (Sniff(p).x = x \/ Sniff(p).x = p.x)
  BY <1>1, <1>3, <1>4 DEF Pairs
<1> QED BY <1>4, <1>5, SessionLasts

LEMMA GreetingLasts ==
  ASSUME NEW k, NEW s, NEW p, Lasts(k, s, p) PROVE Lasts(k, s, Greeting(p))
<1>1. CASE p.x.phase # "greeting" \/ p.x.buf = <<>>
  BY <1>1 DEF Greeting
<1>2. CASE ~(p.x.phase # "greeting" \/ p.x.buf = <<>>)
  <2> DEFINE buf == Tail(p.x.buf)
             x == [p.x EXCEPT !.buf = buf]
             y == [x EXCEPT !.phase = "request"]
             n == [p EXCEPT !.x = x]
             m == [p EXCEPT !.x = y]
  <2>1. p \in Pairs /\ p.x \in SessionRecord /\ p.s \in SockRecord
    BY DEF Lasts, Pairs
  <2>2. buf \in Seq(Int)
    BY <1>2, <2>1, HeadTailProperties DEF SessionRecord
  <2>3. /\ [p EXCEPT !.x.buf = Tail(@)] = n
        /\ [[p EXCEPT !.x.buf = Tail(@)] EXCEPT !.x.phase = "request"] = m
    BY <2>1 DEF Pairs, SessionRecord
  <2>4. \/ Greeting(p) = Replies([[p EXCEPT !.x.buf = Tail(@)] EXCEPT !.x.phase = "request"])
        \/ Greeting(p) = RejectAndClose([p EXCEPT !.x.buf = Tail(@)])
        \/ Greeting(p) = handoff_to_tunnel(p)
        \/ Greeting(p) = RejectAndClose(p)
    BY <1>2 DEF Greeting, Greet, GreetNoAuth
  <2> HIDE DEF buf
  <2>5. x \in SessionRecord /\ y \in SessionRecord
    BY <2>1, <2>2 DEF SessionRecord
  <2> HIDE DEF x, y
  <2>6. n \in Pairs /\ n.s = p.s /\ m \in Pairs /\ m.s = p.s
    BY <2>1, <2>5 DEF Pairs
  <2> HIDE DEF n, m
  <2>7. Lasts(k, s, n) /\ Lasts(k, s, m)
    BY <2>6, SessionLasts
  <2>8. EndInv(k, m.s)
    BY <2>7 DEF Lasts, Lives
  <2>9. Lasts(k, s, Replies(m)) /\ Lasts(k, s, RejectAndClose(n)) /\ Lasts(k, s, RejectAndClose(p))
        /\ Lasts(k, s, handoff_to_tunnel(p))
    BY <1>2, <2>7, <2>8, RepliesLasts, RejectLasts, HandoffLasts
  <2> QED BY <2>3, <2>4, <2>9
<1> QED BY <1>1, <1>2

LEMMA DataLasts ==
  ASSUME NEW k, NEW s, NEW p, Lasts(k, s, p), NEW b \in Seq(Int)
  PROVE  Lasts(k, s, SessionData(p, b))
<1>1. p \in Pairs /\ p.x \in SessionRecord /\ p.s \in SockRecord /\ EndInv(k, p.s) /\ p.s.ends = s.ends
  BY DEF Lasts, Pairs, Lives
<1>2. CASE p.x.phase # "stream"
  <2> DEFINE buf == p.x.buf \o b
             x == [p.x EXCEPT !.buf = buf]
             a == [p EXCEPT !.x = x]
             g == Greeting(Sniff(a))
  <2>1. buf \in Seq(Int)
    BY <1>1, ConcatProperties DEF SessionRecord
  <2>2. SessionData(p, b) = Request(g)
    BY <1>1, <1>2 DEF SessionData, try_advance, Pairs, SessionRecord
  <2> HIDE DEF buf
  <2>3. x \in SessionRecord
    BY <1>1, <2>1 DEF SessionRecord
  <2> HIDE DEF x
  <2>4. a \in Pairs /\ a.s = p.s
    BY <1>1, <2>3 DEF Pairs
  <2> HIDE DEF a
  <2>5. Lasts(k, s, g)
    BY <2>4, SessionLasts, SniffLasts, GreetingLasts
  <2> HIDE DEF g
  <2>6. Request(g) = g \/ (g.x.buf # <<>> /\ Request(g) = handoff_to_tunnel(g)) \/ Request(g) = RejectAndClose(g)
    BY DEF Request
  <2> QED BY <2>2, <2>5, <2>6, HandoffLasts, RejectLasts
<1>3. CASE p.x.phase = "stream"
  <2> DEFINE fed == p.s.fed \o b
             a == [p.s EXCEPT !.fed = fed]
             r == [p EXCEPT !.s = a]
  <2>1. fed \in Seq(Int)
    BY <1>1, ConcatProperties DEF SockRecord
  <2>2. SessionData(p, b) = r \/ SessionData(p, b) = p
    BY <1>1, <1>3 DEF SessionData, Pairs, SockRecord
  <2> HIDE DEF fed
  <2>3. Goes(p.s, a)
    BY <1>1, <2>1 DEF SockRecord, Goes
  <2> HIDE DEF a
  <2>4. Lives(k, p.s, a)
    BY <1>1, <2>3, GoesLives
  <2>5. a \in SockRecord /\ Lives(k, s, a)
    BY <1>1, <2>4 DEF Lives
  <2>6. r \in Pairs /\ r.s = a
    BY <1>1, <2>5 DEF Pairs
  <2> HIDE DEF r
  <2> QED BY <2>2, <2>5, <2>6 DEF Lasts
<1> QED BY <1>2, <1>3

LEMMA ReadyLasts ==
  ASSUME NEW k, NEW s, NEW p, Lasts(k, s, p) PROVE Lasts(k, s, TunnelReady(p))
<1> DEFINE r == Replies(p)
           fed == r.s.fed \o p.x.pay
           none == <<>>
           a == [r.s EXCEPT !.fed = fed]
           x == [r.x EXCEPT !.tun = "ready", !.pay = none]
           q == Post(a, T("start"))
<1>1. p \in Pairs /\ p.x \in SessionRecord /\ EndInv(k, p.s)
  BY DEF Lasts, Pairs, Lives
<1>2. Lasts(k, s, r)
  BY <1>1, RepliesLasts
<1> HIDE DEF r
<1>3. r \in Pairs /\ r.s \in SockRecord /\ r.x \in SessionRecord /\ EndInv(k, r.s) /\ Lives(k, s, r.s)
  BY <1>2 DEF Lasts, Pairs, Lives
<1>4. fed \in Seq(Int) /\ none \in Seq(Int)
  BY <1>1, <1>3, ConcatProperties, Empty DEF SockRecord, SessionRecord
<1>5. TunnelReady(p) = [s |-> q, x |-> x]
  BY <1>3 DEF TunnelReady, r, SockRecord
<1> HIDE DEF fed, none
<1>6. Goes(r.s, a)
  BY <1>3, <1>4 DEF SockRecord, Goes
<1>7. x \in SessionRecord
  BY <1>3, <1>4 DEF SessionRecord
<1> HIDE DEF a, x
<1>8. Lives(k, r.s, a)
  BY <1>3, <1>6, GoesLives
<1>9. Lives(k, a, q)
  BY <1>8, TaskOk, PostLives DEF Lives
<1>10. Lives(k, s, q)
  BY <1>3, <1>8, <1>9, LivesTwice
<1> HIDE DEF q
<1> QED BY <1>5, <1>7, <1>10 DEF Lasts, Pairs, Lives

LEMMA RefusedLasts ==
  ASSUME NEW k, NEW s, NEW p, Lasts(k, s, p) PROVE Lasts(k, s, TunnelRefused(p))
<1> DEFINE x == [p.x EXCEPT !.tun = "gone"]
           a == [p EXCEPT !.x = x]
           b == Replies(a)
           c == Closes(b)
<1>1. p \in Pairs /\ p.x \in SessionRecord
  BY DEF Lasts, Pairs
<1>2. x \in SessionRecord
  BY <1>1 DEF SessionRecord
<1>3. TunnelRefused(p) = Closes(c)
  BY <1>1 DEF TunnelRefused, Pairs, SessionRecord
<1> HIDE DEF x
<1>4. a \in Pairs /\ a.s = p.s
  BY <1>1, <1>2 DEF Pairs
<1> HIDE DEF a
<1>5. Lasts(k, s, a) /\ EndInv(k, a.s)
  BY <1>4, SessionLasts DEF Lasts, Lives
<1>6. Lasts(k, s, b)
  BY <1>5, RepliesLasts
<1> HIDE DEF b
<1>7. EndInv(k, b.s)
  BY <1>6 DEF Lasts, Lives
<1>8. Lasts(k, s, c)
  BY <1>6, <1>7, RepliesLasts
<1> HIDE DEF c
<1>9. EndInv(k, c.s)
  BY <1>8 DEF Lasts, Lives
<1> QED BY <1>3, <1>8, <1>9, RepliesLasts

----------------------------------------------------------------------------
(* The process. *)

ListenerRecord ==
  [count : Nat, max : Int, accepting : BOOLEAN, armed : BOOLEAN, posts : Int, seen : Int]
Counted == {c \in Conns : KindOf(c) = "forward" /\ at[c] = "in" /\ sk[c].ends = 0}

SocketType ==
  /\ sk \in [Conns -> SockRecord] /\ x5 \in [Conns -> SessionRecord]
  /\ ls \in ListenerRecord /\ at \in [Conns -> {"new", "waiting", "in"}]
\* A connection that is not accepted has done nothing.
Untouched(c) == sk[c] = Fresh("Disconnected") /\ x5[c] = NoSession
SocketInv ==
  /\ SocketType
  /\ \A c \in Conns : at[c] # "in" => Untouched(c)
  /\ \A c \in Conns : at[c] = "in" => EndInv(KindOf(c), sk[c])
  /\ IsFiniteSet(Counted) /\ ls.count = Cardinality(Counted)

LEMMA FreshType ==
  /\ \A st \in {"Disconnected", "Connected"} :
       /\ Fresh(st) \in SockRecord /\ Fresh(st).st = st /\ Fresh(st).ends = 0 /\ Fresh(st).told = 0
       /\ Fresh(st).run = <<>> /\ Fresh(st).ops = {}
  /\ NoSession \in SessionRecord /\ NoSession.tun = "none"
  /\ ListenerInit \in ListenerRecord /\ ListenerInit.count = 0
<1>1. <<>> \in Seq(Int) /\ <<>> \in Seq(Tasks) /\ {} \in SUBSET Operations
  BY Empty
<1>2. ASSUME NEW st \in {"Disconnected", "Connected"}
      PROVE  /\ Fresh(st) \in SockRecord /\ Fresh(st).st = st /\ Fresh(st).ends = 0 /\ Fresh(st).told = 0
             /\ Fresh(st).run = <<>> /\ Fresh(st).ops = {}
  BY <1>1 DEF Fresh, SockRecord
<1>3. NoSession \in SessionRecord /\ NoSession.tun = "none"
  BY <1>1 DEF NoSession, SessionRecord
<1>4. ListenerInit \in ListenerRecord /\ ListenerInit.count = 0
  BY LimitAssumption DEF ListenerInit, ListenerRecord
<1> QED BY <1>2, <1>3, <1>4

LEMMA FreshEnds ==
  \A k : EndInv(k, Fresh("Connected"))
<1> TAKE k
<1>1. /\ Fresh("Connected").st = "Connected" /\ Fresh("Connected").ends = 0
      /\ Fresh("Connected").told = 0 /\ Fresh("Connected").run = <<>> /\ Fresh("Connected").ops = {}
  BY FreshType
<1>2. Len(<<>>) = 0
  OBVIOUS
<1>3. Once(<<>>, {}, "c", ConnectKinds) /\ None(<<>>, ConnectKinds)
  BY <1>2 DEF Once, None
<1> DEFINE f == Fresh("Connected")
<1>4. /\ f.st = "Connected" /\ f.ends = 0 /\ f.told = 0 /\ f.run = <<>> /\ f.ops = {}
  BY <1>1
<1> HIDE DEF f
<1>5. f.ends <= 1 /\ f.told <= 1 /\ f.ends # 1
  BY <1>4
<1>6. Once(f.run, f.ops, "c", ConnectKinds) /\ None(f.run, ConnectKinds) /\ "c" \notin f.ops
  BY <1>3, <1>4
<1>7. EndInv(k, f)
  BY <1>4, <1>5, <1>6 DEF EndInv
<1> QED BY <1>7 DEF f

LEMMA ListenerType ==
  ASSUME NEW l \in ListenerRecord
  PROVE  /\ Looks(l) \in ListenerRecord /\ Looks(l).count = l.count
         /\ Claims(l) \in ListenerRecord /\ Claims(l).count = l.count
         /\ [l EXCEPT !.seen = @ - 1] \in ListenerRecord /\ [l EXCEPT !.seen = @ - 1].count = l.count
         /\ AcceptFailed(l) \in ListenerRecord /\ AcceptFailed(l).count = l.count
         /\ StopListening(l) \in ListenerRecord /\ StopListening(l).count = l.count
         /\ \A n \in Int : /\ set_max_connections(l, n) \in ListenerRecord
                           /\ set_max_connections(l, n).count = l.count
         /\ Accepted(l) \in ListenerRecord /\ Accepted(l).count = l.count + 1
         /\ on_connection_closed(l) \in ListenerRecord
         /\ l.count # 0 => on_connection_closed(l).count = l.count - 1
<1> DEFINE less == l.posts - 1
           more == l.posts + 1
           seen == IF Room(l) THEN l.seen + 1 ELSE l.seen
           left == l.seen - 1
           one == l.count + 1
<1>0. less \in Int /\ more \in Int /\ seen \in Int /\ left \in Int /\ one \in Nat
  BY DEF ListenerRecord
<1>w. /\ Looks(l) = [l EXCEPT !.posts = less, !.seen = seen]
      /\ Claims(l) = [l EXCEPT !.seen = left, !.armed = TRUE]
      /\ [l EXCEPT !.seen = @ - 1] = [l EXCEPT !.seen = left]
      /\ AcceptFailed(l) = [l EXCEPT !.armed = FALSE, !.posts = more]
      /\ Accepted(l) = [l EXCEPT !.count = one, !.armed = FALSE, !.posts = more]
  BY DEF Looks, Claims, AcceptFailed, Accepted, ListenerRecord
<1>4. ASSUME NEW n \in Int
      PROVE  set_max_connections(l, n) \in ListenerRecord /\ set_max_connections(l, n).count = l.count
  <2> DEFINE r == [l EXCEPT !.max = n]
  <2>1. r \in ListenerRecord /\ r.count = l.count /\ r.posts = l.posts
    BY DEF ListenerRecord
  <2>2. set_max_connections(l, n) = [r EXCEPT !.posts = more] \/ set_max_connections(l, n) = r
    BY DEF set_max_connections, ListenerRecord
  <2> HIDE DEF r, more
  <2>3. [r EXCEPT !.posts = more] \in ListenerRecord /\ [r EXCEPT !.posts = more].count = r.count
    BY <1>0, <2>1 DEF ListenerRecord
  <2> QED BY <2>1, <2>2, <2>3
<1> HIDE DEF less, more, seen, left
<1>1. /\ Looks(l) \in ListenerRecord /\ Looks(l).count = l.count
  BY <1>0, <1>w DEF ListenerRecord
<1>2. /\ Claims(l) \in ListenerRecord /\ Claims(l).count = l.count
      /\ [l EXCEPT !.seen = @ - 1] \in ListenerRecord /\ [l EXCEPT !.seen = @ - 1].count = l.count
  <2> HIDE DEF one
  <2> QED BY <1>0, <1>w DEF ListenerRecord
<1>3. /\ AcceptFailed(l) \in ListenerRecord /\ AcceptFailed(l).count = l.count
      /\ StopListening(l) \in ListenerRecord /\ StopListening(l).count = l.count
  BY <1>0, <1>w DEF StopListening, ListenerRecord
<1>5. Accepted(l) \in ListenerRecord /\ Accepted(l).count = l.count + 1
  <2> HIDE DEF one
  <2>1. Accepted(l) \in ListenerRecord /\ Accepted(l).count = one
    BY <1>0, <1>w DEF ListenerRecord
  <2> QED BY <2>1 DEF one
<1>6. on_connection_closed(l) \in ListenerRecord /\ (l.count # 0 => on_connection_closed(l).count = l.count - 1)
  <2> DEFINE m == IF l.count > 0 THEN l.count - 1 ELSE 0
             r == [l EXCEPT !.count = m]
  <2>1. m \in Nat /\ (l.count # 0 => m = l.count - 1)
    BY DEF ListenerRecord
  <2>2. on_connection_closed(l) = [r EXCEPT !.posts = @ + 1] \/ on_connection_closed(l) = r
    BY DEF on_connection_closed, ListenerRecord
  <2> HIDE DEF m
  <2>3. r \in ListenerRecord /\ r.count = m
    BY <2>1 DEF ListenerRecord
  <2> HIDE DEF r
  <2>4. [r EXCEPT !.posts = @ + 1] \in ListenerRecord /\ [r EXCEPT !.posts = @ + 1].count = r.count
    BY <2>3 DEF ListenerRecord
  <2> QED BY <2>1, <2>2, <2>3, <2>4
<1> QED BY <1>1, <1>2, <1>3, <1>4, <1>5, <1>6

\* A step of one connection that is in.
LEMMA ConnStep ==
  ASSUME SocketInv, NEW c \in Conns, at[c] = "in", NEW r, NEW y \in SessionRecord,
         Keeps(KindOf(c), sk[c], r), sk' = [sk EXCEPT ![c] = r], x5' = [x5 EXCEPT ![c] = y], at' = at,
         ls' = IF r.ends > sk[c].ends /\ KindOf(c) = "forward" THEN on_connection_closed(ls) ELSE ls
  PROVE  SocketInv'
<1>1. /\ sk \in [Conns -> SockRecord] /\ x5 \in [Conns -> SessionRecord] /\ ls \in ListenerRecord
      /\ at \in [Conns -> {"new", "waiting", "in"}]
  BY DEF SocketInv, SocketType
<1>2. r \in SockRecord /\ EndInv(KindOf(c), r) /\ (r.ends = sk[c].ends \/ r.ends = sk[c].ends + 1)
  BY DEF Keeps
<1>3. /\ sk' \in [Conns -> SockRecord] /\ x5' \in [Conns -> SessionRecord]
      /\ sk'[c] = r /\ \A d \in Conns : d # c => sk'[d] = sk[d] /\ x5'[d] = x5[d]
  BY <1>1, <1>2
<1>4. ls' \in ListenerRecord
  BY <1>1, ListenerType
<1>5. \A d \in Conns : at'[d] # "in" => Untouched(d)'
  BY <1>3 DEF SocketInv, Untouched
<1>6. \A d \in Conns : at'[d] = "in" => EndInv(KindOf(d), sk'[d])
  BY <1>2, <1>3 DEF SocketInv
<1>7. IsFiniteSet(Counted) /\ ls.count = Cardinality(Counted) /\ ls.count \in Nat
  BY <1>1 DEF SocketInv, ListenerRecord
<1>8. sk[c].ends \in Nat /\ r.ends \in Nat /\ r.ends <= 1
  <2>1. sk[c] \in SockRecord
    BY <1>1
  <2> QED BY <1>2, <2>1 DEF SockRecord, EndInv
<1>9. CASE r.ends = sk[c].ends \/ KindOf(c) # "forward"
  <2>1. ls' = ls
    BY <1>8, <1>9
  <2>2. Counted' = Counted
    BY <1>3, <1>9 DEF Counted
  <2> QED BY <1>3, <1>4, <1>5, <1>6, <1>7, <1>1, <2>1, <2>2 DEF SocketInv, SocketType
<1>10. CASE r.ends # sk[c].ends /\ KindOf(c) = "forward"
  <2>1. sk[c].ends = 0 /\ r.ends = 1 /\ r.ends > sk[c].ends
    BY <1>2, <1>8, <1>10
  <2>2. c \in Counted /\ Counted' = Counted \ {c}
    BY <1>3, <1>10, <2>1 DEF Counted
  <2>3. IsFiniteSet(Counted \ {c}) /\ Cardinality(Counted \ {c}) = Cardinality(Counted) - 1
    BY <1>7, <2>2, FS_RemoveElement, Zenon
  <2>4. Cardinality(Counted) # 0
    BY <1>7, <2>2, FS_EmptySet, Zenon
  <2>5. ls'.count = ls.count - 1
    BY <1>1, <1>7, <1>10, <2>1, <2>4, ListenerType
  <2>6. IsFiniteSet(Counted') /\ ls'.count = Cardinality(Counted')
    BY <1>7, <2>2, <2>3, <2>5
  <2> QED BY <1>1, <1>3, <1>4, <1>5, <1>6, <2>6 DEF SocketInv, SocketType
<1> QED BY <1>9, <1>10

\* One that is not told of its end.
LEMMA LiveStep ==
  ASSUME SocketInv, NEW c \in Conns, at[c] = "in", NEW r, NEW y \in SessionRecord,
         Lives(KindOf(c), sk[c], r), sk' = [sk EXCEPT ![c] = r], x5' = [x5 EXCEPT ![c] = y], at' = at,
         ls' = ls
  PROVE  SocketInv'
<1>1. Keeps(KindOf(c), sk[c], r) /\ r.ends = sk[c].ends
  BY DEF Keeps, Lives
<1>2. sk[c].ends \in Nat
  <2>1. sk[c] \in SockRecord
    BY DEF SocketInv, SocketType
  <2> QED BY <2>1 DEF SockRecord
<1>3. ~(r.ends > sk[c].ends)
  BY <1>1, <1>2
<1>4. ls' = IF r.ends > sk[c].ends /\ KindOf(c) = "forward" THEN on_connection_closed(ls) ELSE ls
  BY <1>3
<1> QED BY <1>1, <1>4, ConnStep

\* A connection that does something is in.
LEMMA Active ==
  ASSUME SocketInv, NEW c \in Conns, sk[c].run # <<>> \/ sk[c].ops # {} \/ x5[c].tun # "none"
  PROVE  at[c] = "in"
BY FreshType DEF SocketInv, Untouched

LEMMA InSound ==
  ASSUME SocketInv, NEW c \in Conns
  PROVE  /\ sk[c] \in SockRecord /\ x5[c] \in SessionRecord /\ x5 = [x5 EXCEPT ![c] = x5[c]]
         /\ at[c] = "in" => EndInv(KindOf(c), sk[c])
BY DEF SocketInv, SocketType

LEMMA DroppedType == \A x \in SessionRecord : Dropped(x) \in SessionRecord
BY DEF Dropped, SessionRecord

LEMMA RunTaskStep == ASSUME SocketInv, NEW c \in Conns, RunTask(c) PROVE SocketInv'
<1> DEFINE s == [sk[c] EXCEPT !.run = Tail(@)]
           t == Head(sk[c].run)
           r == Handle(s, t)
           k == KindOf(c)
           y == IF r.ends > sk[c].ends \/ r.eof > sk[c].eof THEN Dropped(x5[c]) ELSE x5[c]
<1>1. at[c] = "in" /\ sk[c].run # <<>>
  BY Active DEF RunTask
<1>2. sk[c] \in SockRecord /\ EndInv(k, sk[c])
  BY <1>1, InSound
<1>3. /\ s \in SockRecord /\ EndInv(k, s) /\ t \in Tasks
      /\ t.k \in ConnectKinds =>
              None(Tail(sk[c].run), ConnectKinds) /\ "c" \notin sk[c].ops /\ sk[c].told = 0 /\ k = "target"
  BY <1>1, <1>2, PopKeeps
<1>4. s.run = Tail(sk[c].run) /\ s.ops = sk[c].ops /\ s.told = sk[c].told /\ s.ends = sk[c].ends
  BY <1>2 DEF SockRecord
<1>5. t.k # "rdone"
  BY DEF RunTask
<1>6. /\ sk' = [sk EXCEPT ![c] = r] /\ at' = at
      /\ ls' = IF r.ends > sk[c].ends /\ KindOf(c) = "forward" THEN on_connection_closed(ls) ELSE ls
      /\ x5' = IF r.ends > sk[c].ends \/ r.eof > sk[c].eof THEN [x5 EXCEPT ![c] = Dropped(@)] ELSE x5
  BY DEF RunTask, Set
<1> HIDE DEF s, t
<1>7. Keeps(k, s, r)
  BY <1>3, <1>4, <1>5, HandleKeeps
<1>8. Keeps(k, sk[c], r)
  BY <1>4, <1>7 DEF Keeps
<1> HIDE DEF r
<1>9. x5' = [x5 EXCEPT ![c] = y] /\ y \in SessionRecord
  <2>1. x5[c] \in SessionRecord /\ x5 = [x5 EXCEPT ![c] = x5[c]]
    BY InSound
  <2> QED BY <1>6, <2>1, DroppedType
<1> HIDE DEF y
<1> QED BY <1>1, <1>6, <1>8, <1>9, ConnStep

\* A read returned.
LEMMA ReadPop ==
  ASSUME SocketInv, NEW c \in Conns, sk[c].run # <<>>
  PROVE  Lives(KindOf(c), sk[c], [sk[c] EXCEPT !.run = Tail(@), !.rfly = FALSE])
         /\ Head(sk[c].run).b \in Seq(Int)
<1> DEFINE s == [sk[c] EXCEPT !.run = Tail(@)]
           k == KindOf(c)
<1>1. at[c] = "in"
  BY Active
<1>2. sk[c] \in SockRecord /\ EndInv(k, sk[c])
  BY <1>1, InSound
<1>3. /\ s \in SockRecord /\ EndInv(k, s) /\ Head(sk[c].run) \in Tasks
  BY <1>2, PopKeeps
<1>4. s.ends = sk[c].ends /\ [sk[c] EXCEPT !.run = Tail(@), !.rfly = FALSE] = [s EXCEPT !.rfly = FALSE]
  BY <1>2 DEF SockRecord
<1> HIDE DEF s
<1>5. Goes(s, [s EXCEPT !.rfly = FALSE])
  BY <1>3, ReadEndGoes
<1>6. Lives(k, s, [s EXCEPT !.rfly = FALSE])
  BY <1>3, <1>5, GoesLives
<1> QED BY <1>3, <1>4, <1>6 DEF Lives, Tasks

LEMMA RunReadStep == ASSUME SocketInv, NEW c \in Conns, RunRead(c) PROVE SocketInv'
<1> DEFINE s == [sk[c] EXCEPT !.run = Tail(@), !.rfly = FALSE]
           b == Head(sk[c].run).b
           k == KindOf(c)
           o == [s |-> s, x |-> x5[c]]
           p == IF Socks(c) THEN SessionData(o, b) ELSE [s |-> [s EXCEPT !.fed = @ \o b], x |-> x5[c]]
           q == [p EXCEPT !.s = do_read(@)]
<1>1. at[c] = "in" /\ sk[c].run # <<>>
  BY Active DEF RunRead
<1>2. x5[c] \in SessionRecord
  BY InSound
<1>3. Lives(k, sk[c], s) /\ b \in Seq(Int)
  BY <1>1, ReadPop
<1>4. /\ sk' = [sk EXCEPT ![c] = q.s] /\ at' = at /\ ls' = ls /\ x5' = [x5 EXCEPT ![c] = q.x]
  BY DEF RunRead, SetPair, Set
<1> HIDE DEF s, b, k
<1>5. Lasts(k, sk[c], p)
  <2>1. CASE Socks(c)
    <3>1. o \in Pairs /\ o.s = s
      BY <1>2, <1>3 DEF Pairs, Lives
    <3> HIDE DEF o
    <3>2. Lasts(k, sk[c], o)
      BY <1>3, <3>1 DEF Lasts
    <3> QED BY <1>3, <2>1, <3>2, DataLasts
  <2>2. CASE ~Socks(c)
    <3> DEFINE fed == s.fed \o b
               a == [s EXCEPT !.fed = fed]
    <3>0. s \in SockRecord /\ EndInv(k, s) /\ s.ends = sk[c].ends
      BY <1>3 DEF Lives
    <3>1. fed \in Seq(Int)
      BY <1>3, <3>0, ConcatProperties DEF SockRecord
    <3>2. p = [s |-> a, x |-> x5[c]]
      BY <2>2, <3>0 DEF SockRecord
    <3> HIDE DEF fed
    <3>3. Goes(s, a)
      BY <3>0, <3>1 DEF SockRecord, Goes
    <3> HIDE DEF a
    <3>4. Lives(k, sk[c], a)
      BY <1>3, <3>0, <3>3, GoesLives, LivesTwice
    <3>5. a \in SockRecord
      BY <3>4 DEF Lives
    <3>6. p \in Pairs /\ p.s = a
      BY <1>2, <3>2, <3>5 DEF Pairs
    <3> QED BY <3>4, <3>6 DEF Lasts
  <2> QED BY <2>1, <2>2
<1> HIDE DEF p
<1>6. p \in Pairs /\ p.s \in SockRecord /\ p.x \in SessionRecord /\ Lives(k, sk[c], p.s) /\ EndInv(k, p.s)
  BY <1>5 DEF Lasts, Pairs, Lives
<1>7. q.s = do_read(p.s) /\ q.x = p.x
  BY <1>6 DEF Pairs
<1>8. Lives(k, sk[c], q.s)
  BY <1>6, <1>7, ReadGoes, GoesLives, LivesTwice
<1> HIDE DEF q
<1> QED BY <1>1, <1>4, <1>6, <1>7, <1>8, LiveStep DEF k

LEMMA ReadThrowsStep == ASSUME SocketInv, NEW c \in Conns, ReadThrows(c) PROVE SocketInv'
<1> DEFINE a == [sk[c] EXCEPT !.run = Tail(@), !.rfly = FALSE]
           r == Fail(a)
           k == KindOf(c)
<1>1. at[c] = "in" /\ sk[c].run # <<>>
  BY Active DEF ReadThrows
<1>2. Lives(k, sk[c], a)
  BY <1>1, ReadPop
<1>3. /\ sk' = [sk EXCEPT ![c] = r] /\ at' = at /\ x5' = x5
      /\ ls' = IF r.ends > sk[c].ends /\ KindOf(c) = "forward" THEN on_connection_closed(ls) ELSE ls
  BY DEF ReadThrows, Set
<1> HIDE DEF a
<1>4. Keeps(k, sk[c], r)
  BY <1>2, FailKeeps DEF Lives, Keeps
<1>5. x5[c] \in SessionRecord /\ x5 = [x5 EXCEPT ![c] = x5[c]]
  BY InSound
<1> HIDE DEF r
<1>6. x5' = [x5 EXCEPT ![c] = x5[c]]
  BY <1>3, <1>5
<1> QED BY <1>1, <1>3, <1>4, <1>5, <1>6, ConnStep

\* Steps of the connection alone.
LEMMA SetStep ==
  ASSUME SocketInv, NEW c \in Conns, at[c] = "in", NEW r, Lives(KindOf(c), sk[c], r), Set(c, r),
         x5' = x5, ls' = ls, at' = at
  PROVE  SocketInv'
<1>1. x5[c] \in SessionRecord /\ x5 = [x5 EXCEPT ![c] = x5[c]]
  BY InSound
<1>2. sk' = [sk EXCEPT ![c] = r] /\ x5' = [x5 EXCEPT ![c] = x5[c]]
  BY <1>1 DEF Set
<1> QED BY <1>1, <1>2, LiveStep

LEMMA KernelStep == ASSUME SocketInv, NEW c \in Conns, Kernel(c) PROVE SocketInv'
<1>1. at[c] = "in"
  BY Active DEF Kernel
<1>2. PICK r \in Completions(sk[c]) : Set(c, r)
  BY DEF Kernel
<1>3. Lives(KindOf(c), sk[c], r)
  BY <1>1, InSound, KernelLives
<1> QED BY <1>1, <1>2, <1>3, SetStep DEF Kernel

LEMMA CallsStep == ASSUME SocketInv, NEW c \in Conns, NEW k \in Ending \cup {"write", "pause", "resume", "start", "watch", "unwatch"}, Calls(c, k) PROVE SocketInv'
<1> DEFINE r == CASE k = "write" -> Write(sk[c])
              [] k = "pause" -> pause_read(sk[c])
              [] k = "resume" -> resume_read(sk[c])
              [] k \in {"shut", "close"} -> Post([sk[c] EXCEPT !.due = IF @ = -1 THEN sk[c].sent ELSE @], T(k))
              [] OTHER -> Post(sk[c], T(k))
<1>1. at[c] = "in" /\ Set(c, r) /\ x5' = x5 /\ ls' = ls /\ at' = at
  BY DEF Calls
<1>2. sk[c] \in SockRecord /\ EndInv(KindOf(c), sk[c])
  BY <1>1, InSound
<1>3. Lives(KindOf(c), sk[c], r)
  <2>1. CASE k = "write"
    BY <1>2, <2>1, WriteLives
  <2>2. CASE k = "pause"
    BY <1>2, <2>2, ReadEndGoes, GoesLives
  <2>3. CASE k = "resume"
    BY <1>2, <2>3, ResumeLives
  <2>4. CASE k \in {"shut", "close"}
    BY <1>2, <2>4, EndCallLives
  <2>5. CASE k \in {"force", "abort", "start", "watch", "unwatch"}
    <3>1. r = Post(sk[c], T(k))
      BY <2>5
    <3>2. T(k) \in Tasks /\ T(k).k \notin ConnectKinds
      BY <2>5, TaskOk
    <3> QED BY <1>2, <3>1, <3>2, PostLives
  <2> QED BY <2>1, <2>2, <2>3, <2>4, <2>5 DEF Ending
<1> HIDE DEF r
<1> QED BY <1>1, <1>3, SetStep

LEMMA PeerStep ==
  ASSUME SocketInv, NEW c \in Conns,
         (\E b \in Int : Sends(c, b)) \/ \E how \in {"fin", "rst"} : Finishes(c, how)
  PROVE  SocketInv'
<1>1. at[c] = "in" /\ x5' = x5 /\ ls' = ls /\ at' = at
  BY DEF Sends, Finishes
<1>2. sk[c] \in SockRecord /\ EndInv(KindOf(c), sk[c])
  BY <1>1, InSound
<1>3. CASE \E b \in Int : Sends(c, b)
  <2>1. PICK b \in Int : Set(c, PeerSends(sk[c], b))
    BY <1>3 DEF Sends
  <2>2. Lives(KindOf(c), sk[c], PeerSends(sk[c], b))
    BY <1>2, PeerLives
  <2> QED BY <1>1, <2>1, <2>2, SetStep
<1>4. CASE \E how \in {"fin", "rst"} : Finishes(c, how)
  <2>1. PICK how \in {"fin", "rst"} : Set(c, PeerEnds(sk[c], how))
    BY <1>4 DEF Finishes
  <2>2. 0 \in Int
    OBVIOUS
  <2>3. Lives(KindOf(c), sk[c], PeerEnds(sk[c], how))
    BY <1>2, <2>2, PeerLives
  <2> QED BY <1>1, <2>1, <2>3, SetStep
<1> QED BY <1>3, <1>4

LEMMA TunnelStep ==
  ASSUME SocketInv, NEW c \in Conns, TunnelConnects(c) \/ TunnelCallback(c) \/ TunnelFails(c)
  PROVE  SocketInv'
<1> DEFINE k == KindOf(c)
           p == Pair(c)
<1>1. at[c] = "in" /\ ls' = ls /\ at' = at
  BY Active DEF TunnelConnects, TunnelCallback, TunnelFails
<1>2. sk[c] \in SockRecord /\ EndInv(k, sk[c]) /\ x5[c] \in SessionRecord
  BY <1>1, InSound
<1>3. p \in Pairs /\ p.s = sk[c]
  BY <1>2 DEF Pair, Pairs
<1> HIDE DEF p
<1>4. Lasts(k, sk[c], p)
  BY <1>2, <1>3 DEF Lasts, Lives
<1>5. CASE TunnelConnects(c)
  <2> DEFINE y == [x5[c] EXCEPT !.tun = "Connected"]
  <2>1. x5' = [x5 EXCEPT ![c] = y] /\ sk' = sk
    BY <1>5 DEF TunnelConnects
  <2>2. y \in SessionRecord
    BY <1>2 DEF SessionRecord
  <2>3. sk' = [sk EXCEPT ![c] = sk[c]]
    BY <2>1 DEF SocketInv, SocketType
  <2>4. Lives(k, sk[c], sk[c])
    BY <1>2 DEF Lives
  <2> HIDE DEF y
  <2> QED BY <1>1, <2>1, <2>2, <2>3, <2>4, LiveStep
<1>6. CASE TunnelCallback(c) \/ TunnelFails(c)
  <2>1. PICK q : q \in {TunnelReady(p), TunnelRefused(p)} /\ SetPair(c, q)
    BY <1>6 DEF TunnelCallback, TunnelFails, p
  <2>2. Lasts(k, sk[c], q)
    BY <1>4, <2>1, ReadyLasts, RefusedLasts
  <2>3. Lives(k, sk[c], q.s) /\ q.x \in SessionRecord
    BY <2>2 DEF Lasts, Pairs
  <2>4. sk' = [sk EXCEPT ![c] = q.s] /\ x5' = [x5 EXCEPT ![c] = q.x]
    BY <2>1 DEF SetPair, Set
  <2> QED BY <1>1, <2>3, <2>4, LiveStep
<1> QED BY <1>5, <1>6

----------------------------------------------------------------------------
(* The listener, and new connections. *)

LEMMA ListenerStep ==
  ASSUME SocketInv, ls' \in ListenerRecord, ls'.count = ls.count, UNCHANGED <<sk, x5, at>>
  PROVE  SocketInv'
<1>1. Counted' = Counted
  BY DEF Counted
<1> QED BY <1>1 DEF SocketInv, SocketType, Untouched

LEMMA AcceptStep == ASSUME SocketInv, NEW c \in Conns, Accept(c) PROVE SocketInv'
<1>1. /\ sk \in [Conns -> SockRecord] /\ x5 \in [Conns -> SessionRecord] /\ ls \in ListenerRecord
      /\ at \in [Conns -> {"new", "waiting", "in"}]
  BY DEF SocketInv, SocketType
<1>2. /\ at[c] = "waiting" /\ KindOf(c) = "forward" /\ at' = [at EXCEPT ![c] = "in"]
      /\ ls' = Accepted(ls) /\ sk' = [sk EXCEPT ![c] = Fresh("Connected")] /\ x5' = x5
  BY DEF Accept, Set
<1>3. Fresh("Connected") \in SockRecord /\ Fresh("Connected").ends = 0
  BY FreshType
<1>4. EndInv(KindOf(c), Fresh("Connected"))
  BY FreshEnds
<1>5. ls' \in ListenerRecord /\ ls'.count = ls.count + 1
  BY <1>1, <1>2, ListenerType
<1>6. SocketType'
  BY <1>1, <1>2, <1>3, <1>5 DEF SocketType
<1>7. /\ at'[c] = "in" /\ sk'[c] = Fresh("Connected")
      /\ \A d \in Conns : d # c => at'[d] = at[d] /\ sk'[d] = sk[d] /\ x5'[d] = x5[d]
  BY <1>1, <1>2
<1>8. \A d \in Conns : at'[d] # "in" => Untouched(d)'
  BY <1>7 DEF SocketInv, Untouched
<1>9. \A d \in Conns : at'[d] = "in" => EndInv(KindOf(d), sk'[d])
  BY <1>4, <1>7 DEF SocketInv
<1>10. c \notin Counted /\ Counted' = Counted \cup {c}
  BY <1>2, <1>3, <1>7 DEF Counted
<1>11. IsFiniteSet(Counted) /\ ls.count = Cardinality(Counted)
  BY DEF SocketInv
<1>12. IsFiniteSet(Counted \cup {c}) /\ Cardinality(Counted \cup {c}) = Cardinality(Counted) + 1
  BY <1>10, <1>11, FS_AddElement, Zenon
<1>13. IsFiniteSet(Counted') /\ ls'.count = Cardinality(Counted')
  BY <1>5, <1>10, <1>11, <1>12
<1> QED BY <1>6, <1>8, <1>9, <1>13 DEF SocketInv

\* One that the listener does not count.
LEMMA OtherStep ==
  ASSUME SocketInv, NEW c \in Conns, KindOf(c) # "forward" \/ at'[c] # "in", at[c] # "in",
         NEW a \in {"waiting", "in"}, NEW r \in SockRecord,
         at' = [at EXCEPT ![c] = a], sk' = [sk EXCEPT ![c] = r], x5' = x5, ls' = ls,
         a = "in" => EndInv(KindOf(c), r), a # "in" => r = sk[c]
  PROVE  SocketInv'
<1>1. /\ sk \in [Conns -> SockRecord] /\ x5 \in [Conns -> SessionRecord] /\ ls \in ListenerRecord
      /\ at \in [Conns -> {"new", "waiting", "in"}]
  BY DEF SocketInv, SocketType
<1>2. SocketType'
  BY <1>1 DEF SocketType
<1>3. /\ at'[c] = a /\ sk'[c] = r /\ x5'[c] = x5[c]
      /\ \A d \in Conns : d # c => at'[d] = at[d] /\ sk'[d] = sk[d] /\ x5'[d] = x5[d]
  BY <1>1
<1>4. \A d \in Conns : at'[d] # "in" => Untouched(d)'
  BY <1>3 DEF SocketInv, Untouched
<1>5. \A d \in Conns : at'[d] = "in" => EndInv(KindOf(d), sk'[d])
  BY <1>3 DEF SocketInv
<1>6. Counted' = Counted
  BY <1>3 DEF Counted
<1> QED BY <1>2, <1>4, <1>5, <1>6 DEF SocketInv

LEMMA SocksAcceptStep == ASSUME SocketInv, NEW c \in Conns, SocksAccept(c) PROVE SocketInv'
<1> DEFINE f == Fresh("Connected")
           r == Post(f, T("start"))
<1>1. f \in SockRecord /\ EndInv(KindOf(c), f)
  BY FreshType, FreshEnds
<1>2. Lives(KindOf(c), f, r)
  BY <1>1, TaskOk, PostLives
<1>3. /\ at[c] = "waiting" /\ KindOf(c) = "socks" /\ at' = [at EXCEPT ![c] = "in"]
      /\ sk' = [sk EXCEPT ![c] = r] /\ x5' = x5 /\ ls' = ls
  BY DEF SocksAccept, Socks, Set
<1> HIDE DEF r
<1> QED BY <1>2, <1>3, OtherStep DEF Lives

LEMMA ArrivesStep == ASSUME SocketInv, NEW c \in Conns, Arrives(c) PROVE SocketInv'
<1>1. at[c] = "new" /\ sk[c] = Fresh("Disconnected") /\ sk[c] \in SockRecord /\ x5' = x5 /\ ls' = ls
  BY InSound DEF Arrives, SocketInv, Untouched
<1>2. CASE KindOf(c) = "target"
  <2> DEFINE ops == sk[c].ops \cup {"c"}
             r == [sk[c] EXCEPT !.st = "Connecting", !.ops = ops]
  <2>1. /\ sk[c].st = "Disconnected" /\ sk[c].ends = 0 /\ sk[c].told = 0 /\ sk[c].run = <<>>
    BY <1>1, FreshType
  <2>2. async_connect(sk[c]) = r
    BY <1>1, <2>1 DEF async_connect, SockRecord
  <2>3. ops \in SUBSET Operations
    BY <1>1 DEF SockRecord, Operations
  <2> HIDE DEF ops
  <2>4. r \in SockRecord /\ r.st = "Connecting" /\ r.ends = 0 /\ r.told = 0 /\ r.run = <<>> /\ r.ops = ops
    BY <1>1, <2>1, <2>3 DEF SockRecord
  <2> HIDE DEF r
  <2>5. Once(r.run, r.ops, "c", ConnectKinds) /\ r.ends <= 1 /\ r.told <= 1 /\ r.ends # 1
    <3>1. Len(<<>>) = 0
      OBVIOUS
    <3> QED BY <2>4, <3>1 DEF Once
  <2>6. EndInv(KindOf(c), r)
    BY <1>2, <2>4, <2>5 DEF EndInv
  <2>7. at' = [at EXCEPT ![c] = "in"] /\ sk' = [sk EXCEPT ![c] = r]
    BY <1>2, <2>2 DEF Arrives, Set
  <2> QED BY <1>1, <1>2, <2>4, <2>6, <2>7, OtherStep
<1>3. CASE KindOf(c) # "target"
  <2>1. at' = [at EXCEPT ![c] = "waiting"] /\ sk' = sk
    BY <1>3 DEF Arrives
  <2>2. sk' = [sk EXCEPT ![c] = sk[c]] /\ at'[c] = "waiting"
    BY <2>1 DEF SocketInv, SocketType
  <2> QED BY <1>1, <2>1, <2>2, OtherStep
<1> QED BY <1>2, <1>3

LEMMA SocketInit == Init => SocketInv
<1> SUFFICES ASSUME Init PROVE SocketInv
  OBVIOUS
<1>1. SocketType
  BY FreshType DEF Init, SocketType
<1>2. \A c \in Conns : at[c] = "new" /\ Untouched(c)
  BY DEF Init, Untouched
<1>3. Counted = {}
  BY <1>2 DEF Counted
<1>4. IsFiniteSet(Counted) /\ ls.count = Cardinality(Counted)
  <2>1. IsFiniteSet({}) /\ Cardinality({}) = 0
    BY FS_EmptySet, Zenon
  <2> QED BY <1>3, <2>1, FreshType DEF Init
<1> QED BY <1>1, <1>2, <1>4 DEF SocketInv

LEMMA SocketNext == SocketInv /\ [Next]_vars => SocketInv'
<1> SUFFICES ASSUME SocketInv, [Next]_vars PROVE SocketInv'
  OBVIOUS
<1>1. CASE Inside
  <2>1. ASSUME NEW c \in Conns, RunTask(c) \/ RunRead(c) \/ Kernel(c) \/ Accept(c) \/ SocksAccept(c)
                              \/ TunnelConnects(c) \/ TunnelCallback(c)
        PROVE  SocketInv'
    BY <2>1, RunTaskStep, RunReadStep, KernelStep, AcceptStep, SocksAcceptStep, TunnelStep
  <2>2. CASE Look \/ Claim
    <3>1. ls \in ListenerRecord
      BY DEF SocketInv, SocketType
    <3>2. ls' \in ListenerRecord /\ ls'.count = ls.count
      <4>1. ls' = Looks(ls) \/ ls' = [ls EXCEPT !.seen = @ - 1] \/ ls' = Claims(ls)
        BY <2>2 DEF Look, Claim
      <4>2. /\ Looks(ls) \in ListenerRecord /\ Looks(ls).count = ls.count
            /\ Claims(ls) \in ListenerRecord /\ Claims(ls).count = ls.count
            /\ [ls EXCEPT !.seen = @ - 1] \in ListenerRecord /\ [ls EXCEPT !.seen = @ - 1].count = ls.count
        BY <3>1, ListenerType
      <4> QED BY <4>1, <4>2
    <3> QED BY <2>2, <3>2, ListenerStep DEF Look, Claim
  <2> QED BY <1>1, <2>1, <2>2 DEF Inside
<1>2. CASE Outside
  <2>1. ASSUME NEW c \in Conns, Arrives(c) PROVE SocketInv'
    BY <2>1, ArrivesStep
  <2>2. ASSUME NEW c \in Conns,
               NEW k \in Ending \cup {"write", "pause", "resume", "start", "watch", "unwatch"}, Calls(c, k)
        PROVE  SocketInv'
    BY <2>2, CallsStep
  <2>3. ASSUME NEW c \in Conns, Sends(c, Said(c) + 1) PROVE SocketInv'
    <3>1. sk[c] \in SockRecord
      BY InSound
    <3>2. Len(sk[c].sentIn) \in Nat
      BY <3>1, LenProperties DEF SockRecord
    <3>3. Said(c) + 1 \in Int
      BY <3>2 DEF Said
    <3> QED BY <2>3, <3>3, PeerStep
  <2>4. ASSUME NEW c \in Conns, NEW b \in Messages, Sends(c, b) PROVE SocketInv'
    <3>1. b \in Int
      BY DEF Messages, Greet, GreetNoAuth, Connect, HttpConnect
    <3> QED BY <2>4, <3>1, PeerStep
  <2>5. ASSUME NEW c \in Conns, NEW how \in {"fin", "rst"}, Finishes(c, how) PROVE SocketInv'
    BY <2>5, PeerStep
  <2>6. ASSUME NEW c \in Conns, ReadThrows(c) \/ TunnelFails(c) PROVE SocketInv'
    BY <2>6, ReadThrowsStep, TunnelStep
  <2>7. ASSUME \/ ls' = AcceptFailed(ls) \/ ls' = StopListening(ls)
               \/ ls' = set_max_connections(ls, ls.max + 1),
               UNCHANGED <<sk, x5, at>>
        PROVE  SocketInv'
    <3>1. ls \in ListenerRecord /\ ls.max + 1 \in Int
      BY DEF SocketInv, SocketType, ListenerRecord
    <3>2. ls' \in ListenerRecord /\ ls'.count = ls.count
      BY <2>7, <3>1, ListenerType
    <3> QED BY <2>7, <3>2, ListenerStep
  <2> QED BY <1>2, <2>1, <2>2, <2>3, <2>4, <2>5, <2>6, <2>7 DEF Outside
<1>3. CASE UNCHANGED vars
  <2>1. sk' = sk /\ x5' = x5 /\ ls' = ls /\ at' = at
    BY <1>3 DEF vars
  <2>2. ls' \in ListenerRecord /\ ls'.count = ls.count
    BY <2>1 DEF SocketInv, SocketType
  <2> QED BY <2>1, <2>2, ListenerStep
<1> QED BY <1>1, <1>2, <1>3 DEF Next

LEMMA SocketInvEnds == SocketInv => EndsOnce
<1> SUFFICES ASSUME SocketInv PROVE EndsOnce
  OBVIOUS
<1>1. ASSUME NEW c \in Conns PROVE sk[c].ends <= 1 /\ sk[c].told <= 1
  <2>1. CASE at[c] = "in"
    BY <2>1 DEF SocketInv, EndInv
  <2>2. CASE at[c] # "in"
    <3>1. sk[c].ends = 0 /\ sk[c].told = 0
      BY <2>2, FreshType DEF SocketInv, Untouched
    <3> QED BY <3>1
  <2> QED BY <2>1, <2>2
<1>2. ASSUME NEW c \in Conns, KindOf(c) # "target", at[c] = "in", sk[c].st = "Disconnected"
      PROVE  sk[c].ends = 1
  BY <1>2 DEF SocketInv, EndInv
<1> QED BY <1>1, <1>2 DEF EndsOnce, SocketInv, Counted

\* The inductive invariant of the local sockets: every record is well formed, a
\* connection that was not accepted has done nothing, the handler of a connect is
\* pending or queued at most once and only for a target, and the listener's count
\* is the number of open connections it accepted.
THEOREM SocketInvariant == Spec => []SocketInv
BY SocketInit, SocketNext, PTL DEF Spec

\* However calls, handlers and the peer interleave, do_close() tells of a
\* connection's end once, async_connect() of its outcome once, and
\* connection_count_ is exactly the number of accepted connections still open.
THEOREM EndsOnceHolds == Spec => []EndsOnce
BY SocketInvariant, SocketInvEnds, PTL
=============================================================================
