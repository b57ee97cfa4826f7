--------------------------- MODULE ManagerProofs ----------------------------
(***************************************************************************)
(* TunnelManager for any ids, objects, handlers, caps, timeout and         *)
(* scenarios: the ids, then the reaper and the keepalive, then the retry   *)
(* queue, each by an invariant of its own.  What an invalidation found     *)
(* parked stays off the wire, and with one drain at a time no frame        *)
(* overtakes a parked one.                                                 *)
(***************************************************************************)
EXTENDS TunnelManager, FiniteSetTheorems, WellFoundedInduction, TLAPS

----------------------------------------------------------------------------
(* Ids: the inductive invariant. *)

ObjRecord == [id : 0 .. MaxId, reg : {"none", "refused", "reserved", "added"},
              st : {"none", "live", "owing", "silent"}, hook : BOOLEAN,
              rm : {"none", "hook", "close", "done"}, asks : BOOLEAN]

\* A maintenance pass that fetched an object has its id.
PassRecord == {r \in [todo : SUBSET Ids, id : 0 .. MaxId, obj : Objs \cup {NoObj}] :
                 r.obj /= NoObj => r.id \in Ids}

TableType ==
  /\ used \in [Ids -> BOOLEAN] /\ next \in Ids
  /\ tun \in [Ids -> Objs \cup {NoObj}]
  /\ ob \in [Objs -> ObjRecord]
  /\ rp \in [Handlers -> PassRecord]

\* Who answers for an id: a registration under way, the map, a removal that has
\* not yet handed the id over, or the release hook.
Holder(o) ==
  \/ ob[o].reg = "reserved" \/ (ob[o].id \in Ids /\ tun[ob[o].id] = o)
  \/ ob[o].hook \/ ob[o].rm = "hook"

\* An object in the map has its id there and no removal of it has begun.
MapInv ==
  \A i \in Ids : tun[i] /= NoObj =>
    LET o == tun[i] IN ob[o].id = i /\ ob[o].reg = "added" /\ ob[o].rm = "none" /\ ~ob[o].hook

ObjInv(o) ==
  /\ ob[o].reg \in {"reserved", "added"} => ob[o].id \in Ids
  /\ ob[o].st /= "none" \/ ob[o].hook \/ ob[o].rm /= "none" \/ ob[o].asks => ob[o].reg = "added"
  /\ ob[o].rm = "hook" => ~ob[o].hook
  /\ ob[o].st \in {"live", "owing"} => Holder(o)
  /\ Holder(o) => used[ob[o].id]

OneHolder == \A o, p \in Objs : Holder(o) /\ Holder(p) /\ ob[o].id = ob[p].id => o = p
UsedHeld == \A i \in Ids : used[i] => \E o \in Objs : Holder(o) /\ ob[o].id = i

IdInv == TableType /\ MapInv /\ (\A o \in Objs : ObjInv(o)) /\ OneHolder /\ UsedHeld

----------------------------------------------------------------------------
(* Facts about the table. *)

\* A non-empty set of numbers has a least one.
LEMMA LeastOf == ASSUME NEW T \in SUBSET Nat, T /= {} PROVE \E x \in T : \A y \in T : x <= y
<1>1. PICK x \in T : \A y \in T : ~ (<<y, x>> \in OpToRel(<, Nat))
  BY NatLessThanWellFounded, WFMin
<1>2. \A y \in T : ~ (y < x)
  BY <1>1 DEF OpToRel
<1> QED BY <1>2

LEMMA RoundType == ASSUME NEW n \in Nat, NEW m \in Nat \ {0} PROVE (n % m) + 1 \in 1 .. m
OBVIOUS

\* find_available_id() finds a free id, or none.
LEMMA FindAvailable ==
  ASSUME TableType
  PROVE  find_available_id = 0 \/ (find_available_id \in Ids /\ ~used[find_available_id])
<1> DEFINE order == [k \in 1 .. MaxId |-> ((next + k - 2) % MaxId) + 1]
           free == {k \in 1 .. MaxId : ~used[order[k]]}
<1>1. MaxId \in Nat \ {0} /\ next \in 1 .. MaxId
  BY ManagerAssumption DEF TableType, Ids
<1>2. \A k \in 1 .. MaxId : order[k] \in 1 .. MaxId
  <2> TAKE k \in 1 .. MaxId
  <2>1. next + k - 2 \in Nat
    BY <1>1
  <2>2. order[k] = ((next + k - 2) % MaxId) + 1
    OBVIOUS
  <2> HIDE DEF order
  <2> QED BY <1>1, <2>1, <2>2, RoundType
<1> HIDE DEF order
<1>3. CASE free = {}
  BY <1>3 DEF find_available_id, order
<1>4. CASE free /= {}
  <2> DEFINE k == CHOOSE j \in free : \A l \in free : j <= l
  <2>1. free \in SUBSET Nat
    BY <1>1
  <2>2. \E j \in free : \A l \in free : j <= l
    BY <1>4, <2>1, LeastOf
  <2>3. k \in free
    BY <2>2
  <2>4. find_available_id = order[k]
    BY <1>4 DEF find_available_id, order
  <2> HIDE DEF k
  <2>5. order[k] \in Ids /\ ~used[order[k]]
    BY <1>2, <2>3 DEF Ids
  <2> QED BY <2>4, <2>5
<1> QED BY <1>3, <1>4

LEMMA TableFacts ==
  /\ MaxId \in Nat \ {0} /\ Ids \subseteq 0 .. MaxId /\ 0 \notin Ids /\ NoObj \notin Objs
BY ManagerAssumption DEF Ids, NoObj

\* A holder has an id, and it is marked used.
LEMMA HolderFacts ==
  ASSUME IdInv, NEW o \in Objs, Holder(o)
  PROVE  ob[o].id \in Ids /\ used[ob[o].id] /\ ob[o].reg \in {"reserved", "added"}
<1>1. ObjInv(o) /\ MapInv
  BY DEF IdInv
<1>2. CASE ob[o].id \in Ids /\ tun[ob[o].id] = o
  <2>1. o /= NoObj
    BY TableFacts
  <2> QED BY <1>1, <1>2, <2>1 DEF MapInv, ObjInv
<1>3. CASE ob[o].reg = "reserved" \/ ob[o].hook \/ ob[o].rm = "hook"
  BY <1>1, <1>3 DEF ObjInv
<1> QED BY <1>2, <1>3 DEF Holder

\* A step that frees nothing and reserves nothing.
LEMMA KeepHolders ==
  ASSUME IdInv, TableType', MapInv', UNCHANGED used,
         \A o \in Objs :
           /\ ob'[o].id = ob[o].id /\ ob'[o].reg = ob[o].reg /\ (Holder(o)' <=> Holder(o))
           /\ ob'[o].st /= "none" \/ ob'[o].hook \/ ob'[o].rm /= "none" \/ ob'[o].asks
                => ob[o].reg = "added"
           /\ ob'[o].rm = "hook" => ~ob'[o].hook
           /\ ob'[o].st \in {"live", "owing"} => ob[o].st \in {"live", "owing"}
  PROVE  IdInv'
<1>1. \A o \in Objs : ObjInv(o)'
  <2> TAKE o \in Objs
  <2>1. ObjInv(o)
    BY DEF IdInv
  <2>2. Holder(o) => used[ob[o].id]
    BY <2>1 DEF ObjInv
  <2>3. Holder(o)' => used'[ob'[o].id]
    BY <2>2
  <2>4. ob'[o].st \in {"live", "owing"} => Holder(o)'
    BY <2>1 DEF ObjInv
  <2>5. ob'[o].reg \in {"reserved", "added"} => ob'[o].id \in Ids
    BY <2>1 DEF ObjInv
  <2> QED BY <2>3, <2>4, <2>5 DEF ObjInv, Ids
<1>2. OneHolder'
  BY DEF OneHolder, IdInv
<1>3. UsedHeld'
  <2> SUFFICES ASSUME NEW i \in Ids, used[i] PROVE \E o \in Objs : Holder(o)' /\ ob'[o].id = i
    BY DEF UsedHeld, Ids
  <2>1. PICK o \in Objs : Holder(o) /\ ob[o].id = i
    BY DEF IdInv, UsedHeld
  <2> QED BY <2>1
<1> QED BY <1>1, <1>2, <1>3 DEF IdInv

\* The objects at the ids D leave the map: the removal answers for their ids.
LEMMA DetachStep ==
  ASSUME IdInv, NEW D \in SUBSET Ids, NEW G, \A o \in Objs : o \in G <=> \E i \in D : tun[i] = o,
         tun' = Without(D), ob' \in [Objs -> ObjRecord], UNCHANGED <<used, next>>,
         rp' \in [Handlers -> PassRecord],
         \A o \in Objs :
           /\ ob'[o].id = ob[o].id /\ ob'[o].reg = ob[o].reg /\ ob'[o].st = ob[o].st
           /\ ob'[o].hook = ob[o].hook /\ (ob'[o].asks => ob[o].asks)
           /\ ob'[o].rm = IF o \in G THEN "hook" ELSE ob[o].rm
  PROVE  IdInv'
<1>1. /\ tun \in [Ids -> Objs \cup {NoObj}] /\ used \in [Ids -> BOOLEAN] /\ next \in Ids
      /\ MapInv /\ \A o \in Objs : ObjInv(o)
  BY DEF IdInv, TableType
<1>2. \A i \in Ids : tun'[i] = IF i \in D THEN NoObj ELSE tun[i]
  BY DEF Without
<1>3. tun' \in [Ids -> Objs \cup {NoObj}]
  BY <1>1 DEF Without
<1>4. TableType'
  BY <1>1, <1>3 DEF TableType, Ids, ObjRecord, PassRecord, NoObj
<1>5. \A o \in G \cap Objs :
        /\ ob[o].id \in D /\ tun[ob[o].id] = o /\ ob[o].rm = "none" /\ ~ob[o].hook
        /\ ob[o].reg = "added"
  <2> TAKE o \in G \cap Objs
  <2>1. PICK i \in D : tun[i] = o
    OBVIOUS
  <2>2. o /= NoObj
    BY TableFacts
  <2> QED BY <1>1, <2>1, <2>2 DEF MapInv
<1>6. MapInv'
  <2> SUFFICES ASSUME NEW i \in Ids, tun'[i] /= NoObj
               PROVE  LET o == tun'[i]
                      IN ob'[o].id = i /\ ob'[o].reg = "added" /\ ob'[o].rm = "none" /\ ~ob'[o].hook
    BY DEF MapInv, Ids, NoObj
  <2> DEFINE o == tun'[i]
  <2>1. o = tun[i] /\ i \notin D /\ o \in Objs
    BY <1>1, <1>2
  <2>2. ob[o].id = i /\ ob[o].reg = "added" /\ ob[o].rm = "none" /\ ~ob[o].hook
    BY <1>1, <2>1 DEF MapInv
  <2>3. o \notin G
    BY <1>5, <2>1, <2>2
  <2> QED BY <2>1, <2>2, <2>3
<1>7. \A o \in Objs : Holder(o)' <=> Holder(o)
  <2> TAKE o \in Objs
  <2>1. CASE o \in G
    BY <1>5, <2>1 DEF Holder
  <2>2. CASE o \notin G
    <3>1. \A i \in Ids : tun'[i] = o <=> tun[i] = o
      <4> TAKE i \in Ids
      <4>1. CASE i \in D
        <5>1. tun[i] /= o
          BY <2>2, <4>1
        <5> QED BY <1>2, <4>1, <5>1, TableFacts
      <4>2. CASE i \notin D
        BY <1>2, <4>2
      <4> QED BY <4>1, <4>2
    <3> QED BY <2>2, <3>1 DEF Holder, Ids
  <2> QED BY <2>1, <2>2
<1>8. \A o \in Objs :
        /\ ob'[o].st /= "none" \/ ob'[o].hook \/ ob'[o].rm /= "none" \/ ob'[o].asks
             => ob[o].reg = "added"
        /\ ob'[o].rm = "hook" => ~ob'[o].hook
  <2> TAKE o \in Objs
  <2>1. ObjInv(o)
    BY <1>1
  <2> QED BY <1>5, <2>1 DEF ObjInv
<1> QED BY <1>4, <1>6, <1>7, <1>8, KeepHolders

----------------------------------------------------------------------------
(* Ids: the steps. *)

\* Every object as it was, but for one field of one of them.
LEMMA ObTypes == ASSUME IdInv, NEW o \in Objs PROVE ob[o] \in ObjRecord /\ ob \in [Objs -> ObjRecord]
BY DEF IdInv, TableType

\* An id is reserved for an object that had none.
LEMMA ReserveStep ==
  ASSUME IdInv, NEW o \in Objs, ob[o].reg = "none", NEW i \in Ids, ~used[i],
         NEW r \in ObjRecord, ob' = [ob EXCEPT ![o] = r], r.reg = "reserved", r.id = i,
         r.st = ob[o].st, r.hook = ob[o].hook, r.rm = ob[o].rm, r.asks = ob[o].asks,
         used' = [used EXCEPT ![i] = TRUE], next' \in Ids, UNCHANGED <<tun, rp>>
  PROVE  IdInv'
<1>1. ob \in [Objs -> ObjRecord] /\ used \in [Ids -> BOOLEAN]
  BY DEF IdInv, TableType
<1>2. ob'[o] = r /\ \A p \in Objs : p /= o => ob'[p] = ob[p]
  BY <1>1
<1>3. ob'[o].reg = "reserved" /\ ob'[o].id = i
  BY <1>2
<1>4. TableType'
  <2>1. ob' \in [Objs -> ObjRecord]
    BY <1>1
  <2> QED BY <1>1, <2>1 DEF IdInv, TableType, Ids, ObjRecord, PassRecord, NoObj
<1>5. ObjInv(o) /\ ob[o].st = "none" /\ ~ob[o].hook /\ ob[o].rm = "none" /\ ~ob[o].asks
  BY DEF IdInv, ObjInv
<1>6. \A j \in Ids : tun[j] /= o
  BY TableFacts DEF IdInv, MapInv
<1>7. MapInv'
  <2> SUFFICES ASSUME NEW j \in Ids, tun[j] /= NoObj
               PROVE  LET p == tun[j]
                      IN ob'[p].id = j /\ ob'[p].reg = "added" /\ ob'[p].rm = "none" /\ ~ob'[p].hook
    BY DEF MapInv, Ids, NoObj
  <2>1. tun[j] \in Objs /\ tun[j] /= o
    BY <1>6 DEF IdInv, TableType
  <2> QED BY <1>2, <2>1 DEF IdInv, MapInv
<1>8. Holder(o)' /\ \A p \in Objs : p /= o => (Holder(p)' <=> Holder(p))
  BY <1>2, <1>3 DEF Holder, Ids
<1>9. \A p \in Objs : p /= o /\ Holder(p) => ob[p].id \in Ids /\ used[ob[p].id] /\ ob[p].id /= i
  <2> TAKE p \in Objs
  <2> HAVE p /= o /\ Holder(p)
  <2> QED BY HolderFacts
<1>10. ASSUME NEW p \in Objs PROVE ObjInv(p)'
  <2>1. CASE p = o
    <3>1. used'[i]
      BY <1>1
    <3>2. ob'[o].st = "none" /\ ~ob'[o].hook /\ ob'[o].rm = "none" /\ ~ob'[o].asks
      BY <1>2, <1>5
    <3> QED BY <1>3, <1>8, <2>1, <3>1, <3>2 DEF ObjInv, Ids
  <2>2. CASE p /= o
    <3>1. ObjInv(p)
      BY DEF IdInv
    <3>2. Holder(p)' => used'[ob'[p].id]
      BY <1>1, <1>2, <1>8, <1>9, <2>2
    <3> QED BY <1>2, <1>8, <2>2, <3>1, <3>2 DEF ObjInv, Ids
  <2> QED BY <2>1, <2>2
<1>11. OneHolder'
  <2> SUFFICES ASSUME NEW a \in Objs, NEW b \in Objs, Holder(a)', Holder(b)', ob'[a].id = ob'[b].id
               PROVE  a = b
    BY DEF OneHolder
  <2>1. CASE a /= o /\ b /= o
    BY <1>2, <1>8, <2>1 DEF IdInv, OneHolder
  <2>2. CASE a = o \/ b = o
    BY <1>2, <1>3, <1>8, <1>9, <2>2
  <2> QED BY <2>1, <2>2
<1>12. UsedHeld'
  <2> SUFFICES ASSUME NEW j \in Ids, used'[j] PROVE \E p \in Objs : Holder(p)' /\ ob'[p].id = j
    BY DEF UsedHeld, Ids
  <2>1. CASE j = i
    BY <1>3, <1>8, <2>1
  <2>2. CASE j /= i
    <3>1. used[j]
      BY <1>1, <2>2
    <3>2. PICK p \in Objs : Holder(p) /\ ob[p].id = j
      BY <3>1 DEF IdInv, UsedHeld
    <3>3. p /= o
      BY <1>5, <1>6, <3>2 DEF Holder
    <3> QED BY <1>2, <1>8, <3>2, <3>3
  <2> QED BY <2>1, <2>2
<1> QED BY <1>4, <1>7, <1>10, <1>11, <1>12 DEF IdInv

\* One object that changes no more than its registration's refusal, its life or
\* its removal, and stays the holder it was.
LEMMA ObjectStep ==
  ASSUME IdInv, NEW o \in Objs, NEW r \in ObjRecord, ob' = [ob EXCEPT ![o] = r],
         UNCHANGED <<used, tun>>, next' \in Ids,
         rp' \in [Handlers -> PassRecord],
         r.id = ob[o].id, r.reg = ob[o].reg,
         r.hook \/ r.rm = "hook" <=> ob[o].hook \/ ob[o].rm = "hook",
         (\E i \in Ids : tun[i] = o) => r.rm = "none" /\ ~r.hook,
         r.st /= "none" \/ r.hook \/ r.rm /= "none" \/ r.asks => r.reg = "added",
         r.rm = "hook" => ~r.hook,
         r.st \in {"live", "owing"} => ob[o].st \in {"live", "owing"}
  PROVE  IdInv'
<1>1. ob'[o] = r /\ \A p \in Objs : p /= o => ob'[p] = ob[p]
  BY DEF IdInv, TableType
<1>2. TableType'
  BY DEF IdInv, TableType, Ids, ObjRecord, PassRecord, NoObj
<1>3. MapInv'
  <2> SUFFICES ASSUME NEW j \in Ids, tun[j] /= NoObj
               PROVE  LET p == tun[j]
                      IN ob'[p].id = j /\ ob'[p].reg = "added" /\ ob'[p].rm = "none" /\ ~ob'[p].hook
    BY DEF MapInv, Ids, NoObj
  <2>1. tun[j] \in Objs
    BY DEF IdInv, TableType
  <2> QED BY <1>1, <2>1 DEF IdInv, MapInv
<1>4. \A p \in Objs : Holder(p)' <=> Holder(p)
  BY <1>1 DEF Holder, Ids
<1>5. \A p \in Objs : ObjInv(p)
  BY DEF IdInv
<1> QED BY <1>1, <1>2, <1>3, <1>4, <1>5, KeepHolders DEF ObjInv

\* The one holder of an id gives it back.
LEMMA ReleaseStep ==
  ASSUME IdInv, NEW o \in Objs, Holder(o), \A i \in Ids : tun[i] /= o,
         NEW r \in ObjRecord, ob' = [ob EXCEPT ![o] = r],
         used' = [used EXCEPT ![ob[o].id] = FALSE], UNCHANGED <<next, tun, rp>>,
         r.id = ob[o].id, r.reg /= "reserved", ~r.hook, r.rm /= "hook", r.st \notin {"live", "owing"},
         r.st /= "none" \/ r.rm /= "none" \/ r.asks => r.reg = "added"
  PROVE  IdInv'
<1>1. ob \in [Objs -> ObjRecord] /\ used \in [Ids -> BOOLEAN] /\ ob[o].id \in Ids
  BY HolderFacts DEF IdInv, TableType
<1>2. ob'[o] = r /\ \A p \in Objs : p /= o => ob'[p] = ob[p]
  BY <1>1
<1>3. TableType'
  <2>1. ob' \in [Objs -> ObjRecord] /\ used' \in [Ids -> BOOLEAN]
    BY <1>1
  <2> QED BY <2>1 DEF IdInv, TableType, Ids, ObjRecord, PassRecord, NoObj
<1>4. MapInv'
  <2> SUFFICES ASSUME NEW j \in Ids, tun[j] /= NoObj
               PROVE  LET p == tun[j]
                      IN ob'[p].id = j /\ ob'[p].reg = "added" /\ ob'[p].rm = "none" /\ ~ob'[p].hook
    BY DEF MapInv, Ids, NoObj
  <2>1. tun[j] \in Objs /\ tun[j] /= o
    BY DEF IdInv, TableType
  <2> QED BY <1>2, <2>1 DEF IdInv, MapInv
<1>5. ~Holder(o)' /\ \A p \in Objs : p /= o => (Holder(p)' <=> Holder(p))
  BY <1>1, <1>2 DEF Holder, Ids
<1>6. \A p \in Objs : p /= o /\ Holder(p) => ob[p].id \in Ids /\ used[ob[p].id] /\ ob[p].id /= ob[o].id
  BY HolderFacts DEF IdInv, OneHolder
<1>7. ASSUME NEW p \in Objs PROVE ObjInv(p)'
  <2>1. CASE p = o
    BY <1>1, <1>2, <1>5, <2>1 DEF ObjInv, Ids
  <2>2. CASE p /= o
    <3>1. ObjInv(p)
      BY DEF IdInv
    <3>2. Holder(p)' => used'[ob'[p].id]
      BY <1>1, <1>2, <1>5, <1>6, <2>2
    <3> QED BY <1>2, <1>5, <2>2, <3>1, <3>2 DEF ObjInv, Ids
  <2> QED BY <2>1, <2>2
<1>8. OneHolder'
  BY <1>2, <1>5 DEF IdInv, OneHolder
<1>9. UsedHeld'
  <2> SUFFICES ASSUME NEW j \in Ids, used'[j] PROVE \E p \in Objs : Holder(p)' /\ ob'[p].id = j
    BY DEF UsedHeld, Ids
  <2>1. used[j] /\ j /= ob[o].id
    BY <1>1
  <2>2. PICK p \in Objs : Holder(p) /\ ob[p].id = j
    BY <2>1 DEF IdInv, UsedHeld
  <2> QED BY <1>2, <1>5, <2>1, <2>2
<1> QED BY <1>3, <1>4, <1>7, <1>8, <1>9 DEF IdInv

\* A reserved object enters the map: its place is free.
LEMMA MapStep ==
  ASSUME IdInv, NEW o \in Objs, ob[o].reg = "reserved",
         NEW r \in ObjRecord, ob' = [ob EXCEPT ![o] = r],
         used' = [used EXCEPT ![ob[o].id] = TRUE], tun' = [tun EXCEPT ![ob[o].id] = o],
         UNCHANGED <<next, rp>>,
         r.id = ob[o].id, r.reg = "added", r.hook = ob[o].hook, r.rm = ob[o].rm
  PROVE  IdInv'
<1> DEFINE i == ob[o].id
<1>1. /\ ob \in [Objs -> ObjRecord] /\ used \in [Ids -> BOOLEAN]
      /\ tun \in [Ids -> Objs \cup {NoObj}] /\ i \in Ids /\ Holder(o) /\ used[i]
  BY HolderFacts DEF IdInv, TableType, Holder
<1>2. ob'[o] = r /\ \A p \in Objs : p /= o => ob'[p] = ob[p]
  BY <1>1
<1>3. ~ob[o].hook /\ ob[o].rm = "none"
  BY DEF IdInv, ObjInv
<1>4. tun[i] = NoObj /\ \A j \in Ids : tun[j] /= o
  <2>1. \A j \in Ids : tun[j] /= o
    BY TableFacts DEF IdInv, MapInv
  <2>2. ASSUME tun[i] /= NoObj PROVE FALSE
    <3>1. tun[i] \in Objs /\ ob[tun[i]].id = i
      BY <1>1, <2>2 DEF IdInv, MapInv
    <3>2. Holder(tun[i])
      BY <1>1, <3>1 DEF Holder
    <3> QED BY <1>1, <2>1, <3>1, <3>2 DEF IdInv, OneHolder
  <2> QED BY <2>1, <2>2
<1> HIDE DEF i
<1>5. used' = used /\ \A j \in Ids : tun'[j] = IF j = i THEN o ELSE tun[j]
  BY <1>1 DEF i
<1>6. TableType'
  <2>1. ob' \in [Objs -> ObjRecord] /\ tun' \in [Ids -> Objs \cup {NoObj}]
    BY <1>1 DEF i
  <2> QED BY <1>5, <2>1 DEF IdInv, TableType, Ids, ObjRecord, PassRecord, NoObj
<1>7. MapInv'
  <2> SUFFICES ASSUME NEW j \in Ids, tun'[j] /= NoObj
               PROVE  LET p == tun'[j]
                      IN ob'[p].id = j /\ ob'[p].reg = "added" /\ ob'[p].rm = "none" /\ ~ob'[p].hook
    BY DEF MapInv, Ids, NoObj
  <2>1. CASE j = i
    BY <1>2, <1>3, <1>5, <2>1 DEF i
  <2>2. CASE j /= i
    <3>1. tun'[j] = tun[j] /\ tun[j] \in Objs /\ tun[j] /= o
      BY <1>1, <1>4, <1>5, <2>2
    <3> QED BY <1>2, <3>1 DEF IdInv, MapInv
  <2> QED BY <2>1, <2>2
<1>8. Holder(o)' /\ \A p \in Objs : p /= o => (Holder(p)' <=> Holder(p))
  <2>1. Holder(o)'
    BY <1>1, <1>2, <1>5 DEF Holder, Ids, i
  <2>2. ASSUME NEW p \in Objs, p /= o PROVE Holder(p)' <=> Holder(p)
    <3>1. \A j \in Ids : tun'[j] = p <=> tun[j] = p
      BY <1>4, <1>5, <2>2, TableFacts
    <3> QED BY <1>2, <2>2, <3>1 DEF Holder, Ids
  <2> QED BY <2>1, <2>2
<1>9. ASSUME NEW p \in Objs PROVE ObjInv(p)'
  <2>1. CASE p = o
    <3>1. r.id = i /\ used'[i]
      BY <1>1, <1>5 DEF i
    <3> QED BY <1>1, <1>2, <1>3, <1>8, <2>1, <3>1 DEF ObjInv, Ids
  <2>2. CASE p /= o
    <3>1. ObjInv(p)
      BY DEF IdInv
    <3> QED BY <1>2, <1>5, <1>8, <2>2, <3>1 DEF ObjInv, Ids
  <2> QED BY <2>1, <2>2
<1>10. \A p \in Objs : ob'[p].id = ob[p].id /\ (Holder(p)' <=> Holder(p))
  BY <1>1, <1>2, <1>8
<1>11. OneHolder'
  BY <1>10 DEF IdInv, OneHolder
<1>12. UsedHeld'
  <2> SUFFICES ASSUME NEW j \in Ids, used[j] PROVE \E p \in Objs : Holder(p)' /\ ob'[p].id = j
    BY <1>5 DEF UsedHeld, Ids
  <2>1. PICK p \in Objs : Holder(p) /\ ob[p].id = j
    BY DEF IdInv, UsedHeld
  <2> QED BY <1>10, <2>1
<1> QED BY <1>6, <1>7, <1>9, <1>11, <1>12 DEF IdInv

\* A registration is refused: no id was taken.
LEMMA RefuseStep ==
  ASSUME IdInv, NEW o \in Objs, ob[o].reg = "none", ob' = [ob EXCEPT ![o].reg = "refused"],
         UNCHANGED <<used, next, tun, rp>>
  PROVE  IdInv'
<1> DEFINE r == [ob[o] EXCEPT !.reg = "refused"]
<1>1. ob \in [Objs -> ObjRecord] /\ ob[o] \in ObjRecord
  BY ObTypes
<1>2. ob' = [ob EXCEPT ![o] = r]
  BY <1>1
<1>3. /\ r \in ObjRecord /\ r.reg = "refused" /\ r.id = ob[o].id /\ r.st = ob[o].st
      /\ r.hook = ob[o].hook /\ r.rm = ob[o].rm /\ r.asks = ob[o].asks
  BY <1>1 DEF ObjRecord
<1>4. ob[o].st = "none" /\ ~ob[o].hook /\ ob[o].rm = "none" /\ ~ob[o].asks /\ ObjInv(o)
  BY DEF IdInv, ObjInv
<1>5. \A i \in Ids : tun[i] /= o
  BY TableFacts DEF IdInv, MapInv
<1> HIDE DEF r
<1>6. ob'[o] = r /\ \A p \in Objs : p /= o => ob'[p] = ob[p]
  BY <1>1, <1>2
<1>7. TableType'
  <2>1. ob' \in [Objs -> ObjRecord]
    BY <1>1, <1>2, <1>3
  <2> QED BY <2>1 DEF IdInv, TableType, Ids, ObjRecord, PassRecord, NoObj
<1>8. MapInv'
  <2> SUFFICES ASSUME NEW j \in Ids, tun[j] /= NoObj
               PROVE  LET p == tun[j]
                      IN ob'[p].id = j /\ ob'[p].reg = "added" /\ ob'[p].rm = "none" /\ ~ob'[p].hook
    BY DEF MapInv, Ids, NoObj
  <2>1. tun[j] \in Objs /\ tun[j] /= o
    BY <1>5 DEF IdInv, TableType
  <2> QED BY <1>6, <2>1 DEF IdInv, MapInv
<1>9. ~Holder(o) /\ ~Holder(o)' /\ \A p \in Objs : p /= o => (Holder(p)' <=> Holder(p))
  BY <1>3, <1>4, <1>5, <1>6 DEF Holder, Ids
<1>10. ASSUME NEW p \in Objs PROVE ObjInv(p)'
  <2>1. CASE p = o
    BY <1>3, <1>4, <1>6, <1>9, <2>1 DEF ObjInv, Ids
  <2>2. CASE p /= o
    BY <1>6, <1>9, <2>2 DEF IdInv, ObjInv, Ids
  <2> QED BY <2>1, <2>2
<1>11. OneHolder'
  BY <1>6, <1>9 DEF IdInv, OneHolder
<1>12. UsedHeld'
  <2> SUFFICES ASSUME NEW j \in Ids, used[j] PROVE \E p \in Objs : Holder(p)' /\ ob'[p].id = j
    BY DEF UsedHeld, Ids
  <2>1. PICK p \in Objs : Holder(p) /\ ob[p].id = j
    BY DEF IdInv, UsedHeld
  <2>2. p /= o
    BY <1>9, <2>1
  <2> QED BY <1>6, <1>9, <2>1, <2>2
<1> QED BY <1>7, <1>8, <1>10, <1>11, <1>12 DEF IdInv

LEMMA SuccType == ASSUME NEW i \in Ids PROVE Succ(i) \in Ids
BY TableFacts DEF Succ, Ids

\* An id is taken for an object, by whoever chose it.
LEMMA TakeStep ==
  ASSUME IdInv, NEW o \in Objs, ob[o].reg = "none", NEW i \in Ids, ~used[i],
         ob' = [ob EXCEPT ![o].reg = "reserved", ![o].id = i],
         used' = [used EXCEPT ![i] = TRUE], next' \in Ids, UNCHANGED <<tun, rp>>
  PROVE  IdInv'
<1> DEFINE r == [ob[o] EXCEPT !.reg = "reserved", !.id = i]
<1>1. ob \in [Objs -> ObjRecord] /\ ob[o] \in ObjRecord /\ i \in 0 .. MaxId
  BY ObTypes, TableFacts
<1>2. ob' = [ob EXCEPT ![o] = r]
  BY <1>1
<1>3. /\ r \in ObjRecord /\ r.reg = "reserved" /\ r.id = i /\ r.st = ob[o].st
      /\ r.hook = ob[o].hook /\ r.rm = ob[o].rm /\ r.asks = ob[o].asks
  BY <1>1 DEF ObjRecord
<1> HIDE DEF r
<1> QED BY <1>2, <1>3, ReserveStep

LEMMA AllocateStep ==
  ASSUME IdInv, NEW o \in Objs, allocate_tunnel_id(o) PROVE IdInv'
<1> DEFINE i == find_available_id
<1>1. ob[o].reg = "none" /\ UNCHANGED <<tun, rp>>
  BY DEF allocate_tunnel_id
<1>2. CASE i = 0
  <2>1. ob' = [ob EXCEPT ![o].reg = "refused"] /\ UNCHANGED <<used, next>>
    BY <1>2 DEF allocate_tunnel_id
  <2> QED BY <1>1, <2>1, RefuseStep
<1>3. CASE i /= 0
  <2>1. i \in Ids /\ ~used[i]
    BY <1>3, FindAvailable DEF IdInv
  <2>2. /\ ob' = [ob EXCEPT ![o].reg = "reserved", ![o].id = i]
        /\ used' = [used EXCEPT ![i] = TRUE] /\ next' = Succ(i)
    BY <1>3 DEF allocate_tunnel_id
  <2> HIDE DEF i
  <2>3. next' \in Ids
    BY <2>1, <2>2, SuccType
  <2> QED BY <1>1, <2>1, <2>2, <2>3, TakeStep
<1> QED BY <1>2, <1>3

LEMMA IncomingStep ==
  ASSUME IdInv, NEW o \in Objs, NEW i \in Ids, handle_incoming_open(o, i) PROVE IdInv'
<1>1. ob[o].reg = "none" /\ UNCHANGED <<next, tun, rp>> /\ next' \in Ids
  BY DEF handle_incoming_open, IdInv, TableType
<1>2. CASE Cardinality(Mapped) >= MaxTunnels \/ used[i]
  <2>1. ob' = [ob EXCEPT ![o].reg = "refused"] /\ UNCHANGED used
    BY <1>2 DEF handle_incoming_open
  <2> QED BY <1>1, <2>1, RefuseStep
<1>3. CASE ~(Cardinality(Mapped) >= MaxTunnels \/ used[i])
  <2>1. ob' = [ob EXCEPT ![o].reg = "reserved", ![o].id = i] /\ used' = [used EXCEPT ![i] = TRUE]
    BY <1>3 DEF handle_incoming_open
  <2> QED BY <1>1, <1>3, <2>1, TakeStep
<1> QED BY <1>2, <1>3

LEMMA AddStep ==
  ASSUME IdInv, NEW o \in Objs, add_tunnel(o) PROVE IdInv'
<1>1. ob[o].reg = "reserved" /\ UNCHANGED <<next, rp>> /\ Holder(o)
  BY DEF add_tunnel, Holder
<1>2. ob \in [Objs -> ObjRecord] /\ ob[o] \in ObjRecord
  BY ObTypes
<1>3. ob[o].st = "none" /\ ~ob[o].hook /\ ob[o].rm = "none" /\ ~ob[o].asks
  BY <1>1 DEF IdInv, ObjInv
<1>4. \A i \in Ids : tun[i] /= o
  BY <1>1, TableFacts DEF IdInv, MapInv
<1>5. CASE Cardinality(Mapped) >= MaxTunnels
  <2> DEFINE r == [ob[o] EXCEPT !.reg = "refused"]
  <2>1. ob' = [ob EXCEPT ![o] = r] /\ used' = [used EXCEPT ![ob[o].id] = FALSE] /\ UNCHANGED tun
    BY <1>2, <1>5 DEF add_tunnel
  <2>2. /\ r \in ObjRecord /\ r.reg = "refused" /\ r.id = ob[o].id /\ r.st = ob[o].st
        /\ r.hook = ob[o].hook /\ r.rm = ob[o].rm /\ r.asks = ob[o].asks
    BY <1>2 DEF ObjRecord
  <2> HIDE DEF r
  <2> QED BY <1>1, <1>3, <1>4, <2>1, <2>2, ReleaseStep
<1>6. CASE ~(Cardinality(Mapped) >= MaxTunnels)
  <2> DEFINE r == [ob[o] EXCEPT !.reg = "added", !.st = "live"]
  <2>1. /\ ob' = [ob EXCEPT ![o] = r] /\ used' = [used EXCEPT ![ob[o].id] = TRUE]
        /\ tun' = [tun EXCEPT ![ob[o].id] = o]
    BY <1>2, <1>6 DEF add_tunnel
  <2>2. /\ r \in ObjRecord /\ r.reg = "added" /\ r.id = ob[o].id
        /\ r.hook = ob[o].hook /\ r.rm = ob[o].rm
    BY <1>2 DEF ObjRecord
  <2> HIDE DEF r
  <2> QED BY <1>1, <2>1, <2>2, MapStep
<1> QED BY <1>5, <1>6

\* What MapInv says of an object that is in the map.
LEMMA MappedFacts ==
  ASSUME IdInv, NEW o \in Objs, NEW i \in Ids, tun[i] = o
  PROVE  ob[o].id = i /\ ob[o].reg = "added" /\ ob[o].rm = "none" /\ ~ob[o].hook /\ Holder(o)
BY TableFacts DEF IdInv, MapInv, Holder

LEMMA PassTypes == ASSUME IdInv PROVE rp \in [Handlers -> PassRecord] /\ next \in Ids
BY DEF IdInv, TableType

LEMMA EndsStep ==
  ASSUME IdInv, NEW o \in Objs, NEW st \in {"owing", "silent"}, TunnelEnds(o, st) PROVE IdInv'
<1> DEFINE r == [ob[o] EXCEPT !.st = st, !.asks = TRUE]
<1>1. ob \in [Objs -> ObjRecord] /\ ob[o] \in ObjRecord
  BY ObTypes
<1>2. ob[o].reg = "added" /\ ob[o].st = "live" /\ UNCHANGED <<used, next, tun, rp>>
  BY DEF TunnelEnds
<1>3. ob' = [ob EXCEPT ![o] = r]
  BY <1>1 DEF TunnelEnds
<1>4. /\ r \in ObjRecord /\ r.reg = "added" /\ r.id = ob[o].id /\ r.reg = ob[o].reg
      /\ r.hook = ob[o].hook /\ r.rm = ob[o].rm
  BY <1>1, <1>2 DEF ObjRecord
<1> HIDE DEF r
<1>5. ob[o].rm = "hook" => ~ob[o].hook
  BY DEF IdInv, ObjInv
<1> QED BY <1>2, <1>3, <1>4, <1>5, MappedFacts, PassTypes, ObjectStep

LEMMA SilentStep ==
  ASSUME IdInv, NEW o \in Objs, TunnelSilent(o) PROVE IdInv'
<1> DEFINE r == [ob[o] EXCEPT !.st = "silent"]
<1>1. ob \in [Objs -> ObjRecord] /\ ob[o] \in ObjRecord
  BY ObTypes
<1>2. ob[o].st = "owing" /\ UNCHANGED <<used, next, tun, rp>>
  BY DEF TunnelSilent
<1>3. ob' = [ob EXCEPT ![o] = r]
  BY <1>1 DEF TunnelSilent
<1>4. /\ r \in ObjRecord /\ r.st = "silent" /\ r.id = ob[o].id /\ r.reg = ob[o].reg
      /\ r.hook = ob[o].hook /\ r.rm = ob[o].rm /\ r.asks = ob[o].asks
  BY <1>1 DEF ObjRecord
<1> HIDE DEF r
<1>5. ob[o].reg = "added" /\ (ob[o].rm = "hook" => ~ob[o].hook)
  BY <1>2 DEF IdInv, ObjInv
<1> QED BY <1>2, <1>3, <1>4, <1>5, MappedFacts, PassTypes, ObjectStep

LEMMA HookStep ==
  ASSUME IdInv, NEW o \in Objs, SetOnIdReleasable(o) PROVE IdInv'
<1> DEFINE r == [ob[o] EXCEPT !.rm = "close", !.hook = TRUE]
<1>1. ob \in [Objs -> ObjRecord] /\ ob[o] \in ObjRecord
  BY ObTypes
<1>2. ob[o].rm = "hook" /\ UNCHANGED <<used, next, tun, rp>>
  BY DEF SetOnIdReleasable
<1>3. ob' = [ob EXCEPT ![o] = r]
  BY <1>1 DEF SetOnIdReleasable
<1>4. /\ r \in ObjRecord /\ r.st = ob[o].st /\ r.id = ob[o].id /\ r.reg = ob[o].reg
      /\ r.hook /\ r.rm = "close" /\ r.asks = ob[o].asks
  BY <1>1 DEF ObjRecord
<1> HIDE DEF r
<1>5. ob[o].reg = "added"
  BY <1>2 DEF IdInv, ObjInv
<1> QED BY <1>2, <1>3, <1>4, <1>5, MappedFacts, PassTypes, ObjectStep

LEMMA TearStep ==
  ASSUME IdInv, NEW o \in Objs, NEW st \in {"owing", "silent"}, TearDown(o, st) PROVE IdInv'
<1> DEFINE r == [ob[o] EXCEPT !.rm = "done", !.st = IF @ = "live" THEN st ELSE @]
<1>1. ob \in [Objs -> ObjRecord] /\ ob[o] \in ObjRecord
  BY ObTypes
<1>2. ob[o].rm = "close" /\ UNCHANGED <<used, next, tun, rp>>
  BY DEF TearDown
<1>3. ob' = [ob EXCEPT ![o] = r]
  BY <1>1 DEF TearDown
<1>4. /\ r \in ObjRecord /\ r.id = ob[o].id /\ r.reg = ob[o].reg /\ r.rm = "done"
      /\ r.hook = ob[o].hook /\ r.st = IF ob[o].st = "live" THEN st ELSE ob[o].st
  BY <1>1 DEF ObjRecord
<1> HIDE DEF r
<1>5. ob[o].reg = "added"
  BY <1>2 DEF IdInv, ObjInv
<1> QED BY <1>2, <1>3, <1>4, <1>5, MappedFacts, PassTypes, ObjectStep

LEMMA ReleasableStep ==
  ASSUME IdInv, NEW o \in Objs, IdReleasable(o) PROVE IdInv'
<1> DEFINE r == [ob[o] EXCEPT !.hook = FALSE]
<1>1. ob \in [Objs -> ObjRecord] /\ ob[o] \in ObjRecord
  BY ObTypes
<1>2. /\ ob[o].hook /\ ob[o].st = "silent" /\ UNCHANGED <<next, tun, rp>> /\ Holder(o)
      /\ used' = [used EXCEPT ![ob[o].id] = FALSE]
  BY DEF IdReleasable, Holder
<1>3. ob' = [ob EXCEPT ![o] = r]
  BY <1>1 DEF IdReleasable
<1>4. /\ r \in ObjRecord /\ r.id = ob[o].id /\ r.reg = ob[o].reg /\ r.rm = ob[o].rm
      /\ ~r.hook /\ r.st = "silent"
  BY <1>1, <1>2 DEF ObjRecord
<1> HIDE DEF r
<1>5. ob[o].reg = "added" /\ ob[o].rm /= "hook"
  BY <1>2 DEF IdInv, ObjInv
<1>6. \A i \in Ids : tun[i] /= o
  BY <1>2, MappedFacts
<1> QED BY <1>2, <1>3, <1>4, <1>5, <1>6, ReleaseStep

\* The objects in gone, as a removal leaves them.
LEMMA DetachedFacts ==
  ASSUME IdInv, NEW gone
  PROVE  /\ Detached(gone) \in [Objs -> ObjRecord]
         /\ \A o \in Objs :
              LET d == Detached(gone)[o]
              IN  /\ d.id = ob[o].id /\ d.reg = ob[o].reg /\ d.st = ob[o].st
                  /\ d.hook = ob[o].hook /\ d.asks = ob[o].asks
                  /\ d.rm = IF o \in gone THEN "hook" ELSE ob[o].rm
<1>1. \A o \in Objs : ob[o] \in ObjRecord /\ [ob[o] EXCEPT !.rm = "hook"] \in ObjRecord
  BY ObTypes DEF ObjRecord
<1> QED BY <1>1 DEF Detached, ObjRecord

LEMMA RemoveIfStep ==
  ASSUME IdInv, NEW o \in Objs, remove_tunnel_if(o) PROVE IdInv'
<1> DEFINE i == ob[o].id
<1>1. ob[o].asks /\ UNCHANGED <<used, next, rp>> /\ rp' \in [Handlers -> PassRecord]
  BY PassTypes DEF remove_tunnel_if
<1>2. i \in Ids /\ ob[o].reg = "added"
  BY <1>1 DEF IdInv, ObjInv
<1>3. CASE tun[i] = o
  <2> DEFINE d == Detached({o})
             r == [d[o] EXCEPT !.asks = FALSE]
  <2>1. tun' = Without({i}) /\ ob' = [d EXCEPT ![o].asks = FALSE]
    BY <1>3 DEF remove_tunnel_if
  <2>2. d \in [Objs -> ObjRecord]
    BY DetachedFacts
  <2>3. \A p \in Objs : /\ d[p].id = ob[p].id /\ d[p].reg = ob[p].reg /\ d[p].st = ob[p].st
                        /\ d[p].hook = ob[p].hook /\ d[p].asks = ob[p].asks
                        /\ d[p].rm = IF p \in {o} THEN "hook" ELSE ob[p].rm
    BY DetachedFacts
  <2> HIDE DEF d
  <2>4. ob' = [d EXCEPT ![o] = r] /\ d[o] \in ObjRecord
    BY <2>1, <2>2
  <2>5. /\ r \in ObjRecord /\ r.id = d[o].id /\ r.reg = d[o].reg /\ r.st = d[o].st
        /\ r.hook = d[o].hook /\ ~r.asks /\ r.rm = d[o].rm
    BY <2>4 DEF ObjRecord
  <2> HIDE DEF r
  <2>6. ob' \in [Objs -> ObjRecord] /\ ob'[o] = r /\ \A p \in Objs : p /= o => ob'[p] = d[p]
    BY <2>2, <2>4, <2>5
  <2>7. \A p \in Objs :
          /\ ob'[p].id = ob[p].id /\ ob'[p].reg = ob[p].reg /\ ob'[p].st = ob[p].st
          /\ ob'[p].hook = ob[p].hook /\ (ob'[p].asks => ob[p].asks)
          /\ ob'[p].rm = IF p \in {o} THEN "hook" ELSE ob[p].rm
    BY <2>3, <2>5, <2>6
  <2> DEFINE D == {i}
             G == {o}
  <2>8. D \in SUBSET Ids /\ \A p \in Objs : p \in G <=> \E j \in D : tun[j] = p
    BY <1>2, <1>3
  <2>9. tun' = Without(D) /\ \A p \in Objs :
          /\ ob'[p].id = ob[p].id /\ ob'[p].reg = ob[p].reg /\ ob'[p].st = ob[p].st
          /\ ob'[p].hook = ob[p].hook /\ (ob'[p].asks => ob[p].asks)
          /\ ob'[p].rm = IF p \in G THEN "hook" ELSE ob[p].rm
    BY <2>1, <2>7
  <2> HIDE DEF i, D, G
  <2> QED BY <1>1, <2>6, <2>8, <2>9, DetachStep
<1>4. CASE tun[i] /= o
  <2> DEFINE r == [ob[o] EXCEPT !.asks = FALSE]
  <2>1. ob \in [Objs -> ObjRecord] /\ ob[o] \in ObjRecord
    BY ObTypes
  <2>2. ob' = [ob EXCEPT ![o] = r] /\ UNCHANGED tun
    BY <1>4, <2>1 DEF remove_tunnel_if
  <2>3. /\ r \in ObjRecord /\ r.id = ob[o].id /\ r.reg = ob[o].reg /\ r.rm = ob[o].rm
        /\ r.hook = ob[o].hook /\ r.st = ob[o].st
    BY <2>1 DEF ObjRecord
  <2> HIDE DEF r
  <2>4. ob[o].rm = "hook" => ~ob[o].hook
    BY DEF IdInv, ObjInv
  <2> QED BY <1>1, <1>2, <2>2, <2>3, <2>4, MappedFacts, PassTypes, ObjectStep
<1> QED BY <1>3, <1>4

\* One removal by id: whatever the map holds there.
LEMMA RemoveOne ==
  ASSUME IdInv, NEW i \in Ids, NEW x \in Objs, tun[i] = x, tun' = Without({i}), ob' = Detached({x}),
         UNCHANGED <<used, next, rp>>
  PROVE  IdInv'
<1>1. rp' \in [Handlers -> PassRecord]
  BY PassTypes
<1>2. ob' \in [Objs -> ObjRecord]
  BY DetachedFacts
<1> DEFINE D == {i}
           G == {x}
<1>3. tun' = Without(D) /\ \A p \in Objs :
          /\ ob'[p].id = ob[p].id /\ ob'[p].reg = ob[p].reg /\ ob'[p].st = ob[p].st
          /\ ob'[p].hook = ob[p].hook /\ (ob'[p].asks => ob[p].asks)
          /\ ob'[p].rm = IF p \in G THEN "hook" ELSE ob[p].rm
  BY DetachedFacts
<1>4. D \in SUBSET Ids /\ \A p \in Objs : p \in G <=> \E j \in D : tun[j] = p
  OBVIOUS
<1> HIDE DEF D, G
<1> QED BY <1>1, <1>2, <1>3, <1>4, DetachStep

\* Nothing of the table moves but a maintenance pass.
LEMMA PassStep ==
  ASSUME IdInv, UNCHANGED <<used, next, tun, ob>>, rp' \in [Handlers -> PassRecord] PROVE IdInv'
<1>1. TableType'
  BY DEF IdInv, TableType, Ids, ObjRecord, PassRecord, NoObj
<1>2. MapInv' /\ OneHolder' /\ UsedHeld' /\ \A o \in Objs : ObjInv(o)'
  BY DEF IdInv, MapInv, OneHolder, UsedHeld, ObjInv, Holder, Ids, NoObj
<1> QED BY <1>1, <1>2 DEF IdInv

LEMMA OpenRefusedStep ==
  ASSUME IdInv, NEW o \in Objs, OpenRefused(o) PROVE IdInv'
<1> DEFINE i == ob[o].id
           x == tun[i]
<1>1. ob[o].reg = "added" /\ UNCHANGED <<used, next, rp>>
  BY DEF OpenRefused
<1>2. i \in Ids
  BY <1>1 DEF IdInv, ObjInv
<1>3. CASE x = NoObj
  <2>1. UNCHANGED <<tun, ob>>
    BY <1>3 DEF OpenRefused
  <2> QED BY <1>1, <2>1, PassTypes, PassStep
<1>4. CASE x /= NoObj
  <2>1. tun' = Without({i}) /\ ob' = Detached({x})
    BY <1>4 DEF OpenRefused
  <2>2. x \in Objs
    BY <1>2, <1>4 DEF IdInv, TableType
  <2> HIDE DEF i
  <2> QED BY <1>1, <1>2, <2>1, <2>2, RemoveOne
<1> QED BY <1>3, <1>4

LEMMA ScanStep ==
  ASSUME IdInv, NEW h \in Handlers, ReapScan(h) PROVE IdInv'
<1>1. UNCHANGED <<used, next, tun, ob>>
  BY DEF ReapScan
<1>2. PICK ids \in SUBSET Ids : rp' = [rp EXCEPT ![h].todo = ids]
  BY DEF ReapScan, Mapped
<1>3. rp \in [Handlers -> PassRecord] /\ rp[h] \in PassRecord
  BY PassTypes
<1> DEFINE r == [rp[h] EXCEPT !.todo = ids]
<1>4. rp' = [rp EXCEPT ![h] = r]
  BY <1>2, <1>3
<1>5. r \in PassRecord
  BY <1>3 DEF PassRecord
<1> HIDE DEF r
<1>6. rp' \in [Handlers -> PassRecord]
  BY <1>3, <1>4, <1>5
<1> QED BY <1>1, <1>6, PassStep

LEMMA CloseStep ==
  ASSUME IdInv, NEW h \in Handlers, NEW st \in {"owing", "silent"}, ReapClose(h, st) PROVE IdInv'
<1>1. UNCHANGED <<used, next, tun>>
  BY DEF ReapClose
<1>2. rp \in [Handlers -> PassRecord] /\ rp[h] \in PassRecord /\ rp[h].todo \in SUBSET Ids
  BY PassTypes DEF PassRecord
<1>3. PICK i \in rp[h].todo :
        \/ (\E T \in SUBSET Ids : rp' = [rp EXCEPT ![h].todo = T]) /\ UNCHANGED ob
        \/ /\ tun[i] /= NoObj
           /\ rp' = [rp EXCEPT ![h] = [todo |-> @.todo \ {i}, id |-> i, obj |-> tun[i]]]
           /\ ob' = [ob EXCEPT ![tun[i]].st = IF @ = "live" THEN st ELSE @]
  <2>1. PICK i \in rp[h].todo :
          IF tun[i] = NoObj
          THEN rp' = [rp EXCEPT ![h].todo = @ \ {i}] /\ UNCHANGED <<ob, hd>>
          ELSE IF ~Current("reaper", h)
          THEN rp' = [rp EXCEPT ![h].todo = {}] /\ UNCHANGED <<ob, hd>>
          ELSE /\ rp' = [rp EXCEPT ![h] = [todo |-> @.todo \ {i}, id |-> i, obj |-> tun[i]]]
               /\ ob' = [ob EXCEPT ![tun[i]].st = IF @ = "live" THEN st ELSE @]
               /\ HandlerGoto("reaper", h, "remove")
    BY DEF ReapClose
  <2>2. rp[h].todo \ {i} \in SUBSET Ids /\ {} \in SUBSET Ids
    BY <1>2
  <2>3. CASE tun[i] = NoObj
    BY <2>1, <2>2, <2>3
  <2>4. CASE tun[i] /= NoObj /\ ~Current("reaper", h)
    BY <2>1, <2>2, <2>4
  <2>5. CASE tun[i] /= NoObj /\ Current("reaper", h)
    BY <2>1, <2>5
  <2> QED BY <2>3, <2>4, <2>5
<1>4. i \in Ids
  BY <1>2
<1>5. CASE (\E T \in SUBSET Ids : rp' = [rp EXCEPT ![h].todo = T]) /\ UNCHANGED ob
  <2>1. PICK T \in SUBSET Ids : rp' = [rp EXCEPT ![h].todo = T]
    BY <1>5
  <2> DEFINE r == [rp[h] EXCEPT !.todo = T]
  <2>2. rp' = [rp EXCEPT ![h] = r]
    BY <1>2, <2>1
  <2>3. r \in PassRecord
    BY <1>2 DEF PassRecord
  <2> HIDE DEF r
  <2>4. rp' \in [Handlers -> PassRecord]
    BY <1>2, <2>2, <2>3
  <2> QED BY <1>1, <1>5, <2>4, PassStep
<1>6. CASE /\ tun[i] /= NoObj
           /\ rp' = [rp EXCEPT ![h] = [todo |-> @.todo \ {i}, id |-> i, obj |-> tun[i]]]
           /\ ob' = [ob EXCEPT ![tun[i]].st = IF @ = "live" THEN st ELSE @]
  <2> DEFINE o == tun[i]
             r == [ob[o] EXCEPT !.st = IF @ = "live" THEN st ELSE @]
             n == [todo |-> rp[h].todo \ {i}, id |-> i, obj |-> o]
  <2>1. o \in Objs
    BY <1>4, <1>6 DEF IdInv, TableType
  <2>2. ob \in [Objs -> ObjRecord] /\ ob[o] \in ObjRecord
    BY <2>1, ObTypes
  <2>3. ob' = [ob EXCEPT ![o] = r]
    BY <1>6, <2>1, <2>2
  <2>4. /\ r \in ObjRecord /\ r.id = ob[o].id /\ r.reg = ob[o].reg /\ r.rm = ob[o].rm
        /\ r.hook = ob[o].hook /\ r.st = (IF ob[o].st = "live" THEN st ELSE ob[o].st)
    BY <2>2 DEF ObjRecord
  <2>5. rp' \in [Handlers -> PassRecord]
    <3>1. n \in PassRecord
      BY <1>2, <1>4, <2>1, TableFacts DEF PassRecord
    <3>2. rp' = [rp EXCEPT ![h] = n]
      BY <1>6
    <3> HIDE DEF n
    <3> QED BY <1>2, <3>1, <3>2
  <2>6. ob[o].id = i /\ ob[o].reg = "added" /\ ob[o].rm = "none" /\ ~ob[o].hook
    BY <1>4, <2>1, MappedFacts
  <2>7. next' \in Ids
    BY <1>1, PassTypes
  <2> HIDE DEF r, n, o
  <2> QED BY <1>1, <2>1, <2>3, <2>4, <2>5, <2>6, <2>7, ObjectStep
<1> QED BY <1>3, <1>5, <1>6

LEMMA RemoveStep ==
  ASSUME IdInv, NEW h \in Handlers, ReapRemove(h) PROVE IdInv'
<1> DEFINE i == rp[h].id
           x == rp[h].obj
<1>1. UNCHANGED <<used, next, rp>> /\ rp' \in [Handlers -> PassRecord]
  BY PassTypes DEF ReapRemove
<1>2. x \in Objs \cup {NoObj} /\ (x \in Objs => i \in Ids)
  BY PassTypes, TableFacts DEF PassRecord
<1>3. CASE tun[i] /= x
  <2>1. UNCHANGED <<tun, ob>>
    BY <1>3 DEF ReapRemove
  <2> QED BY <1>1, <2>1, PassStep
<1>4. CASE tun[i] = x
  <2>1. tun' = Without({i}) /\ ob' = Detached({x})
    BY <1>4 DEF ReapRemove
  <2>2. CASE x \in Objs
    BY <1>1, <1>2, <1>4, <2>1, <2>2, RemoveOne
  <2>3. CASE x = NoObj
    <3>1. ob' = ob
      BY <2>1, <2>3, TableFacts, ObTypes DEF Detached, IdInv, TableType
    <3>2. tun \in [Ids -> Objs \cup {NoObj}]
      BY DEF IdInv, TableType
    <3>3. tun' = tun
      BY <1>4, <2>1, <2>3, <3>2 DEF Without
    <3> QED BY <1>1, <3>1, <3>3, PassStep
  <2> QED BY <1>2, <2>2, <2>3
<1> QED BY <1>3, <1>4

LEMMA CloseAllStep ==
  ASSUME IdInv, close_all PROVE IdInv'
<1> DEFINE D == Ids
           G == {tun[i] : i \in Mapped}
<1>1. UNCHANGED <<used, next, rp>> /\ rp' \in [Handlers -> PassRecord]
  BY PassTypes DEF close_all
<1>2. ob' = Detached(G) /\ tun' = Without(D)
  BY DEF close_all
<1>3. D \in SUBSET Ids /\ \A p \in Objs : p \in G <=> \E j \in D : tun[j] = p
  BY TableFacts DEF Mapped
<1> HIDE DEF D, G
<1>4. ob' \in [Objs -> ObjRecord]
  BY <1>2, DetachedFacts
<1>5. \A p \in Objs :
        /\ ob'[p].id = ob[p].id /\ ob'[p].reg = ob[p].reg /\ ob'[p].st = ob[p].st
        /\ ob'[p].hook = ob[p].hook /\ (ob'[p].asks => ob[p].asks)
        /\ ob'[p].rm = IF p \in G THEN "hook" ELSE ob[p].rm
  BY <1>2, DetachedFacts
<1> QED BY <1>1, <1>2, <1>3, <1>4, <1>5, DetachStep

\* An abandoned session: every mapped tunnel is silent and its id free.  An id
\* that stays used is held by a tunnel that had left the map before.
LEMMA AbandonStep ==
  ASSUME IdInv, AbandonDetaches PROVE IdInv'
<1> DEFINE M(o) == \E i \in Ids : tun[i] = o
<1>1. UNCHANGED <<next, rp>> /\ \A i \in Ids : tun'[i] = NoObj
  BY DEF AbandonDetaches, Without
<1>2. /\ used \in [Ids -> BOOLEAN] /\ used' \in [Ids -> BOOLEAN]
      /\ \A i \in Ids : used'[i] <=> used[i] /\ tun[i] = NoObj
  BY DEF AbandonDetaches, IdInv, TableType
<1>3. /\ ob' \in [Objs -> ObjRecord]
      /\ \A o \in Objs : /\ ob'[o].id = ob[o].id /\ ob'[o].reg = ob[o].reg
                         /\ ob'[o].hook = ob[o].hook /\ ob'[o].rm = ob[o].rm
                         /\ ob'[o].asks = ob[o].asks
                         /\ ob'[o].st = IF M(o) THEN "silent" ELSE ob[o].st
  <2>1. ob' = [o \in Objs |-> IF M(o) THEN [ob[o] EXCEPT !.st = "silent"] ELSE ob[o]]
    BY DEF AbandonDetaches
  <2>2. \A o \in Objs : ob[o] \in ObjRecord /\ [ob[o] EXCEPT !.st = "silent"] \in ObjRecord
    BY ObTypes DEF ObjRecord
  <2> HIDE DEF M
  <2> QED BY <2>1, <2>2 DEF ObjRecord
<1>4. \A o \in Objs : M(o) => /\ ob[o].reg = "added" /\ ob[o].rm = "none" /\ ~ob[o].hook
                              /\ Holder(o) /\ tun[ob[o].id] = o /\ ob[o].id \in Ids
  BY MappedFacts
<1>5. \A o \in Objs : ~M(o) /\ Holder(o) /\ ob[o].id \in Ids => tun[ob[o].id] = NoObj
  <2> SUFFICES ASSUME NEW o \in Objs, ~M(o), Holder(o), ob[o].id \in Ids,
                      tun[ob[o].id] /= NoObj
               PROVE  FALSE
    OBVIOUS
  <2> DEFINE p == tun[ob[o].id]
  <2>1. p \in Objs
    BY DEF IdInv, TableType
  <2>2. Holder(p) /\ ob[p].id = ob[o].id
    BY <2>1, MappedFacts
  <2>3. p = o
    BY <2>1, <2>2 DEF IdInv, OneHolder
  <2> QED BY <2>3
<1>6. \A o \in Objs : Holder(o)' <=> Holder(o) /\ ~M(o)
  <2> TAKE o \in Objs
  <2>1. CASE M(o)
    BY <1>1, <1>3, <1>4, <2>1, TableFacts DEF Holder, Ids
  <2>2. CASE ~M(o)
    BY <1>1, <1>3, <2>2, TableFacts DEF Holder, Ids
  <2> QED BY <2>1, <2>2
<1>7. TableType'
  <2>1. tun' \in [Ids -> Objs \cup {NoObj}]
    BY DEF AbandonDetaches, Without, IdInv, TableType
  <2> QED BY <1>1, <1>2, <1>3, <2>1 DEF IdInv, TableType, Ids, ObjRecord, PassRecord, NoObj
<1>8. MapInv'
  BY <1>1 DEF MapInv, Ids, NoObj
<1>9. ASSUME NEW o \in Objs PROVE ObjInv(o)'
  <2>1. ObjInv(o)
    BY DEF IdInv
  <2>2. Holder(o)' => used'[ob'[o].id]
    BY <1>2, <1>3, <1>5, <1>6, HolderFacts
  <2>3. CASE M(o)
    <3>1. ob'[o].st = "silent"
      BY <1>3, <2>3
    <3> QED BY <1>3, <1>4, <2>1, <2>2, <2>3, <3>1 DEF ObjInv, Ids
  <2>4. CASE ~M(o)
    <3>1. ob'[o].st = ob[o].st
      BY <1>3, <2>4
    <3>2. ob'[o].st \in {"live", "owing"} => Holder(o)'
      BY <1>6, <2>1, <2>4, <3>1 DEF ObjInv
    <3> HIDE DEF M
    <3> QED BY <1>3, <2>1, <2>2, <3>1, <3>2 DEF ObjInv, Ids
  <2> QED BY <2>3, <2>4
<1>10. OneHolder'
  BY <1>3, <1>6 DEF IdInv, OneHolder
<1>11. UsedHeld'
  <2> SUFFICES ASSUME NEW j \in Ids, used'[j] PROVE \E p \in Objs : Holder(p)' /\ ob'[p].id = j
    BY DEF UsedHeld, Ids
  <2>1. used[j] /\ tun[j] = NoObj
    BY <1>2
  <2>2. PICK p \in Objs : Holder(p) /\ ob[p].id = j
    BY <2>1 DEF IdInv, UsedHeld
  <2>3. ~M(p)
    BY <1>4, <2>1, <2>2, TableFacts
  <2> QED BY <1>3, <1>6, <2>2, <2>3
<1> QED BY <1>7, <1>8, <1>9, <1>10, <1>11 DEF IdInv

LEMMA IdInit == Init => IdInv
<1> SUFFICES ASSUME Init PROVE IdInv
  OBVIOUS
<1>1. /\ used = [i \in Ids |-> FALSE] /\ next = 1 /\ tun = [i \in Ids |-> NoObj]
      /\ ob = [o \in Objs |-> [id |-> 0, reg |-> "none", st |-> "none", hook |-> FALSE,
                               rm |-> "none", asks |-> FALSE]]
      /\ rp = [h \in Handlers |-> [todo |-> {}, id |-> 0, obj |-> NoObj]]
  BY DEF Init
<1>2. 0 \in 0 .. MaxId /\ 1 \in Ids
  BY TableFacts DEF Ids
<1>3. TableType
  BY <1>1, <1>2 DEF TableType, ObjRecord, PassRecord
<1>4. \A o \in Objs : ~Holder(o)
  BY <1>1, TableFacts DEF Holder
<1>5. MapInv /\ OneHolder /\ UsedHeld /\ \A o \in Objs : ObjInv(o)
  BY <1>1, <1>4 DEF MapInv, OneHolder, UsedHeld, ObjInv
<1> QED BY <1>3, <1>5 DEF IdInv

LEMMA IdNext == IdInv /\ [Next]_vars => IdInv'
<1> SUFFICES ASSUME IdInv, [Next]_vars PROVE IdInv'
  OBVIOUS
<1>1. ASSUME UNCHANGED tableVars PROVE IdInv'
  BY <1>1, PassTypes, PassStep DEF tableVars
<1>2. CASE ~TableNext
  BY <1>1, <1>2 DEF Next, vars
<1>3. CASE TableNext
  <2>1. ASSUME NEW o \in Objs,
               \/ allocate_tunnel_id(o) \/ add_tunnel(o) \/ TunnelSilent(o) \/ IdReleasable(o)
               \/ OpenRefused(o) \/ remove_tunnel_if(o) \/ SetOnIdReleasable(o)
        PROVE  IdInv'
    BY <2>1, AllocateStep, AddStep, SilentStep, ReleasableStep, OpenRefusedStep, RemoveIfStep,
       HookStep
  <2>2. ASSUME NEW o \in Objs, NEW i \in Ids, handle_incoming_open(o, i) PROVE IdInv'
    BY <2>2, IncomingStep
  <2>3. ASSUME NEW o \in Objs, NEW st \in {"owing", "silent"}, TunnelEnds(o, st) \/ TearDown(o, st)
        PROVE  IdInv'
    BY <2>3, EndsStep, TearStep
  <2>4. ASSUME NEW h \in Handlers, ReapScan(h) \/ ReapRemove(h) PROVE IdInv'
    BY <2>4, ScanStep, RemoveStep
  <2>5. ASSUME NEW h \in Handlers, NEW st \in {"owing", "silent"}, ReapClose(h, st) PROVE IdInv'
    BY <2>5, CloseStep
  <2>6. ASSUME \/ \E o \in Objs : TunnelOpens(o)
               \/ \E h \in Handlers : ReapEnds(h) \/ TickPings(h) \/ TickSent(h)
               \/ route_frame \/ AbandonStarts
        PROVE  IdInv'
    <3>1. UNCHANGED tableVars
      BY <2>6 DEF TunnelOpens, ReapEnds, TickPings, TickSent, route_frame, AbandonStarts
    <3> QED BY <1>1, <3>1
  <2> QED BY <1>3, <2>1, <2>2, <2>3, <2>4, <2>5, <2>6, CloseAllStep, AbandonStep DEF TableNext
<1> QED BY <1>2, <1>3

\* Who answers for an id, in every reachable state and whatever the sizes: a
\* used id has exactly one holder, a tunnel that may speak is a holder, and the
\* map agrees with the objects in it (allocate_tunnel_id, add_tunnel,
\* remove_tunnel_if, close_all, close_all_local, the reaper, the release hook).
THEOREM IdsInvariant == Spec => []IdInv
<1>1. Init => IdInv
  BY IdInit
<1>2. IdInv /\ [Next]_vars => IdInv'
  BY IdNext
<1> QED BY <1>1, <1>2, PTL DEF Spec

LEMMA IdInvHeld == IdInv => IdsHeld
<1> SUFFICES ASSUME IdInv PROVE IdsHeld
  OBVIOUS
<1>1. OneSpeaker
  BY DEF IdInv, ObjInv, OneHolder, OneSpeaker
<1>2. NoIdLeak
  BY DEF IdInv, UsedHeld, NoIdLeak, Holder
<1> QED BY <1>1, <1>2 DEF IdsHeld

\* The id bitmap is exact for any number of ids, tunnels and maintenance
\* passes: no two tunnels that can still send share an id, and no id stays
\* marked used with nobody left to give it back.
THEOREM IdsHeldHolds == Spec => []IdsHeld
<1>1. IdInv => IdsHeld
  BY IdInvHeld
<1> QED BY <1>1, IdsInvariant, PTL

----------------------------------------------------------------------------
(* The timers: the inductive invariant. *)

HandlerRecord == [pc : {"idle", "gate1", "work", "latch", "verdict", "gate2", "ping", "sending",
                        "reap", "remove", "rearm"},
                  epoch : Nat, late : BOOLEAN, sends : SUBSET Senders]
TimerRecord == [on : BOOLEAN, epoch : Nat, wait : Nat \cup {Unarmed}]

TimerType == /\ tm \in [Timers -> TimerRecord]
             /\ hd \in [Timers -> [Handlers -> HandlerRecord]]

Runs(t, h) == hd[t][h].pc /= "idle" /\ Current(t, h)
Running(t) == {h \in Handlers : Runs(t, h)}

\* The wait is of the current generation, no handler is of a later one, and a
\* generation is alive in one place: its wait, or the one handler that runs it.
Chain(t) ==
  /\ tm[t].wait \in {Unarmed, tm[t].epoch}
  /\ ~tm[t].on => tm[t].wait = Unarmed
  /\ \A h \in Handlers : hd[t][h].pc /= "idle" => hd[t][h].epoch <= tm[t].epoch
  /\ tm[t].on /\ tm[t].wait = Unarmed => \E h \in Handlers : Runs(t, h)
  /\ \A h \in Handlers : Runs(t, h) => tm[t].on /\ tm[t].wait = Unarmed
  /\ \A g, h \in Handlers : Runs(t, g) /\ Runs(t, h) => g = h

\* With a tunnel at stake, the clock never shows more silence than there was.
ClockInv == age \in Nat /\ staked \in Nat /\ (~Empty => age <= staked)

TimerInv == TimerType /\ (\A t \in Timers : Chain(t)) /\ ClockInv

----------------------------------------------------------------------------
(* The timers: chains. *)

LEMMA TimerTypes ==
  ASSUME TimerInv, NEW t \in Timers, NEW h \in Handlers
  PROVE  /\ tm \in [Timers -> TimerRecord] /\ tm[t] \in TimerRecord
         /\ hd \in [Timers -> [Handlers -> HandlerRecord]] /\ hd[t][h] \in HandlerRecord
BY DEF TimerInv, TimerType

\* One handler is written.
LEMMA HandlerWrite ==
  ASSUME TimerInv, NEW t \in Timers, NEW h \in Handlers, NEW r \in HandlerRecord,
         hd' = [hd EXCEPT ![t][h] = r]
  PROVE  /\ hd' \in [Timers -> [Handlers -> HandlerRecord]]
         /\ \A u \in Timers, g \in Handlers :
              hd'[u][g] = IF u = t /\ g = h THEN r ELSE hd[u][g]
<1>1. hd \in [Timers -> [Handlers -> HandlerRecord]]
  BY DEF TimerInv, TimerType
<1>2. hd[t] \in [Handlers -> HandlerRecord]
  BY <1>1
<1> DEFINE x == [hd[t] EXCEPT ![h] = r]
<1>3. hd' = [hd EXCEPT ![t] = x]
  BY <1>1
<1>4. x \in [Handlers -> HandlerRecord] /\ \A g \in Handlers : x[g] = IF g = h THEN r ELSE hd[t][g]
  BY <1>2
<1> HIDE DEF x
<1>5. \A u \in Timers : hd'[u] = IF u = t THEN x ELSE hd[u]
  BY <1>1, <1>3
<1> QED BY <1>1, <1>3, <1>4, <1>5

\* A running handler goes on, in its generation.
LEMMA WriteStep ==
  ASSUME TimerInv, NEW t \in Timers, NEW h \in Handlers, NEW r \in HandlerRecord,
         hd' = [hd EXCEPT ![t][h] = r], UNCHANGED tm,
         hd[t][h].pc /= "idle", r.pc /= "idle", r.epoch = hd[t][h].epoch
  PROVE  TimerType' /\ \A u \in Timers : Chain(u)'
<1>1. /\ hd' \in [Timers -> [Handlers -> HandlerRecord]]
      /\ \A u \in Timers, g \in Handlers : hd'[u][g] = IF u = t /\ g = h THEN r ELSE hd[u][g]
  BY HandlerWrite
<1>2. \A u \in Timers, g \in Handlers :
        hd'[u][g].epoch = hd[u][g].epoch /\ (hd'[u][g].pc /= "idle" <=> hd[u][g].pc /= "idle")
  BY <1>1
<1>3. TimerType'
  BY <1>1 DEF TimerInv, TimerType, Timers, TimerRecord, HandlerRecord, Unarmed
<1>4. ASSUME NEW u \in Timers PROVE Chain(u)'
  <2>1. \A g \in Handlers : Runs(u, g)' <=> Runs(u, g)
    BY <1>2 DEF Runs, Current
  <2> QED BY <1>2, <2>1 DEF TimerInv, Chain, Unarmed
<1> QED BY <1>3, <1>4

\* A handler of a retired generation ends.
LEMMA EndStep ==
  ASSUME TimerInv, NEW t \in Timers, NEW h \in Handlers, HandlerEnds(t, h), UNCHANGED tm, ~Runs(t, h)
  PROVE  TimerType' /\ \A u \in Timers : Chain(u)'
<1> DEFINE r == NoHandler
<1>0. hd' = [hd EXCEPT ![t][h] = r] /\ r \in HandlerRecord /\ r.pc = "idle"
  BY DEF HandlerEnds, NoHandler, HandlerRecord
<1> HIDE DEF r
<1>1. /\ hd' \in [Timers -> [Handlers -> HandlerRecord]]
      /\ \A u \in Timers, g \in Handlers : hd'[u][g] = IF u = t /\ g = h THEN r ELSE hd[u][g]
  BY <1>0, HandlerWrite
<1>2. TimerType'
  BY <1>1 DEF TimerInv, TimerType, Timers, TimerRecord, HandlerRecord, Unarmed
<1>3. ASSUME NEW u \in Timers PROVE Chain(u)'
  <2>1. \A g \in Handlers : Runs(u, g)' <=> Runs(u, g)
    BY <1>0, <1>1 DEF Runs, Current
  <2>2. \A g \in Handlers : hd'[u][g].pc /= "idle" => hd'[u][g].epoch = hd[u][g].epoch /\ hd[u][g].pc /= "idle"
    BY <1>0, <1>1
  <2> QED BY <2>1, <2>2 DEF TimerInv, Chain, Unarmed
<1> QED BY <1>2, <1>3

\* Enables and disables: a timer keeps its generation, or begins another that
\* no handler is of.
LEMMA GenerationStep ==
  ASSUME TimerInv, UNCHANGED hd, tm' \in [Timers -> TimerRecord],
         \A t \in Timers : tm'[t] = tm[t] \/ tm'[t] = Armed(tm[t]) \/ tm'[t] = Retired(tm[t])
  PROVE  TimerType' /\ \A u \in Timers : Chain(u)'
<1>1. TimerType'
  BY DEF TimerInv, TimerType, Timers, TimerRecord, HandlerRecord, Unarmed
<1>2. ASSUME NEW u \in Timers PROVE Chain(u)'
  <2>1. CASE tm'[u] = tm[u]
    BY <2>1 DEF TimerInv, Chain, Runs, Current, Unarmed
  <2>2. CASE tm'[u] = Armed(tm[u]) \/ tm'[u] = Retired(tm[u])
    <3>1. tm[u].epoch \in Nat /\ tm'[u].epoch = tm[u].epoch + 1
      BY <2>2 DEF Armed, Retired, TimerInv, TimerType, TimerRecord
    <3>2. \A h \in Handlers : hd[u][h].epoch \in Nat /\ (hd[u][h].pc /= "idle" => hd[u][h].epoch <= tm[u].epoch)
      BY DEF TimerInv, TimerType, HandlerRecord, Chain
    <3>3. \A h \in Handlers : ~Runs(u, h)'
      BY <3>1, <3>2 DEF Runs, Current
    <3>4. /\ tm'[u].wait \in {Unarmed, tm'[u].epoch} /\ (~tm'[u].on => tm'[u].wait = Unarmed)
          /\ (tm'[u].on => tm'[u].wait /= Unarmed)
      BY <2>2, <3>1 DEF Armed, Retired, Unarmed
    <3> QED BY <3>1, <3>2, <3>3, <3>4 DEF Chain, Unarmed
  <2> QED BY <2>1, <2>2
<1> QED BY <1>1, <1>2

\* The wait completes: the chain moves into the handler.
LEMMA FireStep ==
  ASSUME TimerInv, NEW t \in Timers, NEW h \in Handlers, TimerFires(t, h)
  PROVE  TimerType' /\ \A u \in Timers : Chain(u)'
<1> DEFINE r == [NoHandler EXCEPT !.pc = "gate1", !.epoch = tm[t].wait]
           y == [tm[t] EXCEPT !.wait = Unarmed]
<1>1. tm \in [Timers -> TimerRecord] /\ tm[t] \in TimerRecord /\ Chain(t)
  BY TimerTypes DEF TimerInv
<1>2. tm[t].wait = tm[t].epoch /\ tm[t].epoch \in Nat /\ tm[t].on
  BY <1>1 DEF TimerFires, Chain, TimerRecord
<1>3. r \in HandlerRecord /\ r.pc = "gate1" /\ r.epoch = tm[t].epoch
  BY <1>2 DEF NoHandler, HandlerRecord
<1>4. y \in TimerRecord /\ y.on = tm[t].on /\ y.epoch = tm[t].epoch /\ y.wait = Unarmed
  BY <1>1 DEF TimerRecord
<1>5. hd' = [hd EXCEPT ![t][h] = r]
  BY DEF TimerFires
<1>6. tm' = [tm EXCEPT ![t] = y]
  BY <1>1 DEF TimerFires
<1> HIDE DEF r, y
<1>7. /\ hd' \in [Timers -> [Handlers -> HandlerRecord]]
      /\ \A u \in Timers, g \in Handlers : hd'[u][g] = IF u = t /\ g = h THEN r ELSE hd[u][g]
  BY <1>3, <1>5, HandlerWrite
<1>8. tm' \in [Timers -> TimerRecord] /\ \A u \in Timers : tm'[u] = IF u = t THEN y ELSE tm[u]
  BY <1>1, <1>4, <1>6
<1>9. TimerType'
  BY <1>7, <1>8 DEF TimerType, Timers, TimerRecord, HandlerRecord, Unarmed
<1>10. ASSUME NEW u \in Timers PROVE Chain(u)'
  <2>1. CASE u = t
    <3>1. \A g \in Handlers : Runs(t, g)' <=> g = h
      <4>1. \A g \in Handlers : ~Runs(t, g)
        BY <1>1, <1>2 DEF Chain, Unarmed
      <4> QED BY <1>3, <1>4, <1>7, <1>8, <4>1 DEF Runs, Current
    <3>2. \A g \in Handlers : hd'[t][g].pc /= "idle" => hd'[t][g].epoch <= tm'[t].epoch
      BY <1>1, <1>2, <1>3, <1>4, <1>7, <1>8 DEF Chain
    <3> QED BY <1>2, <1>4, <1>8, <2>1, <3>1, <3>2 DEF Chain, Unarmed
  <2>2. CASE u /= t
    <3>1. tm'[u] = tm[u] /\ \A g \in Handlers : hd'[u][g] = hd[u][g]
      BY <1>7, <1>8, <2>2
    <3> QED BY <3>1 DEF TimerInv, Chain, Runs, Current, Unarmed
  <2> QED BY <2>1, <2>2
<1> QED BY <1>9, <1>10

\* The handler ends; in its own generation it hands the chain to a new wait.
LEMMA RearmStep ==
  ASSUME TimerInv, NEW t \in Timers, NEW h \in Handlers, RearmAfterTick(t, h)
  PROVE  TimerType' /\ \A u \in Timers : Chain(u)'
<1>1. tm \in [Timers -> TimerRecord] /\ tm[t] \in TimerRecord /\ Chain(t) /\ hd[t][h].pc = "rearm"
  BY TimerTypes DEF TimerInv, RearmAfterTick
<1>2. CASE ~Runs(t, h)
  <2>1. ~Current(t, h)
    BY <1>1, <1>2 DEF Runs
  <2>2. tm' = tm
    <3>1. tm' = [tm EXCEPT ![t].wait = tm[t].wait]
      BY <2>1 DEF RearmAfterTick
    <3>2. tm' = [tm EXCEPT ![t] = [tm[t] EXCEPT !.wait = tm[t].wait]]
      BY <1>1, <3>1
    <3>3. [tm[t] EXCEPT !.wait = tm[t].wait] = tm[t]
      BY <1>1 DEF TimerRecord
    <3> QED BY <1>1, <3>2, <3>3
  <2> QED BY <1>2, <2>2, EndStep DEF RearmAfterTick
<1>3. CASE Runs(t, h)
  <2> DEFINE r == NoHandler
             y == [tm[t] EXCEPT !.wait = tm[t].epoch]
  <2>1. tm[t].on /\ tm[t].wait = Unarmed /\ hd[t][h].epoch = tm[t].epoch /\ tm[t].epoch \in Nat
    BY <1>1, <1>3 DEF Chain, Runs, Current, TimerRecord
  <2>2. tm' = [tm EXCEPT ![t] = y]
    BY <1>1, <2>1 DEF RearmAfterTick, Current
  <2>3. y \in TimerRecord /\ y.on /\ y.epoch = tm[t].epoch /\ y.wait = tm[t].epoch
    BY <1>1, <2>1 DEF TimerRecord
  <2>4. hd' = [hd EXCEPT ![t][h] = r] /\ r \in HandlerRecord /\ r.pc = "idle"
    BY DEF RearmAfterTick, HandlerEnds, NoHandler, HandlerRecord
  <2> HIDE DEF r, y
  <2>5. /\ hd' \in [Timers -> [Handlers -> HandlerRecord]]
        /\ \A u \in Timers, g \in Handlers : hd'[u][g] = IF u = t /\ g = h THEN r ELSE hd[u][g]
    BY <2>4, HandlerWrite
  <2>6. tm' \in [Timers -> TimerRecord] /\ \A u \in Timers : tm'[u] = IF u = t THEN y ELSE tm[u]
    BY <1>1, <2>2, <2>3
  <2>7. TimerType'
    BY <2>5, <2>6 DEF TimerType, Timers, TimerRecord, HandlerRecord, Unarmed
  <2>8. ASSUME NEW u \in Timers PROVE Chain(u)'
    <3>1. CASE u = t
      <4>1. \A g \in Handlers : ~Runs(t, g)'
        <5>1. \A g \in Handlers : g /= h => ~Runs(t, g)
          BY <1>1, <1>3 DEF Chain
        <5> QED BY <2>3, <2>4, <2>5, <2>6, <5>1 DEF Runs, Current
      <4>2. \A g \in Handlers : hd'[t][g].pc /= "idle" => hd'[t][g].epoch <= tm'[t].epoch
        BY <1>1, <2>3, <2>4, <2>5, <2>6 DEF Chain
      <4> QED BY <2>1, <2>3, <2>6, <3>1, <4>1, <4>2 DEF Chain, Unarmed
    <3>2. CASE u /= t
      <4>1. tm'[u] = tm[u] /\ \A g \in Handlers : hd'[u][g] = hd[u][g]
        BY <2>5, <2>6, <3>2
      <4> QED BY <4>1 DEF TimerInv, Chain, Runs, Current, Unarmed
    <3> QED BY <3>1, <3>2
  <2> QED BY <2>7, <2>8
<1> QED BY <1>2, <1>3

----------------------------------------------------------------------------
(* The timers: the handlers. *)

\* A handler moves to another point of its code.
LEMMA GotoStep ==
  ASSUME TimerInv, NEW t \in Timers, NEW h \in Handlers, NEW pc, HandlerGoto(t, h, pc), UNCHANGED tm,
         pc \in {"gate1", "work", "latch", "verdict", "gate2", "ping", "sending", "reap", "remove",
                 "rearm"},
         hd[t][h].pc /= "idle"
  PROVE  /\ TimerType' /\ \A u \in Timers : Chain(u)'
         /\ \A u \in Timers, g \in Handlers : hd'[u][g].late = hd[u][g].late
<1> DEFINE r == [hd[t][h] EXCEPT !.pc = pc]
<1>1. hd \in [Timers -> [Handlers -> HandlerRecord]] /\ hd[t][h] \in HandlerRecord
  BY TimerTypes
<1>2. hd' = [hd EXCEPT ![t][h] = r]
  BY <1>1 DEF HandlerGoto
<1>3. r \in HandlerRecord /\ r.pc = pc /\ r.epoch = hd[t][h].epoch /\ r.late = hd[t][h].late
  BY <1>1 DEF HandlerRecord
<1> HIDE DEF r
<1>4. r.pc /= "idle"
  BY <1>3
<1>5. TimerType' /\ \A u \in Timers : Chain(u)'
  BY <1>2, <1>3, <1>4, WriteStep
<1>6. \A u \in Timers, g \in Handlers : hd'[u][g].late = hd[u][g].late
  BY <1>2, <1>3, HandlerWrite
<1> QED BY <1>5, <1>6

\* A handler that ends leaves no verdict.
LEMMA EndedLate ==
  ASSUME TimerInv, NEW t \in Timers, NEW h \in Handlers, HandlerEnds(t, h)
  PROVE  \A u \in Timers, g \in Handlers : hd'[u][g].late => hd[u][g].late
<1> DEFINE r == NoHandler
<1>1. hd' = [hd EXCEPT ![t][h] = r] /\ r \in HandlerRecord /\ ~r.late
  BY DEF HandlerEnds, NoHandler, HandlerRecord
<1> HIDE DEF r
<1> QED BY <1>1, HandlerWrite

\* What is proved of every step: the chains stay, and a verdict is new only
\* after enough silence.
Honest == \A h \in Handlers : ~hd["keepalive"][h].late /\ hd'["keepalive"][h].late => staked > Timeout
ChainStep == TimerType' /\ (\A u \in Timers : Chain(u)') /\ Honest

LEMMA TimerNames == "reaper" \in Timers /\ "keepalive" \in Timers
BY DEF Timers

LEMMA LateKept ==
  ASSUME \A u \in Timers, g \in Handlers : hd'[u][g].late => hd[u][g].late
  PROVE  Honest
BY TimerNames DEF Honest

LEMMA HandlersKept ==
  ASSUME TimerInv, UNCHANGED <<tm, hd>> PROVE ChainStep
BY DEF ChainStep, TimerInv, TimerType, Timers, TimerRecord, HandlerRecord, Unarmed, Chain, Runs,
       Current, Honest

LEMMA HandlersMove ==
  ASSUME TimerInv, NEW t \in Timers, NEW h \in Handlers, NEW pc, HandlerGoto(t, h, pc), UNCHANGED tm,
         pc \in {"gate1", "work", "latch", "verdict", "gate2", "ping", "sending", "reap", "remove",
                 "rearm"},
         hd[t][h].pc /= "idle"
  PROVE  ChainStep
BY GotoStep, LateKept DEF ChainStep

LEMMA EntersStep ==
  ASSUME TimerInv, NEW t \in Timers, NEW h \in Handlers, TickEnters(t, h) PROVE ChainStep
<1>1. hd[t][h].pc = "gate1" /\ UNCHANGED tm
  BY DEF TickEnters
<1>2. CASE Current(t, h) /\ tm[t].on
  <2>1. HandlerGoto(t, h, "work")
    BY <1>2 DEF TickEnters
  <2> QED BY <1>1, <2>1, HandlersMove
<1>3. CASE ~(Current(t, h) /\ tm[t].on)
  <2>1. HandlerEnds(t, h)
    BY <1>3 DEF TickEnters
  <2>2. ~Runs(t, h)
    BY <1>3 DEF Runs, TimerInv, Chain
  <2> QED BY <1>1, <2>1, <2>2, EndStep, EndedLate, LateKept DEF ChainStep
<1> QED BY <1>2, <1>3

LEMMA Gate2Step ==
  ASSUME TimerInv, NEW h \in Handlers, TickGate2(h) PROVE ChainStep
<1> DEFINE t == "keepalive"
<1>1. hd[t][h].pc = "gate2" /\ UNCHANGED tm /\ t \in Timers
  BY TimerNames DEF TickGate2
<1>2. CASE Current(t, h)
  <2>1. HandlerGoto(t, h, "ping")
    BY <1>2 DEF TickGate2
  <2> HIDE DEF t
  <2> QED BY <1>1, <2>1, HandlersMove
<1>3. CASE ~Current(t, h)
  <2>1. HandlerEnds(t, h)
    BY <1>3 DEF TickGate2
  <2>2. ~Runs(t, h)
    BY <1>3 DEF Runs
  <2> HIDE DEF t
  <2> QED BY <1>1, <2>1, <2>2, EndStep, EndedLate, LateKept DEF ChainStep
<1> QED BY <1>2, <1>3

\* The judgement: the clock was rebased when there was nothing to lose, and
\* otherwise shows no more than the silence there was.
LEMMA JudgesStep ==
  ASSUME TimerInv, NEW h \in Handlers, TickJudges(h, Empty), UNCHANGED tun
  PROVE  ChainStep /\ ClockInv'
<1> DEFINE t == "keepalive"
           v == age' > Timeout /\ ~dead
           r == [hd[t][h] EXCEPT !.pc = "latch", !.late = v]
<1>1. t \in Timers /\ hd[t][h].pc = "work" /\ UNCHANGED <<tm, staked>>
  BY TimerNames DEF TickJudges
<1>2. age' = (IF Empty THEN 0 ELSE age) /\ age \in Nat /\ staked \in Nat /\ (~Empty => age <= staked)
  BY DEF TickJudges, TimerInv, ClockInv
<1>3. hd \in [Timers -> [Handlers -> HandlerRecord]] /\ hd[t][h] \in HandlerRecord
  BY <1>1, TimerTypes
<1>4. hd' = [hd EXCEPT ![t][h] = r]
  BY <1>1, <1>3 DEF TickJudges
<1>5. v \in BOOLEAN /\ (v => staked > Timeout)
  BY <1>2, TimerAssumption
<1> HIDE DEF v
<1>6. r \in HandlerRecord /\ r.pc = "latch" /\ r.epoch = hd[t][h].epoch /\ r.late = v
  BY <1>3, <1>5 DEF HandlerRecord
<1> HIDE DEF r, t
<1>7. r.pc /= "idle" /\ hd[t][h].pc /= "idle"
  BY <1>1, <1>6
<1>8. TimerType' /\ \A u \in Timers : Chain(u)'
  BY <1>1, <1>4, <1>6, <1>7, WriteStep
<1>9. \A g \in Handlers : hd'[t][g] = IF g = h THEN r ELSE hd[t][g]
  BY <1>1, <1>4, <1>6, HandlerWrite
<1>10. Honest
  BY <1>5, <1>6, <1>9 DEF Honest, t
<1>11. ClockInv'
  <2>1. Empty' <=> Empty
    BY DEF Empty, Mapped, Ids, NoObj
  <2> QED BY <1>1, <1>2, <2>1 DEF ClockInv
<1> QED BY <1>8, <1>10, <1>11 DEF ChainStep

LEMMA LatchesStep ==
  ASSUME TimerInv, NEW h \in Handlers, TickLatches(h) PROVE ChainStep
<1> DEFINE t == "keepalive"
<1>1. t \in Timers /\ hd[t][h].pc = "latch" /\ UNCHANGED tm
  BY TimerNames DEF TickLatches
<1>2. HandlerGoto(t, h, "verdict") \/ HandlerGoto(t, h, "gate2")
  BY DEF TickLatches
<1> HIDE DEF t
<1> QED BY <1>1, <1>2, HandlersMove

\* The PING is handed to senders of the manager's own.
LEMMA PingsStep ==
  ASSUME TimerInv, NEW h \in Handlers, TickPings(h) PROVE ChainStep
<1> DEFINE t == "keepalive"
           r == [hd[t][h] EXCEPT !.pc = "sending", !.sends = Fresh]
<1>1. t \in Timers /\ hd[t][h].pc = "ping" /\ UNCHANGED tm
  BY TimerNames DEF TickPings
<1>2. hd \in [Timers -> [Handlers -> HandlerRecord]] /\ hd[t][h] \in HandlerRecord
  BY <1>1, TimerTypes
<1>3. Fresh \in SUBSET Senders
  <2>1. Unused \in SUBSET Senders
    BY DEF Unused
  <2>2. Unused /= {} => (CHOOSE s \in Unused : TRUE) \in Unused
    OBVIOUS
  <2> QED BY <2>1, <2>2 DEF Fresh
<1>4. hd' = [hd EXCEPT ![t][h] = r]
  BY <1>1, <1>2 DEF TickPings
<1>5. r \in HandlerRecord /\ r.pc = "sending" /\ r.epoch = hd[t][h].epoch /\ r.late = hd[t][h].late
  BY <1>2, <1>3 DEF HandlerRecord
<1> HIDE DEF r, t
<1>6. TimerType' /\ \A u \in Timers : Chain(u)'
  BY <1>1, <1>4, <1>5, WriteStep
<1>7. \A u \in Timers, g \in Handlers : hd'[u][g].late = hd[u][g].late
  BY <1>1, <1>4, <1>5, HandlerWrite
<1> QED BY <1>6, <1>7, LateKept DEF ChainStep

\* The scenario's and the owner's enables and disables, and an abandoned
\* session, which retires both timers.
LEMMA OwnerStep ==
  ASSUME TimerInv, OwnerTimers \/ AbandonStarts PROVE ChainStep
<1>1. UNCHANGED hd /\ tm \in [Timers -> TimerRecord]
  BY DEF OwnerTimers, enable_reaper, disable_reaper, enable_keepalive, disable_keepalive,
         AbandonStarts, TimerInv, TimerType
<1>2. \A t \in Timers : Armed(tm[t]) \in TimerRecord /\ Retired(tm[t]) \in TimerRecord
  BY <1>1 DEF Armed, Retired, TimerRecord, Unarmed
<1>3. \/ \E t \in Timers : tm' = [tm EXCEPT ![t] = Armed(tm[t])] \/ tm' = [tm EXCEPT ![t] = Retired(tm[t])]
      \/ tm' = [t \in Timers |-> Retired(tm[t])]
  BY TimerNames DEF OwnerTimers, enable_reaper, disable_reaper, enable_keepalive, disable_keepalive,
         AbandonStarts
<1>4. /\ tm' \in [Timers -> TimerRecord]
      /\ \A t \in Timers : tm'[t] = tm[t] \/ tm'[t] = Armed(tm[t]) \/ tm'[t] = Retired(tm[t])
  BY <1>1, <1>2, <1>3
<1>5. \A u \in Timers, g \in Handlers : hd'[u][g].late => hd[u][g].late
  BY <1>1
<1> QED BY <1>1, <1>4, <1>5, GenerationStep, LateKept DEF ChainStep

LEMMA FiredLate ==
  ASSUME TimerInv, NEW t \in Timers, NEW h \in Handlers, TimerFires(t, h) PROVE ChainStep
<1> DEFINE r == [NoHandler EXCEPT !.pc = "gate1", !.epoch = tm[t].wait]
<1>1. tm[t].wait \in Nat
  BY TimerTypes DEF TimerFires, TimerRecord
<1>2. hd' = [hd EXCEPT ![t][h] = r] /\ r \in HandlerRecord /\ ~r.late
  BY <1>1 DEF TimerFires, NoHandler, HandlerRecord
<1> HIDE DEF r
<1>3. \A u \in Timers, g \in Handlers : hd'[u][g].late => hd[u][g].late
  BY <1>2, HandlerWrite
<1> QED BY <1>3, FireStep, LateKept DEF ChainStep

LEMMA RearmedLate ==
  ASSUME TimerInv, NEW t \in Timers, NEW h \in Handlers, RearmAfterTick(t, h) PROVE ChainStep
<1>1. HandlerEnds(t, h)
  BY DEF RearmAfterTick
<1> QED BY <1>1, RearmStep, EndedLate, LateKept DEF ChainStep

----------------------------------------------------------------------------
(* The timers: the clock. *)

LEMMA EmptyKept == ASSUME UNCHANGED tun PROVE Empty' <=> Empty
BY DEF Empty, Mapped, Ids, NoObj

LEMMA ClockKept ==
  ASSUME TimerInv, UNCHANGED <<age, staked, tun>> PROVE ClockInv'
BY EmptyKept DEF TimerInv, ClockInv

\* Tunnels leave: when the last one has, the silence that counts starts over.
LEMMA ClockAfterRemoval ==
  ASSUME TimerInv, NEW D, tun' = Without(D), UNCHANGED age, StakeAfter(tun') PROVE ClockInv'
<1>1. Empty => Empty'
  BY DEF Empty, Mapped, Without, Ids, NoObj
<1>2. staked' = 0 \/ staked' = staked
  BY DEF StakeAfter
<1>3. ~Empty' => staked' = staked
  BY DEF StakeAfter, Empty, Mapped, Ids, NoObj
<1> QED BY <1>1, <1>2, <1>3 DEF TimerInv, ClockInv

LEMMA ClockAfterLast ==
  ASSUME TimerInv, tun' = Without(Ids), UNCHANGED age, staked' = 0 PROVE ClockInv'
<1>1. Empty'
  BY DEF Empty, Mapped, Without, Ids, NoObj
<1> QED BY <1>1 DEF TimerInv, ClockInv

LEMMA ClockRestarted == ASSUME note_peer_activity PROVE ClockInv'
BY DEF note_peer_activity, ClockInv

\* The first tunnel restarts the clock.
LEMMA ClockAfterAdd ==
  ASSUME TimerInv, NEW o \in Objs, add_tunnel(o) PROVE ClockInv'
<1>1. CASE Cardinality(Mapped) >= MaxTunnels
  <2>1. UNCHANGED <<tun, age, staked>>
    BY <1>1 DEF add_tunnel
  <2> QED BY <2>1, ClockKept
<1>2. CASE ~(Cardinality(Mapped) >= MaxTunnels)
  <2>1. age' = (IF Empty THEN 0 ELSE age) /\ StakeAfter(tun)
    BY <1>2 DEF add_tunnel
  <2>2. (Empty => staked' = 0) /\ (~Empty => staked' = staked)
    BY <2>1 DEF StakeAfter, Empty, Mapped
  <2> QED BY <2>1, <2>2 DEF TimerInv, ClockInv
<1> QED BY <1>1, <1>2

----------------------------------------------------------------------------
(* The timers: the steps and the theorems. *)

\* The steps of the table that leave the handlers alone.
LEMMA TableSteps ==
  ASSUME TimerInv, NEW o \in Objs,
         \/ allocate_tunnel_id(o) \/ add_tunnel(o) \/ TunnelOpens(o) \/ TunnelSilent(o)
         \/ IdReleasable(o) \/ OpenRefused(o) \/ remove_tunnel_if(o) \/ SetOnIdReleasable(o)
         \/ \E i \in Ids : handle_incoming_open(o, i)
         \/ \E st \in {"owing", "silent"} : TunnelEnds(o, st) \/ TearDown(o, st)
  PROVE  ChainStep /\ ClockInv'
<1>1. UNCHANGED <<tm, hd>>
  BY DEF allocate_tunnel_id, add_tunnel, TunnelOpens, TunnelSilent, IdReleasable, OpenRefused,
         remove_tunnel_if, SetOnIdReleasable, handle_incoming_open, TunnelEnds, TearDown, timerVars,
         timersButStake, note_peer_activity
<1>2. ChainStep
  BY <1>1, HandlersKept
<1>3. CASE \/ allocate_tunnel_id(o) \/ TunnelOpens(o) \/ TunnelSilent(o) \/ IdReleasable(o)
           \/ SetOnIdReleasable(o)
           \/ \E st \in {"owing", "silent"} : TunnelEnds(o, st) \/ TearDown(o, st)
  <2>1. UNCHANGED <<age, staked, tun>>
    BY <1>3 DEF allocate_tunnel_id, TunnelOpens, TunnelSilent, IdReleasable, SetOnIdReleasable,
                TunnelEnds, TearDown, timerVars, tableVars
  <2> QED BY <1>2, <2>1, ClockKept
<1>4. CASE OpenRefused(o) \/ remove_tunnel_if(o)
  <2>1. \/ UNCHANGED <<tun, staked>>
        \/ (\E D : tun' = Without(D)) /\ StakeAfter(tun')
    <3>1. CASE OpenRefused(o)
      BY <3>1 DEF OpenRefused
    <3>2. CASE remove_tunnel_if(o)
      BY <3>2 DEF remove_tunnel_if
    <3> QED BY <1>4, <3>1, <3>2
  <2>2. UNCHANGED age
    BY <1>4 DEF OpenRefused, remove_tunnel_if, timersButStake
  <2> QED BY <1>2, <2>1, <2>2, ClockKept, ClockAfterRemoval
<1>5. CASE add_tunnel(o)
  BY <1>2, <1>5, ClockAfterAdd
<1>6. CASE \E i \in Ids : handle_incoming_open(o, i)
  BY <1>2, <1>6, ClockRestarted DEF handle_incoming_open
<1> QED BY <1>3, <1>4, <1>5, <1>6

\* The maintenance pass and the keepalive's PING.
LEMMA PassSteps ==
  ASSUME TimerInv, NEW h \in Handlers,
         \/ ReapScan(h) \/ ReapRemove(h) \/ ReapEnds(h) \/ TickPings(h) \/ TickSent(h)
         \/ \E st \in {"owing", "silent"} : ReapClose(h, st)
  PROVE  ChainStep /\ ClockInv'
<1>1. UNCHANGED tm
  BY DEF ReapScan, ReapRemove, ReapEnds, TickPings, TickSent, ReapClose
<1>2. CASE TickPings(h)
  <2>1. UNCHANGED <<age, staked, tun>>
    BY <1>2 DEF TickPings, tableVars
  <2> QED BY <1>2, <2>1, PingsStep, ClockKept
<1>3. CASE ReapScan(h) \/ ReapEnds(h) \/ TickSent(h)
  <2>1. UNCHANGED <<age, staked, tun>>
    BY <1>3 DEF ReapScan, ReapEnds, TickSent, tableVars
  <2>2. \E t \in Timers, pc \in {"reap", "rearm"} : HandlerGoto(t, h, pc) /\ hd[t][h].pc /= "idle"
    BY <1>3, TimerNames DEF ReapScan, ReapEnds, TickSent
  <2> QED BY <1>1, <2>1, <2>2, HandlersMove, ClockKept
<1>4. CASE \E st \in {"owing", "silent"} : ReapClose(h, st)
  <2>1. UNCHANGED <<age, staked, tun>> /\ hd["reaper"][h].pc = "reap"
    BY <1>4 DEF ReapClose
  <2>2. UNCHANGED hd \/ HandlerGoto("reaper", h, "remove")
    BY <1>4 DEF ReapClose
  <2>3. ChainStep
    BY <1>1, <2>1, <2>2, HandlersKept, HandlersMove, TimerNames
  <2> QED BY <2>1, <2>3, ClockKept
<1>5. CASE ReapRemove(h)
  <2>1. HandlerGoto("reaper", h, "reap") /\ hd["reaper"][h].pc = "remove" /\ UNCHANGED age
    BY <1>5 DEF ReapRemove
  <2>2. ChainStep
    BY <1>1, <2>1, HandlersMove, TimerNames
  <2>3. UNCHANGED <<tun, staked>> \/ ((\E D : tun' = Without(D)) /\ StakeAfter(tun'))
    BY <1>5 DEF ReapRemove
  <2> QED BY <2>1, <2>2, <2>3, ClockKept, ClockAfterRemoval
<1> QED BY <1>2, <1>3, <1>4, <1>5

LEMMA SessionSteps ==
  ASSUME TimerInv, route_frame \/ close_all \/ AbandonStarts \/ AbandonDetaches
  PROVE  ChainStep /\ ClockInv'
<1>1. CASE route_frame
  <2>1. note_peer_activity /\ UNCHANGED <<tm, hd>>
    BY <1>1 DEF route_frame, note_peer_activity
  <2> QED BY <2>1, HandlersKept, ClockRestarted
<1>2. CASE close_all \/ AbandonDetaches
  <2>1. UNCHANGED <<tm, hd, age>> /\ tun' = Without(Ids) /\ staked' = 0
    BY <1>2 DEF close_all, AbandonDetaches, timersButStake
  <2> QED BY <2>1, HandlersKept, ClockAfterLast
<1>3. CASE AbandonStarts
  <2>1. UNCHANGED <<age, staked, tun>>
    BY <1>3 DEF AbandonStarts, tableVars
  <2> QED BY <1>3, <2>1, OwnerStep, ClockKept
<1> QED BY <1>1, <1>2, <1>3

LEMMA TickSteps ==
  ASSUME TimerInv, TimerNext, UNCHANGED tableVars PROVE ChainStep /\ ClockInv'
<1>1. UNCHANGED tun
  BY DEF tableVars
<1>2. ASSUME NEW t \in Timers, NEW h \in Handlers, TickEnters(t, h) \/ RearmAfterTick(t, h)
      PROVE  ChainStep /\ ClockInv'
  <2>1. UNCHANGED <<age, staked>>
    BY <1>2 DEF TickEnters, RearmAfterTick
  <2> QED BY <1>1, <1>2, <2>1, EntersStep, RearmedLate, ClockKept
<1>3. ASSUME NEW h \in Handlers, TickJudges(h, Empty) PROVE ChainStep /\ ClockInv'
  BY <1>1, <1>3, JudgesStep
<1>4. ASSUME NEW h \in Handlers, TickLatches(h) \/ TickGate2(h) PROVE ChainStep /\ ClockInv'
  <2>1. UNCHANGED <<age, staked>>
    BY <1>4 DEF TickLatches, TickGate2
  <2> QED BY <1>1, <1>4, <2>1, LatchesStep, Gate2Step, ClockKept
<1>5. ASSUME NEW h \in Handlers, TellDead(h) PROVE ChainStep /\ ClockInv'
  <2>1. UNCHANGED <<tm, age, staked>> /\ hd["keepalive"][h].pc = "verdict"
    BY <1>5 DEF TellDead
  <2>2. HandlerGoto("keepalive", h, "gate2")
    BY <1>5 DEF TellDead
  <2>3. ChainStep
    BY <2>1, <2>2, HandlersMove, TimerNames
  <2> QED BY <1>1, <2>1, <2>3, ClockKept
<1>6. ASSUME TellAlive PROVE ChainStep /\ ClockInv'
  <2>1. UNCHANGED <<tm, hd, age, staked>>
    BY <1>6 DEF TellAlive
  <2> QED BY <1>1, <2>1, HandlersKept, ClockKept
<1> QED BY <1>2, <1>3, <1>4, <1>5, <1>6 DEF TimerNext

LEMMA TimePassesStep ==
  ASSUME TimerInv, TimePasses(Empty), UNCHANGED tableVars PROVE ChainStep /\ ClockInv'
<1>1. UNCHANGED <<tm, hd>> /\ age' = age + 1 /\ staked' = IF Empty THEN 0 ELSE staked + 1
  BY DEF TimePasses
<1>2. Empty' <=> Empty
  BY EmptyKept DEF tableVars
<1>3. ClockInv'
  BY <1>1, <1>2 DEF TimerInv, ClockInv
<1> QED BY <1>1, <1>3, HandlersKept

LEMMA OwnerClock ==
  ASSUME TimerInv, OwnerTimers, UNCHANGED tableVars PROVE ClockInv'
<1>1. (age' = age \/ age' = 0) /\ staked' = staked
  BY DEF OwnerTimers, enable_reaper, disable_reaper, enable_keepalive, disable_keepalive
<1>2. Empty' <=> Empty
  BY EmptyKept DEF tableVars
<1> QED BY <1>1, <1>2 DEF TimerInv, ClockInv

LEMMA TimerInit == Init => TimerInv
<1> SUFFICES ASSUME Init PROVE TimerInv
  OBVIOUS
<1>1. /\ tm = [t \in Timers |-> [on |-> FALSE, epoch |-> 0, wait |-> Unarmed]]
      /\ hd = [t \in Timers |-> [h \in Handlers |-> NoHandler]] /\ age = 0 /\ staked = 0
  BY DEF Init, TimersInit
<1>2. NoHandler \in HandlerRecord /\ NoHandler.pc = "idle"
  BY DEF NoHandler, HandlerRecord
<1>3. TimerType
  BY <1>1, <1>2 DEF TimerType, TimerRecord
<1>4. \A t \in Timers : Chain(t)
  BY <1>1, <1>2 DEF Chain, Runs
<1> QED BY <1>1, <1>3, <1>4 DEF TimerInv, ClockInv

LEMMA TimerStep == TimerInv /\ [Next]_vars => TimerInv' /\ [Honest]_vars
<1> SUFFICES ASSUME TimerInv, [Next]_vars PROVE ChainStep /\ ClockInv'
  BY DEF ChainStep, TimerInv
<1>1. CASE UNCHANGED timerVars /\ UNCHANGED tableVars
  <2>1. UNCHANGED <<tm, hd, age, staked, tun>>
    BY <1>1 DEF timerVars, tableVars
  <2> QED BY <2>1, HandlersKept, ClockKept
<1>2. CASE TimerNext /\ UNCHANGED <<queueVars, tableVars>>
  BY <1>2, TickSteps
<1>3. CASE OwnerTimers /\ UNCHANGED <<queueButBudget, tableVars>>
  BY <1>3, OwnerStep, OwnerClock
<1>4. ASSUME NEW t \in Timers, NEW h \in Handlers, TimerFires(t, h), UNCHANGED tableVars
      PROVE  ChainStep /\ ClockInv'
  <2>1. UNCHANGED <<age, staked, tun>>
    BY <1>4 DEF TimerFires, tableVars
  <2> QED BY <1>4, <2>1, FiredLate, ClockKept
<1>5. CASE TimePasses(Empty) /\ UNCHANGED tableVars
  BY <1>5, TimePassesStep
<1>6. CASE TableNext
  <2>1. \/ \E o \in Objs :
             \/ allocate_tunnel_id(o) \/ add_tunnel(o) \/ TunnelOpens(o) \/ TunnelSilent(o)
             \/ IdReleasable(o) \/ OpenRefused(o) \/ remove_tunnel_if(o) \/ SetOnIdReleasable(o)
             \/ \E i \in Ids : handle_incoming_open(o, i)
             \/ \E st \in {"owing", "silent"} : TunnelEnds(o, st) \/ TearDown(o, st)
        \/ \E h \in Handlers :
             \/ ReapScan(h) \/ ReapRemove(h) \/ ReapEnds(h) \/ TickPings(h) \/ TickSent(h)
             \/ \E st \in {"owing", "silent"} : ReapClose(h, st)
        \/ route_frame \/ close_all \/ AbandonStarts \/ AbandonDetaches
    BY <1>6 DEF TableNext
  <2> QED BY <2>1, TableSteps, PassSteps, SessionSteps
<1> QED BY <1>1, <1>2, <1>3, <1>4, <1>5, <1>6 DEF Next, vars

LEMMA ChainCounted == TimerInv => OneChain
<1> SUFFICES ASSUME TimerInv, NEW t \in Timers
             PROVE  LET waiting == IF tm[t].wait = tm[t].epoch THEN 1 ELSE 0
                        running == Cardinality(Running(t))
                    IN  IF tm[t].on THEN waiting + running = 1 ELSE tm[t].wait = Unarmed
  BY DEF OneChain, Running, Runs
<1>1. Chain(t) /\ tm[t].epoch \in Nat
  BY DEF TimerInv, TimerType, TimerRecord
<1>2. CASE ~tm[t].on
  BY <1>1, <1>2 DEF Chain
<1>3. CASE tm[t].on /\ tm[t].wait = Unarmed
  <2>1. PICK h \in Handlers : Runs(t, h)
    BY <1>1, <1>3 DEF Chain
  <2>2. Running(t) = {h}
    BY <1>1, <2>1 DEF Running, Chain
  <2>3. Cardinality(Running(t)) = 1
    BY <2>2, FS_Singleton
  <2>4. tm[t].wait /= tm[t].epoch
    BY <1>1, <1>3 DEF Unarmed
  <2> QED BY <1>3, <2>3, <2>4
<1>4. CASE tm[t].on /\ tm[t].wait /= Unarmed
  <2>1. Running(t) = {}
    BY <1>1, <1>4 DEF Running, Chain
  <2>2. Cardinality(Running(t)) = 0
    BY <2>1, FS_EmptySet
  <2>3. tm[t].wait = tm[t].epoch
    BY <1>1, <1>4 DEF Chain
  <2> QED BY <1>4, <2>2, <2>3
<1> QED BY <1>2, <1>3, <1>4

\* For any number of timer handlers in flight: a generation of the reaper or
\* of the keepalive lives in its wait or in one handler, and the clock never
\* shows more silence than a tunnel at stake has met (enable_*, disable_*,
\* rearm_*_after_tick, note_peer_activity, add_tunnel).
THEOREM TimersInvariant == Spec => []TimerInv
<1>1. Init => TimerInv
  BY TimerInit
<1>2. TimerInv /\ [Next]_vars => TimerInv'
  BY TimerStep
<1> QED BY <1>1, <1>2, PTL DEF Spec

\* An enabled timer has exactly one live chain over enables, disables and late
\* handlers, and the keepalive calls a peer dead only after the whole timeout
\* of silence with a tunnel at stake, whatever the timeout.
THEOREM KeepaliveHonestHolds == Spec => KeepaliveHonest
<1>1. TimerInv => OneChain
  BY ChainCounted
<1>2. TimerInv /\ [Next]_vars => [Honest]_vars
  BY TimerStep
<1>3. Spec => [][Honest]_vars
  BY <1>2, TimersInvariant, PTL DEF Spec
<1>4. Spec => NoHastyVerdict
  BY <1>3 DEF Honest, NoHastyVerdict
<1> QED BY <1>1, <1>4, TimersInvariant, PTL DEF KeepaliveHonest

----------------------------------------------------------------------------
(* The retry queue: the inductive invariants. *)

SenderRecord == [pc : {"off", "new", "barrier", "recheck", "call", "park", "parked", "sent",
                       "failed", "gone"},
                 before : SUBSET Senders]
DrainRecord == [pc : {"idle", "enter", "pop", "check", "call", "requeue", "next", "leave"},
                epoch : Int, frame : Seq(Senders)]
QueueRecord == [items : Seq(Senders), armed : BOOLEAN, epoch : Int, inflight : BOOLEAN,
                muted : BOOLEAN]

QueueType == /\ q \in QueueRecord /\ timer \in Int
             /\ dr \in [Drains -> DrainRecord] /\ snd \in [Senders -> SenderRecord]
             /\ wire \in Seq(Senders) /\ dropped \in SUBSET Senders

\* No frame is in the sequence s twice.
OnceEach(s) == \A i, j \in DOMAIN s : s[i] = s[j] => i = j
Parked(x) == x \in ToSet(q.items)
With(d, x) == x \in ToSet(dr[d].frame)
Held(x) == Parked(x) \/ \E d \in Drains : With(d, x)
Sent(x) == x \in ToSet(wire)

\* A frame that was parked is in one place: in the deque, with one drain, on
\* the wire, among the dropped, or given up; its sender is done with it.
Places ==
  /\ OnceEach(q.items) /\ \A d \in Drains : OnceEach(dr[d].frame)
  /\ \A x \in Senders, d \in Drains : ~(With(d, x) /\ Parked(x))
  /\ \A x \in Senders, d, e \in Drains : With(d, x) /\ With(e, x) => d = e
  /\ \A x \in Senders : Held(x) \/ x \in dropped => snd[x].pc = "parked"
  /\ \A x \in Senders : Sent(x) => snd[x].pc \in {"sent", "parked"}
  /\ \A x \in Senders : ~(Held(x) /\ (x \in dropped \/ Sent(x)))
  /\ \A x \in Senders : ~(x \in dropped /\ Sent(x))

QueueInv == QueueType /\ Places

\* Behind the barrier: a sender that was let through has no frame parked before
\* it left, and a frame a drain has popped keeps the barrier closed.
FifoInv ==
  /\ passed = {}
  /\ \A s \in Senders : \A f \in snd[s].before : snd[f].pc = "parked"
  /\ \A s \in Senders : snd[s].pc \in {"recheck", "call", "park"} => \A f \in snd[s].before : ~Held(f)
  /\ \A d \in Drains : /\ dr[d].frame /= <<>> => q.inflight
                       /\ dr[d].pc \in {"next", "leave"} => dr[d].frame = <<>>

\* One drain at a time, and what every step keeps.
OneDrain == \A d, e \in Drains : d = e
Kept == QueueInv' /\ (OneDrain /\ FifoInv => FifoInv')

----------------------------------------------------------------------------
(* The retry queue: sequences of frames. *)

LEMMA FrameAppend ==
  ASSUME NEW S, NEW s \in Seq(S), NEW x \in S
  PROVE  /\ Append(s, x) \in Seq(S) /\ \A y : y \in ToSet(Append(s, x)) <=> y \in ToSet(s) \/ y = x
         /\ OnceEach(s) /\ x \notin ToSet(s) => OnceEach(Append(s, x))
<1>1. Append(s, x) \in Seq(S) /\ Len(Append(s, x)) = Len(s) + 1 /\ Append(s, x)[Len(s) + 1] = x
      /\ \A i \in 1 .. Len(s) : Append(s, x)[i] = s[i]
  OBVIOUS
<1> DEFINE t == Append(s, x)
<1>2. DOMAIN s = 1 .. Len(s) /\ DOMAIN t = 1 .. (Len(s) + 1) /\ Len(s) \in Nat
  OBVIOUS
<1> HIDE DEF t
<1>3. \A y : y \in ToSet(t) <=> y \in ToSet(s) \/ y = x
  BY <1>1, <1>2 DEF ToSet, t
<1>4. ASSUME OnceEach(s), x \notin ToSet(s) PROVE OnceEach(t)
  BY <1>1, <1>2, <1>4 DEF OnceEach, ToSet, t
<1> QED BY <1>1, <1>3, <1>4 DEF t

LEMMA FrameTail ==
  ASSUME NEW S, NEW s \in Seq(S), s /= <<>>
  PROVE  /\ Tail(s) \in Seq(S) /\ Head(s) \in S
         /\ \A y : y \in ToSet(s) <=> y \in ToSet(Tail(s)) \/ y = Head(s)
         /\ OnceEach(s) => OnceEach(Tail(s)) /\ Head(s) \notin ToSet(Tail(s))
<1> DEFINE t == Tail(s)
<1>1. /\ t \in Seq(S) /\ Head(s) = s[1] /\ Len(s) \in Nat /\ Len(s) >= 1 /\ Len(t) = Len(s) - 1
      /\ \A i \in 1 .. Len(t) : t[i] = s[i + 1]
  OBVIOUS
<1>2. DOMAIN s = 1 .. Len(s) /\ DOMAIN t = 1 .. (Len(s) - 1)
  BY <1>1
<1>3. Head(s) \in S
  BY <1>1
<1> HIDE DEF t
<1>4. ASSUME NEW y, y \in ToSet(s) PROVE y \in ToSet(t) \/ y = Head(s)
  <2>1. PICK i \in 1 .. Len(s) : s[i] = y
    BY <1>2, <1>4 DEF ToSet
  <2>2. CASE i = 1
    BY <1>1, <2>1, <2>2
  <2>3. CASE i /= 1
    <3>1. i - 1 \in 1 .. (Len(s) - 1) /\ t[i - 1] = y
      BY <1>1, <2>1, <2>3
    <3> QED BY <1>2, <3>1 DEF ToSet
  <2> QED BY <2>2, <2>3
<1>5. ASSUME NEW y, y \in ToSet(t) PROVE y \in ToSet(s)
  <2>1. PICK i \in 1 .. (Len(s) - 1) : t[i] = y
    BY <1>2, <1>5 DEF ToSet
  <2>2. i + 1 \in 1 .. Len(s) /\ s[i + 1] = y
    BY <1>1, <2>1
  <2> QED BY <1>2, <2>2 DEF ToSet
<1>6. Head(s) \in ToSet(s)
  BY <1>1, <1>2 DEF ToSet
<1>7. ASSUME OnceEach(s) PROVE OnceEach(t) /\ Head(s) \notin ToSet(t)
  <2>1. \A i \in 1 .. (Len(s) - 1) : t[i] = s[i + 1] /\ i + 1 \in 1 .. Len(s) /\ i + 1 /= 1 /\ i \in Int
    BY <1>1
  <2>2. \A i, j \in 1 .. Len(s) : s[i] = s[j] => i = j
    BY <1>2, <1>7 DEF OnceEach
  <2>3. OnceEach(t)
    BY <1>2, <2>1, <2>2 DEF OnceEach
  <2>4. 1 \in 1 .. Len(s)
    BY <1>1
  <2>5. \A i \in 1 .. (Len(s) - 1) : t[i] /= s[1]
    BY <2>1, <2>2, <2>4
  <2> QED BY <1>1, <1>2, <2>3, <2>5 DEF ToSet
<1> QED BY <1>1, <1>3, <1>4, <1>5, <1>6, <1>7 DEF t

LEMMA FrameConcat ==
  ASSUME NEW S, NEW s \in Seq(S), NEW t \in Seq(S)
  PROVE  /\ s \o t \in Seq(S) /\ \A y : y \in ToSet(s \o t) <=> y \in ToSet(s) \/ y \in ToSet(t)
         /\ OnceEach(s) /\ OnceEach(t) /\ (\A y \in S : ~(y \in ToSet(s) /\ y \in ToSet(t)))
              => OnceEach(s \o t)
<1> DEFINE u == s \o t
           m == Len(s)
           n == Len(t)
<1>1. /\ u \in Seq(S) /\ m \in Nat /\ n \in Nat /\ Len(u) = m + n
      /\ \A i \in 1 .. (m + n) : u[i] = IF i <= m THEN s[i] ELSE t[i - m]
  OBVIOUS
<1>2. DOMAIN s = 1 .. m /\ DOMAIN t = 1 .. n /\ DOMAIN u = 1 .. (m + n)
  BY <1>1
<1>3. \A i \in 1 .. m : s[i] \in S
  OBVIOUS
<1> HIDE DEF u, m, n
<1>4. ASSUME NEW y, y \in ToSet(u) PROVE y \in ToSet(s) \/ y \in ToSet(t)
  <2>1. PICK i \in 1 .. (m + n) : u[i] = y
    BY <1>2, <1>4 DEF ToSet
  <2>2. CASE i <= m
    <3>1. i \in 1 .. m /\ s[i] = y
      BY <1>1, <2>1, <2>2
    <3> QED BY <1>2, <3>1 DEF ToSet
  <2>3. CASE ~(i <= m)
    <3>1. i - m \in 1 .. n /\ t[i - m] = y
      BY <1>1, <2>1, <2>3
    <3> QED BY <1>2, <3>1 DEF ToSet
  <2> QED BY <2>2, <2>3
<1>5. ASSUME NEW y, y \in ToSet(s) PROVE y \in ToSet(u)
  <2>1. PICK i \in 1 .. m : s[i] = y
    BY <1>2, <1>5 DEF ToSet
  <2>2. i \in 1 .. (m + n) /\ u[i] = y
    BY <1>1, <2>1
  <2> QED BY <1>2, <2>2 DEF ToSet
<1>6. ASSUME NEW y, y \in ToSet(t) PROVE y \in ToSet(u)
  <2>1. PICK i \in 1 .. n : t[i] = y
    BY <1>2, <1>6 DEF ToSet
  <2>2. i + m \in 1 .. (m + n) /\ u[i + m] = y
    BY <1>1, <2>1
  <2> QED BY <1>2, <2>2 DEF ToSet
<1>7. ASSUME OnceEach(s), OnceEach(t), \A y \in S : ~(y \in ToSet(s) /\ y \in ToSet(t))
      PROVE  OnceEach(u)
  <2>1. ASSUME NEW i \in 1 .. m, NEW j \in 1 .. n PROVE s[i] /= t[j]
    <3>1. s[i] \in S /\ s[i] \in ToSet(s) /\ t[j] \in ToSet(t)
      BY <1>2, <1>3 DEF ToSet
    <3> QED BY <1>7, <3>1
  <2>2. SUFFICES ASSUME NEW i \in 1 .. (m + n), NEW j \in 1 .. (m + n), u[i] = u[j] PROVE i = j
    BY <1>2 DEF OnceEach
  <2>3. CASE i <= m /\ j <= m
    <3>1. i \in 1 .. m /\ j \in 1 .. m /\ s[i] = s[j]
      BY <1>1, <2>2, <2>3
    <3> QED BY <1>2, <1>7, <3>1 DEF OnceEach
  <2>4. CASE ~(i <= m) /\ ~(j <= m)
    <3>1. i - m \in 1 .. n /\ j - m \in 1 .. n /\ t[i - m] = t[j - m]
      BY <1>1, <2>2, <2>4
    <3>2. i - m = j - m
      BY <1>2, <1>7, <3>1 DEF OnceEach
    <3> QED BY <1>1, <3>2
  <2>5. CASE i <= m /\ ~(j <= m)
    <3>1. i \in 1 .. m /\ j - m \in 1 .. n /\ s[i] = t[j - m]
      BY <1>1, <2>2, <2>5
    <3> QED BY <2>1, <3>1
  <2>6. CASE ~(i <= m) /\ j <= m
    <3>1. j \in 1 .. m /\ i - m \in 1 .. n /\ s[j] = t[i - m]
      BY <1>1, <2>2, <2>6
    <3> QED BY <2>1, <3>1
  <2> QED BY <2>3, <2>4, <2>5, <2>6
<1> QED BY <1>1, <1>4, <1>5, <1>6, <1>7 DEF u

LEMMA FrameNone ==
  /\ \A S : <<>> \in Seq(S) 
  /\ \A y : y \notin ToSet(<<>>)
  /\ OnceEach(<<>>)
BY DEF ToSet, OnceEach

LEMMA FrameOne ==
  ASSUME NEW S, NEW x \in S
  PROVE  <<x>> \in Seq(S) /\ <<x>> /= <<>> /\ OnceEach(<<x>>) /\ \A y : y \in ToSet(<<x>>) <=> y = x
<1>1. DOMAIN <<x>> = {1} /\ <<x>>[1] = x
  OBVIOUS
<1> QED BY <1>1 DEF ToSet, OnceEach

LEMMA FrameMembers ==
  ASSUME NEW S, NEW s \in Seq(S), NEW y, y \in ToSet(s) PROVE y \in S /\ s /= <<>>
<1>1. DOMAIN s = 1 .. Len(s) /\ \A i \in 1 .. Len(s) : s[i] \in S
  OBVIOUS
<1>2. y \in S
  BY <1>1 DEF ToSet
<1>3. s /= <<>>
  BY FrameNone
<1> QED BY <1>2, <1>3

----------------------------------------------------------------------------
(* The retry queue: the kinds of step. *)

LEMMA QueueFields ==
  ASSUME QueueInv
  PROVE  /\ q \in QueueRecord /\ q.items \in Seq(Senders) /\ timer \in Int /\ q.epoch \in Int
         /\ dr \in [Drains -> DrainRecord] /\ snd \in [Senders -> SenderRecord]
         /\ wire \in Seq(Senders) /\ dropped \in SUBSET Senders
         /\ \A d \in Drains : dr[d] \in DrainRecord /\ dr[d].frame \in Seq(Senders)
         /\ \A s \in Senders : snd[s] \in SenderRecord /\ snd[s].before \in SUBSET Senders
BY DEF QueueInv, QueueType, QueueRecord, DrainRecord, SenderRecord

LEMMA HeldUnsent == ASSUME QueueInv PROVE \A x : x \in Unsent <=> x \in Senders /\ Held(x)
<1>1. \A x : x \in Unsent <=> Held(x)
  BY DEF Unsent, InDrains, Held, Parked, With
<1>2. ASSUME NEW x, Held(x) PROVE x \in Senders
  BY <1>2, QueueFields, FrameMembers DEF Held, Parked, With
<1> QED BY <1>1, <1>2

\* Nothing is parked, popped, sent or dropped.
LEMMA NothingGained ==
  ASSUME QueueInv, QueueType', UNCHANGED <<wire, dropped>>,
         OnceEach(q'.items), \A d \in Drains : OnceEach(dr'[d].frame),
         \A x \in Senders : Parked(x)' => Parked(x),
         \A x \in Senders, d \in Drains : With(d, x)' => With(d, x),
         \A x \in Senders : snd[x].pc \in {"parked", "sent"} => snd'[x].pc = snd[x].pc
  PROVE  QueueInv' /\ \A x \in Senders : Held(x)' => Held(x)
<1>1. \A x \in Senders : Held(x)' => Held(x)
  BY DEF Held
<1>2. \A x \in Senders : Sent(x)' <=> Sent(x)
  BY DEF Sent
<1>3. Places
  BY DEF QueueInv
<1>4. \A x \in Senders, d, e \in Drains : With(d, x)' /\ With(e, x)' => d = e
  BY <1>3 DEF Places
<1>5. \A x \in Senders, d \in Drains : ~(With(d, x)' /\ Parked(x)')
  BY <1>3 DEF Places
<1>6. \A x \in Senders : /\ Held(x)' \/ x \in dropped' => snd'[x].pc = "parked"
                         /\ Sent(x)' => snd'[x].pc \in {"sent", "parked"}
                         /\ ~(Held(x)' /\ (x \in dropped' \/ Sent(x)'))
                         /\ ~(x \in dropped' /\ Sent(x)')
  BY <1>1, <1>2, <1>3 DEF Places
<1>7. Places'
  BY <1>4, <1>5, <1>6 DEF Places
<1> QED BY <1>1, <1>7 DEF QueueInv

\* A sender is written and the queue left alone.
LEMMA SenderWrite ==
  ASSUME QueueInv, NEW s \in Senders, NEW r \in SenderRecord, snd' = [snd EXCEPT ![s] = r],
         snd[s].pc \notin {"parked", "sent"}, UNCHANGED <<q, timer, dr, wire, dropped>>
  PROVE  /\ QueueInv' /\ \A x \in Senders : Held(x)' <=> Held(x)
         /\ snd'[s] = r /\ \A x \in Senders : x /= s => snd'[x] = snd[x]
<1>1. snd' \in [Senders -> SenderRecord] /\ snd'[s] = r /\ \A x \in Senders : x /= s => snd'[x] = snd[x]
  BY QueueFields
<1>2. QueueType'
  BY <1>1 DEF QueueInv, QueueType, QueueRecord, DrainRecord, SenderRecord
<1>3. \A x \in Senders : snd[x].pc \in {"parked", "sent"} => snd'[x].pc = snd[x].pc
  BY <1>1
<1>4. \A x : (Parked(x)' <=> Parked(x)) /\ \A d \in Drains : With(d, x)' <=> With(d, x)
  BY DEF Parked, With
<1>5. \A x : Held(x)' <=> Held(x)
  BY <1>4 DEF Held
<1>6. OnceEach(q'.items) /\ \A d \in Drains : OnceEach(dr'[d].frame)
  BY DEF QueueInv, Places
<1>7. QueueInv'
  BY <1>2, <1>3, <1>4, <1>6, NothingGained
<1> QED BY <1>1, <1>5, <1>7

\* A sender that was not let through moves on, or one that was stays so.
LEMMA SenderMoves ==
  ASSUME QueueInv, NEW s \in Senders, NEW pc, Goto(s, pc),
         pc \in {"new", "recheck", "call", "park", "failed", "gone"},
         snd[s].pc \notin {"parked", "sent"}, UNCHANGED <<q, timer, dr, wire, dropped, passed>>,
         pc \in {"recheck", "call", "park"} =>
           \/ snd[s].pc \in {"recheck", "call", "park"}
           \/ OneDrain /\ FifoInv => \A x \in Senders : ~Held(x)
  PROVE  Kept
<1> DEFINE r == [snd[s] EXCEPT !.pc = pc]
<1>1. snd' = [snd EXCEPT ![s] = r]
  BY QueueFields DEF Goto
<1>2. r \in SenderRecord /\ r.pc = pc /\ r.before = snd[s].before
  BY QueueFields DEF SenderRecord
<1> HIDE DEF r
<1>3. /\ QueueInv' /\ \A x \in Senders : Held(x)' <=> Held(x)
      /\ snd'[s] = r /\ \A x \in Senders : x /= s => snd'[x] = snd[x]
  BY <1>1, <1>2, SenderWrite
<1>4. ASSUME OneDrain, FifoInv PROVE FifoInv'
  <2>1. \A x \in Senders : snd'[x].before = snd[x].before /\ snd[x].before \in SUBSET Senders
    BY <1>2, <1>3, QueueFields
  <2>2. \A x \in Senders : \A f \in snd'[x].before : snd'[f].pc = "parked"
    BY <1>3, <1>4, <2>1 DEF FifoInv
  <2>3. ASSUME NEW x \in Senders, snd'[x].pc \in {"recheck", "call", "park"}
        PROVE  \A f \in snd'[x].before : ~Held(f)'
    <3>1. CASE x /= s
      BY <1>3, <1>4, <2>1, <2>3, <3>1 DEF FifoInv
    <3>2. CASE x = s
      BY <1>2, <1>3, <1>4, <2>1, <2>3, <3>2 DEF FifoInv
    <3> QED BY <3>1, <3>2
  <2>4. /\ passed' = {}
        /\ \A d \in Drains : /\ dr'[d].frame /= <<>> => q'.inflight
                             /\ dr'[d].pc \in {"next", "leave"} => dr'[d].frame = <<>>
    BY <1>4 DEF FifoInv
  <2> QED BY <2>2, <2>3, <2>4 DEF FifoInv
<1> QED BY <1>3, <1>4 DEF Kept

\* One drain is written; frames are kept or given up.
LEMMA DrainWrite ==
  ASSUME QueueInv, NEW d \in Drains, NEW r \in DrainRecord, dr' = [dr EXCEPT ![d] = r],
         r.frame = dr[d].frame \/ r.frame = <<>>, q' \in QueueRecord, timer' \in Int,
         q'.items = q.items \/ q'.items = <<>>, UNCHANGED <<snd, wire, dropped, passed>>,
         r.pc \in {"next", "leave"} => r.frame = <<>>,
         FifoInv => q'.inflight = q.inflight \/ r.frame = <<>>
  PROVE  Kept
<1>1. dr' \in [Drains -> DrainRecord] /\ \A e \in Drains : dr'[e] = IF e = d THEN r ELSE dr[e]
  BY QueueFields
<1>2. QueueType'
  BY <1>1 DEF QueueInv, QueueType, QueueRecord, DrainRecord, SenderRecord
<1>3. Places
  BY DEF QueueInv
<1>4. OnceEach(q'.items)
  BY <1>3, FrameNone DEF Places
<1>5. \A e \in Drains : OnceEach(dr'[e].frame)
  BY <1>1, <1>3, FrameNone DEF Places
<1>6. \A x \in Senders : Parked(x)' => Parked(x)
  BY FrameNone DEF Parked
<1>7. \A x \in Senders, e \in Drains : With(e, x)' => With(e, x)
  BY <1>1, FrameNone DEF With
<1>8. QueueInv' /\ \A x \in Senders : Held(x)' => Held(x)
  BY <1>2, <1>4, <1>5, <1>6, <1>7, NothingGained
<1>9. ASSUME OneDrain, FifoInv PROVE FifoInv'
  <2>1. \A x \in Senders : snd[x].before \in SUBSET Senders
    BY QueueFields
  <2>2. \A x \in Senders : snd'[x].pc \in {"recheck", "call", "park"} =>
          \A f \in snd'[x].before : ~Held(f)'
    BY <1>8, <1>9, <2>1 DEF FifoInv
  <2>3. \A e \in Drains : e = d /\ dr'[e] = r
    BY <1>1, <1>9 DEF OneDrain
  <2>4. \A e \in Drains : /\ dr'[e].frame /= <<>> => q'.inflight
                          /\ dr'[e].pc \in {"next", "leave"} => dr'[e].frame = <<>>
    BY <1>9, <2>3 DEF FifoInv
  <2> QED BY <1>9, <2>2, <2>4 DEF FifoInv
<1> QED BY <1>8, <1>9 DEF Kept

\* A frame joins the deque; its sender is done with it.
LEMMA EnqueueStep ==
  ASSUME QueueInv, NEW s \in Senders, Enqueue(s), Goto(s, "parked"), snd[s].pc \in {"barrier", "park"},
         UNCHANGED <<dr, wire, dropped, passed>>
  PROVE  Kept
<1> DEFINE y == [q EXCEPT !.items = Append(@, s)]
           r == [snd[s] EXCEPT !.pc = "parked"]
<1>1. snd' = [snd EXCEPT ![s] = r]
  BY QueueFields DEF Goto
<1>2. r \in SenderRecord /\ r.pc = "parked" /\ r.before = snd[s].before
  BY QueueFields DEF SenderRecord
<1>3. /\ Append(q.items, s) \in Seq(Senders)
      /\ \A x : x \in ToSet(Append(q.items, s)) <=> x \in ToSet(q.items) \/ x = s
      /\ OnceEach(q.items) /\ s \notin ToSet(q.items) => OnceEach(Append(q.items, s))
  BY QueueFields, FrameAppend
<1>4. y \in QueueRecord /\ y.items = Append(q.items, s) /\ y.inflight = q.inflight /\ y.epoch = q.epoch
  BY <1>3, QueueFields DEF QueueRecord
<1>5. arm(y)
  BY DEF Enqueue
<1> HIDE DEF r, y
<1>6. /\ q' \in QueueRecord /\ q'.items = Append(q.items, s) /\ q'.inflight = q.inflight
      /\ timer' \in Int
  <2>1. [y EXCEPT !.armed = TRUE] \in QueueRecord /\ [y EXCEPT !.armed = TRUE].items = y.items
        /\ [y EXCEPT !.armed = TRUE].inflight = y.inflight
    BY <1>4 DEF QueueRecord
  <2> QED BY <1>4, <1>5, <2>1, QueueFields DEF arm
<1>7. snd' \in [Senders -> SenderRecord] /\ \A x \in Senders : snd'[x] = IF x = s THEN r ELSE snd[x]
  BY <1>1, <1>2, QueueFields
<1>8. QueueType'
  BY <1>6, <1>7 DEF QueueInv, QueueType, QueueRecord, DrainRecord, SenderRecord
<1>9. Places /\ ~Held(s) /\ s \notin dropped /\ ~Sent(s) /\ \A d \in Drains : ~With(d, s)
  BY DEF QueueInv, Places, Held
<1>10. \A x \in Senders : (Parked(x)' <=> Parked(x) \/ x = s)
                          /\ \A d \in Drains : With(d, x)' <=> With(d, x)
  BY <1>3, <1>6 DEF Parked, With
<1>11. \A x \in Senders : (Held(x)' <=> Held(x) \/ x = s) /\ (Sent(x)' <=> Sent(x))
  BY <1>10 DEF Held, Sent
<1>12. Places'
  <2>1. OnceEach(q'.items) /\ \A d \in Drains : OnceEach(dr'[d].frame)
    BY <1>3, <1>6, <1>9 DEF Places, Held, Parked
  <2>2. \A x \in Senders, d \in Drains : ~(With(d, x)' /\ Parked(x)')
    BY <1>9, <1>10 DEF Places
  <2>3. \A x \in Senders, d, e \in Drains : With(d, x)' /\ With(e, x)' => d = e
    BY <1>9, <1>10 DEF Places
  <2>4. \A x \in Senders : /\ Held(x)' \/ x \in dropped' => snd'[x].pc = "parked"
                           /\ Sent(x)' => snd'[x].pc \in {"sent", "parked"}
                           /\ ~(Held(x)' /\ (x \in dropped' \/ Sent(x)'))
                           /\ ~(x \in dropped' /\ Sent(x)')
    BY <1>2, <1>7, <1>9, <1>11 DEF Places
  <2> QED BY <2>1, <2>2, <2>3, <2>4 DEF Places
<1>13. ASSUME FifoInv PROVE FifoInv'
  <2>1. \A x \in Senders : /\ snd'[x].before = snd[x].before /\ snd[x].before \in SUBSET Senders
                           /\ x /= s => snd'[x].pc = snd[x].pc
    BY <1>2, <1>7, QueueFields
  <2>2. snd'[s].pc = "parked" /\ \A x \in Senders : s \notin snd[x].before
    BY <1>2, <1>7, <1>13 DEF FifoInv
  <2>3. \A x \in Senders : \A f \in snd'[x].before : snd'[f].pc = "parked"
    BY <1>13, <2>1, <2>2 DEF FifoInv
  <2>4. \A x \in Senders : snd'[x].pc \in {"recheck", "call", "park"} =>
          \A f \in snd'[x].before : ~Held(f)'
    BY <1>11, <1>13, <2>1, <2>2 DEF FifoInv
  <2>5. /\ passed' = {}
        /\ \A d \in Drains : /\ dr'[d].frame /= <<>> => q'.inflight
                             /\ dr'[d].pc \in {"next", "leave"} => dr'[d].frame = <<>>
    BY <1>6, <1>13 DEF FifoInv
  <2> QED BY <2>3, <2>4, <2>5 DEF FifoInv
<1> QED BY <1>8, <1>12, <1>13 DEF Kept, QueueInv

\* The transport takes a sender's frame.
LEMMA SendStep ==
  ASSUME QueueInv, NEW s \in Senders, Goto(s, "sent"), snd[s].pc = "call", wire' = Append(wire, s),
         passed' = passed \cup ((snd[s].before \cap Unsent) \X {s}), UNCHANGED <<q, timer, dr, dropped>>
  PROVE  Kept
<1> DEFINE r == [snd[s] EXCEPT !.pc = "sent"]
<1>1. snd' = [snd EXCEPT ![s] = r]
  BY QueueFields DEF Goto
<1>2. r \in SenderRecord /\ r.pc = "sent" /\ r.before = snd[s].before
  BY QueueFields DEF SenderRecord
<1> HIDE DEF r
<1>3. snd' \in [Senders -> SenderRecord] /\ \A x \in Senders : snd'[x] = IF x = s THEN r ELSE snd[x]
  BY <1>1, <1>2, QueueFields
<1>4. wire' \in Seq(Senders) /\ \A x \in Senders : Sent(x)' <=> Sent(x) \/ x = s
  BY QueueFields, FrameAppend DEF Sent
<1>5. QueueType'
  BY <1>3, <1>4 DEF QueueInv, QueueType, QueueRecord, DrainRecord, SenderRecord
<1>6. Places /\ ~Held(s) /\ s \notin dropped
  BY DEF QueueInv, Places
<1>7. \A x \in Senders : (Parked(x)' <=> Parked(x)) /\ \A d \in Drains : With(d, x)' <=> With(d, x)
  BY DEF Parked, With
<1>8. \A x \in Senders : Held(x)' <=> Held(x)
  BY <1>7 DEF Held
<1>9. Places'
  <2>1. \A x \in Senders, d \in Drains : ~(With(d, x)' /\ Parked(x)')
    BY <1>6, <1>7 DEF Places
  <2>2. \A x \in Senders, d, e \in Drains : With(d, x)' /\ With(e, x)' => d = e
    BY <1>6, <1>7 DEF Places
  <2>3. \A x \in Senders : /\ Held(x)' \/ x \in dropped' => snd'[x].pc = "parked"
                           /\ Sent(x)' => snd'[x].pc \in {"sent", "parked"}
                           /\ ~(Held(x)' /\ (x \in dropped' \/ Sent(x)'))
                           /\ ~(x \in dropped' /\ Sent(x)')
    BY <1>2, <1>3, <1>4, <1>6, <1>8 DEF Places
  <2> QED BY <1>6, <2>1, <2>2, <2>3 DEF Places
<1>10. ASSUME FifoInv PROVE FifoInv'
  <2>1. \A x \in Senders : /\ snd'[x].before = snd[x].before /\ snd[x].before \in SUBSET Senders
                           /\ x /= s => snd'[x].pc = snd[x].pc
    BY <1>2, <1>3, QueueFields
  <2>2. snd'[s].pc = "sent" /\ \A x \in Senders : s \notin snd[x].before
    BY <1>2, <1>3, <1>10 DEF FifoInv
  <2>3. \A x \in Senders : \A f \in snd'[x].before : snd'[f].pc = "parked"
    BY <1>10, <2>1, <2>2 DEF FifoInv
  <2>4. \A x \in Senders : snd'[x].pc \in {"recheck", "call", "park"} =>
          \A f \in snd'[x].before : ~Held(f)'
    BY <1>8, <1>10, <2>1, <2>2 DEF FifoInv
  <2>5. passed' = {}
    <3>1. snd[s].before \cap Unsent = {}
      BY <1>10, HeldUnsent DEF FifoInv
    <3> QED BY <1>10, <3>1 DEF FifoInv
  <2>6. \A d \in Drains : /\ dr'[d].frame /= <<>> => q'.inflight
                          /\ dr'[d].pc \in {"next", "leave"} => dr'[d].frame = <<>>
    BY <1>10 DEF FifoInv
  <2> QED BY <2>3, <2>4, <2>5, <2>6 DEF FifoInv
<1> QED BY <1>5, <1>9, <1>10 DEF Kept, QueueInv

\* A drain takes the front frame and keeps the barrier closed.
LEMMA PopStep ==
  ASSUME QueueInv, NEW d \in Drains, NEW r \in DrainRecord, dr' = [dr EXCEPT ![d] = r],
         r.pc = "check", r.frame = <<Head(q.items)>>, q.items /= <<>>,
         q' = [q EXCEPT !.items = Tail(@), !.inflight = TRUE],
         UNCHANGED <<timer, snd, wire, dropped, passed>>
  PROVE  Kept
<1> DEFINE h == Head(q.items)
<1>1. /\ Tail(q.items) \in Seq(Senders) /\ h \in Senders
      /\ \A x : x \in ToSet(q.items) <=> x \in ToSet(Tail(q.items)) \/ x = h
      /\ OnceEach(q.items) => OnceEach(Tail(q.items)) /\ h \notin ToSet(Tail(q.items))
  BY QueueFields, FrameTail
<1>2. r.frame /= <<>> /\ OnceEach(r.frame) /\ \A x : x \in ToSet(r.frame) <=> x = h
  BY <1>1, FrameOne
<1>3. q' \in QueueRecord /\ q'.items = Tail(q.items) /\ q'.inflight
  BY <1>1, QueueFields DEF QueueRecord
<1>4. dr' \in [Drains -> DrainRecord] /\ \A e \in Drains : dr'[e] = IF e = d THEN r ELSE dr[e]
  BY QueueFields
<1>5. QueueType'
  BY <1>3, <1>4 DEF QueueInv, QueueType, QueueRecord, DrainRecord, SenderRecord
<1>6. Places /\ OnceEach(q.items) /\ Parked(h)
  BY <1>1 DEF QueueInv, Places, Parked
<1> HIDE DEF h
<1>7. \A x \in Senders : /\ Parked(x)' <=> Parked(x) /\ x /= h
                         /\ \A e \in Drains : With(e, x)' <=> (IF e = d THEN x = h ELSE With(e, x))
  BY <1>1, <1>2, <1>3, <1>4, <1>6 DEF Parked, With
<1>8. \A x \in Senders : (Held(x)' => Held(x)) /\ (Sent(x)' <=> Sent(x))
  BY <1>1, <1>6, <1>7 DEF Held, Sent
<1>9. \A e \in Drains : ~With(e, h)
  BY <1>1, <1>6 DEF Places
<1>10. Places'
  <2>1. OnceEach(q'.items) /\ \A e \in Drains : OnceEach(dr'[e].frame)
    BY <1>1, <1>2, <1>3, <1>4, <1>6 DEF Places
  <2>2. \A x \in Senders, e \in Drains : ~(With(e, x)' /\ Parked(x)')
    BY <1>6, <1>7 DEF Places
  <2>3. \A x \in Senders, e, f \in Drains : With(e, x)' /\ With(f, x)' => e = f
    BY <1>6, <1>7, <1>9 DEF Places
  <2>4. \A x \in Senders : /\ Held(x)' \/ x \in dropped' => snd'[x].pc = "parked"
                           /\ Sent(x)' => snd'[x].pc \in {"sent", "parked"}
                           /\ ~(Held(x)' /\ (x \in dropped' \/ Sent(x)'))
                           /\ ~(x \in dropped' /\ Sent(x)')
    BY <1>6, <1>8 DEF Places
  <2> QED BY <2>1, <2>2, <2>3, <2>4 DEF Places
<1>11. ASSUME OneDrain, FifoInv PROVE FifoInv'
  <2>1. \A x \in Senders : snd[x].before \in SUBSET Senders
    BY QueueFields
  <2>2. \A x \in Senders : snd'[x].pc \in {"recheck", "call", "park"} =>
          \A f \in snd'[x].before : ~Held(f)'
    BY <1>8, <1>11, <2>1 DEF FifoInv
  <2>3. \A e \in Drains : /\ dr'[e].frame /= <<>> => q'.inflight
                          /\ dr'[e].pc \in {"next", "leave"} => dr'[e].frame = <<>>
    BY <1>3, <1>4, <1>11 DEF FifoInv
  <2> QED BY <1>11, <2>2, <2>3 DEF FifoInv
<1> QED BY <1>5, <1>10, <1>11 DEF Kept, QueueInv

\* The transport takes a drain's frame.
LEMMA DrainSends ==
  ASSUME QueueInv, NEW d \in Drains, NEW r \in DrainRecord, dr' = [dr EXCEPT ![d] = r],
         r.frame = <<>>, wire' = wire \o dr[d].frame,
         UNCHANGED <<q, timer, snd, dropped, passed>>
  PROVE  Kept
<1>1. /\ wire' \in Seq(Senders) /\ \A x \in Senders : Sent(x)' <=> Sent(x) \/ With(d, x)
  BY QueueFields, FrameConcat DEF Sent, With
<1>2. dr' \in [Drains -> DrainRecord] /\ \A e \in Drains : dr'[e] = IF e = d THEN r ELSE dr[e]
  BY QueueFields
<1>3. QueueType'
  BY <1>1, <1>2 DEF QueueInv, QueueType, QueueRecord, DrainRecord, SenderRecord
<1>4. Places
  BY DEF QueueInv
<1>5. \A x \in Senders : /\ Parked(x)' <=> Parked(x)
                         /\ \A e \in Drains : With(e, x)' <=> With(e, x) /\ e /= d
  BY <1>2, FrameNone DEF Parked, With
<1>6. \A x \in Senders : /\ Held(x)' => Held(x) /\ ~With(d, x)
                         /\ With(d, x) => Held(x)
  BY <1>4, <1>5 DEF Held, Places
<1>7. Places'
  <2>1. OnceEach(q'.items) /\ \A e \in Drains : OnceEach(dr'[e].frame)
    BY <1>2, <1>4, FrameNone DEF Places
  <2>2. \A x \in Senders, e \in Drains : ~(With(e, x)' /\ Parked(x)')
    BY <1>4, <1>5 DEF Places
  <2>3. \A x \in Senders, e, f \in Drains : With(e, x)' /\ With(f, x)' => e = f
    BY <1>4, <1>5 DEF Places
  <2>4. \A x \in Senders : /\ Held(x)' \/ x \in dropped' => snd'[x].pc = "parked"
                           /\ Sent(x)' => snd'[x].pc \in {"sent", "parked"}
                           /\ ~(Held(x)' /\ (x \in dropped' \/ Sent(x)'))
                           /\ ~(x \in dropped' /\ Sent(x)')
    BY <1>1, <1>4, <1>6 DEF Places
  <2> QED BY <2>1, <2>2, <2>3, <2>4 DEF Places
<1>8. ASSUME OneDrain, FifoInv PROVE FifoInv'
  <2>1. \A x \in Senders : snd[x].before \in SUBSET Senders
    BY QueueFields
  <2>2. \A x \in Senders : snd'[x].pc \in {"recheck", "call", "park"} =>
          \A f \in snd'[x].before : ~Held(f)'
    BY <1>6, <1>8, <2>1 DEF FifoInv
  <2>3. \A e \in Drains : /\ dr'[e].frame /= <<>> => q'.inflight
                          /\ dr'[e].pc \in {"next", "leave"} => dr'[e].frame = <<>>
    BY <1>2, <1>8 DEF FifoInv
  <2> QED BY <1>8, <2>2, <2>3 DEF FifoInv
<1> QED BY <1>3, <1>7, <1>8 DEF Kept, QueueInv

\* SENDQ still full: the drain's frame goes back to the front.
LEMMA RequeueStep ==
  ASSUME QueueInv, NEW d \in Drains, NEW r \in DrainRecord, dr' = [dr EXCEPT ![d] = r],
         r.frame = <<>>, q' \in QueueRecord, q'.items = dr[d].frame \o q.items, timer' \in Int,
         q'.inflight = q.inflight, UNCHANGED <<snd, wire, dropped, passed>>
  PROVE  Kept
<1> DEFINE w == dr[d].frame \o q.items
<1>1. Places
  BY DEF QueueInv
<1>2. \A x \in Senders : x \in ToSet(w) <=> With(d, x) \/ Parked(x)
  BY QueueFields, FrameConcat DEF With, Parked
<1>3. OnceEach(w)
  <2>1. dr[d].frame \in Seq(Senders) /\ q.items \in Seq(Senders)
    BY QueueFields
  <2>2. OnceEach(dr[d].frame) /\ OnceEach(q.items)
        /\ \A x \in Senders : ~(x \in ToSet(dr[d].frame) /\ x \in ToSet(q.items))
    BY <1>1 DEF Places, With, Parked
  <2> QED BY <2>1, <2>2, FrameConcat
<1>4. q'.items = w
  OBVIOUS
<1> HIDE DEF w
<1>5. dr' \in [Drains -> DrainRecord] /\ \A e \in Drains : dr'[e] = IF e = d THEN r ELSE dr[e]
  BY QueueFields
<1>6. QueueType'
  BY <1>5 DEF QueueInv, QueueType, QueueRecord, DrainRecord, SenderRecord
<1>7. \A x \in Senders : /\ Parked(x)' <=> Parked(x) \/ With(d, x)
                         /\ \A e \in Drains : With(e, x)' <=> With(e, x) /\ e /= d
  BY <1>2, <1>4, <1>5, FrameNone DEF Parked, With
<1>8. \A x \in Senders : (Held(x)' => Held(x)) /\ (Sent(x)' <=> Sent(x))
  BY <1>7 DEF Held, Sent
<1>9. Places'
  <2>1. OnceEach(q'.items) /\ \A e \in Drains : OnceEach(dr'[e].frame)
    BY <1>1, <1>3, <1>4, <1>5, FrameNone DEF Places
  <2>2. \A x \in Senders, e \in Drains : ~(With(e, x)' /\ Parked(x)')
    BY <1>1, <1>7 DEF Places
  <2>3. \A x \in Senders, e, f \in Drains : With(e, x)' /\ With(f, x)' => e = f
    BY <1>1, <1>7 DEF Places
  <2>4. \A x \in Senders : /\ Held(x)' \/ x \in dropped' => snd'[x].pc = "parked"
                           /\ Sent(x)' => snd'[x].pc \in {"sent", "parked"}
                           /\ ~(Held(x)' /\ (x \in dropped' \/ Sent(x)'))
                           /\ ~(x \in dropped' /\ Sent(x)')
    BY <1>1, <1>8 DEF Places
  <2> QED BY <2>1, <2>2, <2>3, <2>4 DEF Places
<1>10. ASSUME OneDrain, FifoInv PROVE FifoInv'
  <2>1. \A x \in Senders : snd[x].before \in SUBSET Senders
    BY QueueFields
  <2>2. \A x \in Senders : snd'[x].pc \in {"recheck", "call", "park"} =>
          \A f \in snd'[x].before : ~Held(f)'
    BY <1>8, <1>10, <2>1 DEF FifoInv
  <2>3. \A e \in Drains : /\ dr'[e].frame /= <<>> => q'.inflight
                          /\ dr'[e].pc \in {"next", "leave"} => dr'[e].frame = <<>>
    BY <1>5, <1>10 DEF FifoInv
  <2> QED BY <1>10, <2>2, <2>3 DEF FifoInv
<1> QED BY <1>6, <1>9, <1>10 DEF Kept, QueueInv

\* An invalidation: the deque is emptied into the dropped.
LEMMA DropStep ==
  ASSUME QueueInv, q' \in QueueRecord, q'.items = <<>>, q'.inflight = q.inflight,
         dropped' = dropped \cup ToSet(q.items), UNCHANGED <<timer, dr, snd, wire, passed>>
  PROVE  Kept
<1>1. \A x \in Senders : x \in dropped' <=> x \in dropped \/ Parked(x)
  BY DEF Parked
<1>2. dropped' \in SUBSET Senders
  BY QueueFields, FrameMembers
<1>3. QueueType'
  BY <1>2 DEF QueueInv, QueueType, QueueRecord, DrainRecord, SenderRecord
<1>4. Places
  BY DEF QueueInv
<1>5. \A x \in Senders : ~Parked(x)' /\ \A d \in Drains : With(d, x)' <=> With(d, x)
  BY FrameNone DEF Parked, With
<1>6. \A x \in Senders : /\ Held(x)' => Held(x) /\ ~Parked(x)
                         /\ Parked(x) => Held(x)
                         /\ Sent(x)' <=> Sent(x)
  BY <1>4, <1>5 DEF Held, Sent, Places
<1>7. Places'
  <2>1. OnceEach(q'.items) /\ \A e \in Drains : OnceEach(dr'[e].frame)
    BY <1>4, FrameNone DEF Places
  <2>2. \A x \in Senders, e, f \in Drains : With(e, x)' /\ With(f, x)' => e = f
    BY <1>4, <1>5 DEF Places
  <2>3. \A x \in Senders : /\ Held(x)' \/ x \in dropped' => snd'[x].pc = "parked"
                           /\ Sent(x)' => snd'[x].pc \in {"sent", "parked"}
                           /\ ~(Held(x)' /\ (x \in dropped' \/ Sent(x)'))
                           /\ ~(x \in dropped' /\ Sent(x)')
    BY <1>1, <1>4, <1>6 DEF Places
  <2> QED BY <1>5, <2>1, <2>2, <2>3 DEF Places
<1>8. ASSUME FifoInv PROVE FifoInv'
  <2>1. \A x \in Senders : snd[x].before \in SUBSET Senders
    BY QueueFields
  <2>2. \A x \in Senders : snd'[x].pc \in {"recheck", "call", "park"} =>
          \A f \in snd'[x].before : ~Held(f)'
    BY <1>6, <1>8, <2>1 DEF FifoInv
  <2> QED BY <1>8, <2>2 DEF FifoInv
<1> QED BY <1>3, <1>7, <1>8 DEF Kept, QueueInv

\* Senders begin or are done with a refusal; the queue is left alone.
LEMMA BesideStep ==
  ASSUME QueueInv, UNCHANGED <<q, timer, dr, wire, dropped, passed>>, snd' \in [Senders -> SenderRecord],
         \A x \in Senders : \/ snd'[x] = snd[x]
                            \/ /\ snd'[x].before = snd[x].before /\ snd'[x].pc \in {"new", "gone"}
                               /\ snd[x].pc \in {"off", "failed"}
  PROVE  Kept
<1>1. QueueType'
  BY DEF QueueInv, QueueType, QueueRecord, DrainRecord, SenderRecord
<1>2. \A x \in Senders : snd[x].pc \in {"parked", "sent"} => snd'[x].pc = snd[x].pc
  OBVIOUS
<1>3. \A x : (Parked(x)' <=> Parked(x)) /\ \A d \in Drains : With(d, x)' <=> With(d, x)
  BY DEF Parked, With
<1>4. OnceEach(q'.items) /\ \A d \in Drains : OnceEach(dr'[d].frame)
  BY DEF QueueInv, Places
<1>5. QueueInv' /\ \A x \in Senders : Held(x)' => Held(x)
  BY <1>1, <1>2, <1>3, <1>4, NothingGained
<1>6. ASSUME FifoInv PROVE FifoInv'
  <2>1. \A x \in Senders : snd'[x].before = snd[x].before /\ snd[x].before \in SUBSET Senders
    BY QueueFields
  <2>2. \A x \in Senders : \A f \in snd'[x].before : snd'[f].pc = "parked"
    BY <1>2, <1>6, <2>1 DEF FifoInv
  <2>3. \A x \in Senders : snd'[x].pc \in {"recheck", "call", "park"} => snd'[x] = snd[x]
    OBVIOUS
  <2>4. \A x \in Senders : snd'[x].pc \in {"recheck", "call", "park"} =>
          \A f \in snd'[x].before : ~Held(f)'
    BY <1>5, <1>6, <2>1, <2>3 DEF FifoInv
  <2> QED BY <1>6, <2>2, <2>4 DEF FifoInv
<1> QED BY <1>5, <1>6 DEF Kept

----------------------------------------------------------------------------
(* The retry queue: the senders. *)

LEMMA StartStep ==
  ASSUME QueueInv, NEW s \in Senders, SendStart(s) PROVE Kept
<1> DEFINE p == IF Kind[s] /= "driver" /\ (q.muted \/ gate) THEN "failed" ELSE "barrier"
           r == [pc |-> p, before |-> Unsent]
<1>1. /\ snd[s].pc = "new" /\ snd' = [snd EXCEPT ![s] = r]
      /\ UNCHANGED <<q, timer, dr, wire, dropped, passed>>
  BY DEF SendStart
<1>2. Unsent \in SUBSET Senders /\ p \in {"failed", "barrier"}
  BY HeldUnsent
<1> HIDE DEF p
<1>3. r \in SenderRecord /\ r.pc \in {"failed", "barrier"} /\ r.before = Unsent
  BY <1>2 DEF SenderRecord
<1> HIDE DEF r
<1>4. /\ QueueInv' /\ \A x \in Senders : Held(x)' <=> Held(x)
      /\ snd'[s] = r /\ \A x \in Senders : x /= s => snd'[x] = snd[x]
  BY <1>1, <1>3, SenderWrite
<1>5. ASSUME FifoInv PROVE FifoInv'
  <2>1. \A x \in Senders : snd[x].before \in SUBSET Senders
    BY QueueFields
  <2>2. \A f \in Senders : snd[f].pc = "parked" => snd'[f].pc = "parked"
    BY <1>1, <1>4
  <2>3. \A f \in Unsent : f \in Senders /\ snd[f].pc = "parked"
    BY HeldUnsent DEF QueueInv, Places
  <2>4. ASSUME NEW x \in Senders, NEW f \in snd'[x].before PROVE snd'[f].pc = "parked"
    <3>1. CASE x = s
      BY <1>3, <1>4, <2>2, <2>3, <2>4, <3>1
    <3>2. CASE x /= s
      BY <1>4, <1>5, <2>1, <2>2, <2>4, <3>2 DEF FifoInv
    <3> QED BY <3>1, <3>2
  <2>5. ASSUME NEW x \in Senders, snd'[x].pc \in {"recheck", "call", "park"}
        PROVE  \A f \in snd'[x].before : ~Held(f)'
    <3>1. x /= s
      BY <1>3, <1>4, <2>5
    <3> QED BY <1>4, <1>5, <2>1, <2>5, <3>1 DEF FifoInv
  <2> QED BY <1>1, <1>5, <2>4, <2>5 DEF FifoInv
<1> QED BY <1>4, <1>5 DEF Kept

\* With nothing in the deque and no popped frame, nothing is held.
LEMMA BarrierOpen ==
  ASSUME QueueInv, FifoInv, ~outbound_queue_busy(q) PROVE \A x \in Senders : ~Held(x)
<1>1. q.items = <<>> /\ ~q.inflight
  BY DEF outbound_queue_busy
<1>2. \A d \in Drains : dr[d].frame = <<>>
  BY <1>1 DEF FifoInv
<1> QED BY <1>1, <1>2, FrameNone DEF Held, Parked, With

LEMMA BarrierStep ==
  ASSUME QueueInv, NEW s \in Senders, SendBarrier(s) PROVE Kept
<1>1. snd[s].pc = "barrier" /\ UNCHANGED <<dr, wire, dropped, passed>>
  BY DEF SendBarrier
<1>2. \/ \E pc \in {"failed", "new"} : Goto(s, pc) /\ UNCHANGED <<q, timer>>
      \/ /\ ~outbound_queue_busy(q) /\ UNCHANGED <<q, timer>>
         /\ \E pc \in {"call", "recheck"} : Goto(s, pc)
      \/ Enqueue(s) /\ Goto(s, "parked")
  BY DEF SendBarrier
<1>3. CASE \E pc \in {"failed", "new"} : Goto(s, pc) /\ UNCHANGED <<q, timer>>
  BY <1>1, <1>3, SenderMoves
<1>4. CASE /\ ~outbound_queue_busy(q) /\ UNCHANGED <<q, timer>>
           /\ \E pc \in {"call", "recheck"} : Goto(s, pc)
  BY <1>1, <1>4, BarrierOpen, SenderMoves
<1>5. CASE Enqueue(s) /\ Goto(s, "parked")
  BY <1>1, <1>5, EnqueueStep
<1> QED BY <1>2, <1>3, <1>4, <1>5

LEMMA RecheckStep ==
  ASSUME QueueInv, NEW s \in Senders, SendRecheck(s) PROVE Kept
<1>1. snd[s].pc = "recheck" /\ UNCHANGED <<q, timer, dr, wire, dropped, passed>>
  BY DEF SendRecheck
<1>2. Goto(s, "failed") \/ Goto(s, "call")
  BY DEF SendRecheck
<1> QED BY <1>1, <1>2, SenderMoves

LEMMA CallStep ==
  ASSUME QueueInv, NEW s \in Senders, SendCall(s) PROVE Kept
<1>1. snd[s].pc = "call" /\ UNCHANGED <<q, timer, dr, dropped>>
  BY DEF SendCall
<1>2. PICK v \in {"Sent", "Full", "Fail"} :
        /\ wire' = IF v = "Sent" THEN Append(wire, s) ELSE wire
        /\ passed' = IF v = "Sent" THEN passed \cup ((snd[s].before \cap Unsent) \X {s}) ELSE passed
        /\ Goto(s, CASE v = "Sent" -> "sent"
                     [] v = "Fail" -> "failed"
                     [] v = "Full" -> IF KeepsFrame(s) THEN "new" ELSE "park")
  BY DEF SendCall
<1>3. CASE v = "Sent"
  <2>1. Goto(s, "sent")
    BY <1>2, <1>3
  <2> QED BY <1>1, <1>2, <1>3, <2>1, SendStep
<1>4. CASE v = "Fail"
  <2>1. Goto(s, "failed") /\ UNCHANGED <<wire, passed>>
    BY <1>2, <1>4
  <2> QED BY <1>1, <2>1, SenderMoves
<1>5. CASE v = "Full"
  <2>1. (Goto(s, "new") \/ Goto(s, "park")) /\ UNCHANGED <<wire, passed>>
    BY <1>2, <1>5
  <2> QED BY <1>1, <2>1, SenderMoves
<1> QED BY <1>3, <1>4, <1>5

LEMMA ParkStep ==
  ASSUME QueueInv, NEW s \in Senders, SendPark(s) PROVE Kept
<1>1. snd[s].pc = "park" /\ UNCHANGED <<dr, wire, dropped, passed>>
  BY DEF SendPark
<1>2. \/ Goto(s, "failed") /\ UNCHANGED <<q, timer>>
      \/ Enqueue(s) /\ Goto(s, "parked")
  BY DEF SendPark
<1> QED BY <1>1, <1>2, SenderMoves, EnqueueStep

----------------------------------------------------------------------------
(* The retry queue: the drain. *)

LEMMA IdleType == Idle \in DrainRecord /\ Idle.frame = <<>> /\ Idle.pc = "idle"
BY FrameNone DEF Idle, DrainRecord

\* What the queue's flags are set to matters to nobody here but inflight.
LEMMA FlagTypes ==
  ASSUME QueueInv, NEW v \in BOOLEAN
  PROVE  /\ [q EXCEPT !.armed = v] \in QueueRecord /\ [q EXCEPT !.armed = v].items = q.items
         /\ [q EXCEPT !.armed = v].inflight = q.inflight
         /\ [q EXCEPT !.items = <<>>, !.armed = v] \in QueueRecord
         /\ [q EXCEPT !.items = <<>>, !.armed = v].items = <<>>
         /\ [q EXCEPT !.items = <<>>, !.armed = v].inflight = q.inflight
         /\ [q EXCEPT !.inflight = v] \in QueueRecord /\ [q EXCEPT !.inflight = v].items = q.items
BY QueueFields, FrameNone DEF QueueRecord

LEMMA FireKept ==
  ASSUME QueueInv, NEW d \in Drains, DrainFire(d) PROVE Kept
<1> DEFINE r == [pc |-> "enter", epoch |-> timer, frame |-> <<>>]
<1>1. dr' = [dr EXCEPT ![d] = r] /\ timer' = NoWait /\ UNCHANGED <<q, snd, wire, dropped, passed>>
  BY DEF DrainFire
<1>2. r \in DrainRecord /\ r.frame = <<>> /\ timer' \in Int
  BY <1>1, QueueFields, FrameNone DEF DrainRecord, NoWait
<1> HIDE DEF r
<1> QED BY <1>1, <1>2, QueueFields, DrainWrite

LEMMA EnterKept ==
  ASSUME QueueInv, NEW d \in Drains, DrainEnter(d) PROVE Kept
<1>1. dr[d].pc = "enter" /\ UNCHANGED <<timer, snd, wire, dropped, passed>> /\ timer' \in Int
  BY QueueFields DEF DrainEnter
<1>2. CASE gate
  <2>1. q' = [q EXCEPT !.items = <<>>, !.armed = FALSE] /\ dr' = [dr EXCEPT ![d] = Idle]
    BY <1>2 DEF DrainEnter
  <2>2. q' \in QueueRecord /\ q'.items = <<>> /\ q'.inflight = q.inflight
    BY <2>1, FlagTypes
  <2> QED BY <1>1, <2>1, <2>2, IdleType, DrainWrite
<1>3. CASE ~gate
  <2> DEFINE r == [dr[d] EXCEPT !.pc = "pop"]
  <2>1. dr' = [dr EXCEPT ![d] = r] /\ UNCHANGED q
    BY <1>3, QueueFields DEF DrainEnter, DrainGoto
  <2>2. r \in DrainRecord /\ r.frame = dr[d].frame /\ r.pc = "pop"
    BY QueueFields DEF DrainRecord
  <2> HIDE DEF r
  <2> QED BY <1>1, <2>1, <2>2, QueueFields, DrainWrite
<1> QED BY <1>2, <1>3

LEMMA PopKept ==
  ASSUME QueueInv, NEW d \in Drains, DrainPop(d) PROVE Kept
<1>1. UNCHANGED <<timer, snd, wire, dropped, passed>> /\ timer' \in Int
  BY QueueFields DEF DrainPop
<1>2. \/ q' = [q EXCEPT !.armed = FALSE] /\ dr' = [dr EXCEPT ![d] = Idle]
      \/ q' = [q EXCEPT !.items = <<>>, !.armed = FALSE] /\ dr' = [dr EXCEPT ![d] = Idle]
      \/ /\ q.items /= <<>> /\ q' = [q EXCEPT !.items = Tail(@), !.inflight = TRUE]
         /\ dr' = [dr EXCEPT ![d].pc = "check", ![d].frame = <<Head(q.items)>>]
  BY DEF DrainPop
<1>3. CASE q' = [q EXCEPT !.armed = FALSE] /\ dr' = [dr EXCEPT ![d] = Idle]
  <2>1. q' \in QueueRecord /\ q'.items = q.items /\ q'.inflight = q.inflight
    BY <1>3, FlagTypes
  <2> QED BY <1>1, <1>3, <2>1, IdleType, DrainWrite
<1>4. CASE q' = [q EXCEPT !.items = <<>>, !.armed = FALSE] /\ dr' = [dr EXCEPT ![d] = Idle]
  <2>1. q' \in QueueRecord /\ q'.items = <<>> /\ q'.inflight = q.inflight
    BY <1>4, FlagTypes
  <2> QED BY <1>1, <1>4, <2>1, IdleType, DrainWrite
<1>5. CASE /\ q.items /= <<>> /\ q' = [q EXCEPT !.items = Tail(@), !.inflight = TRUE]
           /\ dr' = [dr EXCEPT ![d].pc = "check", ![d].frame = <<Head(q.items)>>]
  <2> DEFINE f == <<Head(q.items)>>
             r == [dr[d] EXCEPT !.pc = "check", !.frame = f]
  <2>1. f \in Seq(Senders)
    BY <1>5, QueueFields, FrameTail, FrameOne
  <2> HIDE DEF f
  <2>2. dr' = [dr EXCEPT ![d] = r]
    BY <1>5, QueueFields DEF f
  <2>3. r \in DrainRecord /\ r.frame = f /\ r.pc = "check"
    BY <2>1, QueueFields DEF DrainRecord
  <2> HIDE DEF r
  <2> QED BY <1>1, <1>5, <2>2, <2>3, PopStep DEF f
<1> QED BY <1>2, <1>3, <1>4, <1>5

LEMMA CheckKept ==
  ASSUME QueueInv, NEW d \in Drains, DrainCheck(d) PROVE Kept
<1> DEFINE r == IF q.muted THEN [dr[d] EXCEPT !.pc = "leave", !.frame = <<>>]
                           ELSE [dr[d] EXCEPT !.pc = "call"]
<1>1. dr' = [dr EXCEPT ![d] = r] /\ UNCHANGED <<q, timer, snd, wire, dropped, passed>>
  BY DEF DrainCheck
<1>2. [dr[d] EXCEPT !.pc = "leave", !.frame = <<>>] \in DrainRecord /\ [dr[d] EXCEPT !.pc = "call"] \in DrainRecord
  BY QueueFields, FrameNone DEF DrainRecord
<1>3. /\ r \in DrainRecord /\ (r.frame = dr[d].frame \/ r.frame = <<>>)
      /\ (r.pc \in {"next", "leave"} => r.frame = <<>>)
  BY <1>2, QueueFields DEF DrainRecord
<1> HIDE DEF r
<1> QED BY <1>1, <1>3, QueueFields, DrainWrite

LEMMA DrainCallKept ==
  ASSUME QueueInv, NEW d \in Drains, DrainCall(d) PROVE Kept
<1>1. UNCHANGED <<q, timer, snd, dropped, passed>>
  BY DEF DrainCall
<1>2. PICK v \in {"Sent", "Full", "Fail"} :
        /\ wire' = IF v = "Sent" THEN wire \o dr[d].frame ELSE wire
        /\ dr' = [dr EXCEPT ![d] = IF v = "Full" THEN [@ EXCEPT !.pc = "requeue"]
                                   ELSE [@ EXCEPT !.pc = "next", !.frame = <<>>]]
  BY DEF DrainCall
<1> DEFINE a == [dr[d] EXCEPT !.pc = "requeue"]
           b == [dr[d] EXCEPT !.pc = "next", !.frame = <<>>]
<1>3. /\ a \in DrainRecord /\ a.frame = dr[d].frame /\ a.pc = "requeue"
      /\ b \in DrainRecord /\ b.frame = <<>>
  BY QueueFields, FrameNone DEF DrainRecord
<1>4. CASE v = "Full"
  <2>1. dr' = [dr EXCEPT ![d] = a] /\ UNCHANGED wire
    BY <1>2, <1>4
  <2> HIDE DEF a
  <2> QED BY <1>1, <1>3, <2>1, QueueFields, DrainWrite
<1>5. CASE v = "Fail"
  <2>1. dr' = [dr EXCEPT ![d] = b] /\ UNCHANGED wire
    BY <1>2, <1>5
  <2> HIDE DEF b
  <2> QED BY <1>1, <1>3, <2>1, QueueFields, DrainWrite
<1>6. CASE v = "Sent"
  <2>1. dr' = [dr EXCEPT ![d] = b] /\ wire' = wire \o dr[d].frame
    BY <1>2, <1>6
  <2> HIDE DEF b
  <2> QED BY <1>1, <1>3, <2>1, DrainSends
<1> QED BY <1>4, <1>5, <1>6

LEMMA RequeueKept ==
  ASSUME QueueInv, NEW d \in Drains, DrainRequeue(d) PROVE Kept
<1> DEFINE r == [dr[d] EXCEPT !.pc = "leave", !.frame = <<>>]
<1>1. UNCHANGED <<snd, wire, dropped, passed>>
  BY DEF DrainRequeue
<1>2. dr' = [dr EXCEPT ![d] = r]
  BY QueueFields DEF DrainRequeue
<1>3. r \in DrainRecord /\ r.frame = <<>>
  BY QueueFields, FrameNone DEF DrainRecord
<1> HIDE DEF r
<1>4. CASE dr[d].epoch /= q.epoch
  <2>1. q' = [q EXCEPT !.armed = FALSE] /\ UNCHANGED timer
    BY <1>4 DEF DrainRequeue
  <2>2. q' \in QueueRecord /\ q'.items = q.items /\ q'.inflight = q.inflight
    BY <2>1, FlagTypes
  <2> QED BY <1>1, <1>2, <1>3, <2>1, <2>2, QueueFields, DrainWrite
<1>5. CASE dr[d].epoch = q.epoch
  <2> DEFINE w == dr[d].frame \o q.items
             y == [q EXCEPT !.items = w, !.armed = FALSE]
             z == [y EXCEPT !.armed = TRUE]
  <2>1. w \in Seq(Senders)
    BY QueueFields, FrameConcat
  <2>2. arm(y)
    BY <1>5 DEF DrainRequeue
  <2> HIDE DEF w
  <2>3. y \in QueueRecord /\ y.items = w /\ y.inflight = q.inflight /\ y.epoch = q.epoch
    BY <2>1, QueueFields DEF QueueRecord
  <2> HIDE DEF y
  <2>4. z \in QueueRecord /\ z.items = w /\ z.inflight = q.inflight
    BY <2>3 DEF QueueRecord
  <2>5. (q' = y /\ timer' = timer) \/ (q' = z /\ timer' = y.epoch)
    BY <2>2 DEF arm
  <2> HIDE DEF z
  <2>6. q' \in QueueRecord /\ q'.items = w /\ q'.inflight = q.inflight /\ timer' \in Int
    BY <2>3, <2>4, <2>5, QueueFields
  <2> QED BY <1>1, <1>2, <1>3, <2>6, RequeueStep DEF w
<1> QED BY <1>4, <1>5

LEMMA GuardKept ==
  ASSUME QueueInv, NEW d \in Drains, DrainGuard(d) PROVE Kept
<1> DEFINE a == [dr[d] EXCEPT !.pc = "pop"]
<1>1. /\ dr[d].pc \in {"next", "leave"} /\ UNCHANGED <<timer, snd, wire, dropped, passed>>
      /\ q' = [q EXCEPT !.inflight = FALSE]
  BY DEF DrainGuard
<1>2. q' \in QueueRecord /\ q'.items = q.items
  BY <1>1, FlagTypes
<1>3. CASE dr[d].pc = "leave"
  <2>1. dr' = [dr EXCEPT ![d] = Idle]
    BY <1>3 DEF DrainGuard
  <2> QED BY <1>1, <1>2, <2>1, IdleType, QueueFields, DrainWrite
<1>4. CASE dr[d].pc = "next"
  <2>1. dr' = [dr EXCEPT ![d] = a]
    BY <1>4 DEF DrainGuard
  <2>2. a \in DrainRecord /\ a.frame = dr[d].frame /\ a.pc = "pop"
    BY QueueFields DEF DrainRecord
  <2>3. FifoInv => a.frame = <<>>
    BY <1>4, <2>2 DEF FifoInv
  <2> HIDE DEF a
  <2> QED BY <1>1, <1>2, <2>1, <2>2, <2>3, QueueFields, DrainWrite
<1> QED BY <1>1, <1>3, <1>4

----------------------------------------------------------------------------
(* The retry queue: invalidations, and the rest of the manager. *)

LEMMA ClearKept ==
  ASSUME QueueInv, Clear \/ Mute PROVE Kept
<1>1. dropped' = dropped \cup ToSet(q.items) /\ UNCHANGED <<timer, dr, snd, wire, passed>>
  BY DEF Clear, Mute
<1>2. q' \in QueueRecord /\ q'.items = <<>> /\ q'.inflight = q.inflight
  <2> DEFINE c == [q EXCEPT !.items = <<>>, !.armed = FALSE, !.epoch = @ + 1]
             m == [q EXCEPT !.muted = TRUE, !.items = <<>>, !.armed = FALSE]
  <2>1. <<>> \in Seq(Senders) /\ q.epoch + 1 \in Int
    BY QueueFields, FrameNone
  <2>2. c \in QueueRecord /\ c.items = <<>> /\ c.inflight = q.inflight
    BY <2>1, QueueFields DEF QueueRecord
  <2>3. m \in QueueRecord /\ m.items = <<>> /\ m.inflight = q.inflight
    BY <2>1, QueueFields DEF QueueRecord
  <2>4. q' = c \/ q' = m
    BY DEF Clear, Mute
  <2> HIDE DEF c, m
  <2> QED BY <2>2, <2>3, <2>4
<1> QED BY <1>1, <1>2, DropStep

LEMMA SameKept ==
  ASSUME QueueInv, timer' \in Int, UNCHANGED <<q, dr, snd, wire, dropped, passed>> PROVE Kept
<1>1. QueueType'
  BY DEF QueueInv, QueueType, QueueRecord, DrainRecord, SenderRecord
<1>2. Places'
  BY DEF QueueInv, Places, Held, Parked, With, Sent, OnceEach
<1>3. FifoInv => FifoInv'
  BY DEF FifoInv, Held, Parked, With
<1> QED BY <1>1, <1>2, <1>3 DEF Kept, QueueInv

LEMMA CancelKept ==
  ASSUME QueueInv, ClearCancel \/ MuteCancel \/ MuteGate PROVE Kept
<1>1. timer' \in Int /\ UNCHANGED <<q, dr, snd, wire, dropped, passed>>
  BY QueueFields DEF ClearCancel, MuteCancel, MuteGate, NoWait
<1> QED BY <1>1, SameKept

LEMMA QueueNextKept ==
  ASSUME QueueInv, QueueNext PROVE Kept
<1>1. ASSUME NEW s \in Senders,
             SendStart(s) \/ SendBarrier(s) \/ SendRecheck(s) \/ SendCall(s) \/ SendPark(s)
      PROVE  Kept
  BY <1>1, StartStep, BarrierStep, RecheckStep, CallStep, ParkStep
<1>2. ASSUME NEW d \in Drains,
             \/ DrainFire(d) \/ DrainEnter(d) \/ DrainPop(d) \/ DrainCheck(d)
             \/ DrainCall(d) \/ DrainRequeue(d) \/ DrainGuard(d)
      PROVE  Kept
  BY <1>2, FireKept, EnterKept, PopKept, CheckKept, DrainCallKept, RequeueKept, GuardKept
<1> QED BY <1>1, <1>2, ClearKept, CancelKept DEF QueueNext

\* A sender of the manager's own begins.
LEMMA EmitKept ==
  ASSUME QueueInv, Emit, UNCHANGED <<q, timer, dr, wire, dropped, passed>> PROVE Kept
<1>1. \A s \in Fresh : s \in Senders /\ snd[s].pc = "off"
  <2>1. \A s \in Unused : s \in Senders /\ snd[s].pc = "off"
    BY DEF Unused
  <2>2. Unused /= {} => (CHOOSE s \in Unused : TRUE) \in Unused
    OBVIOUS
  <2> QED BY <2>1, <2>2 DEF Fresh
<1>2. \A s \in Senders : /\ snd[s] \in SenderRecord /\ [snd[s] EXCEPT !.pc = "new"] \in SenderRecord
                         /\ [snd[s] EXCEPT !.pc = "new"].pc = "new"
                         /\ [snd[s] EXCEPT !.pc = "new"].before = snd[s].before
  BY QueueFields DEF SenderRecord
<1>3. snd' \in [Senders -> SenderRecord]
  BY <1>2 DEF Emit
<1>4. \A x \in Senders : snd'[x] = IF x \in Fresh THEN [snd[x] EXCEPT !.pc = "new"] ELSE snd[x]
  BY DEF Emit
<1>5. \A x \in Senders : \/ snd'[x] = snd[x]
                         \/ /\ snd'[x].before = snd[x].before /\ snd'[x].pc \in {"new", "gone"}
                            /\ snd[x].pc \in {"off", "failed"}
  BY <1>1, <1>2, <1>4
<1> QED BY <1>3, <1>5, BesideStep

LEMMA OpensKept ==
  ASSUME QueueInv, NEW o \in Objs, TunnelOpens(o) \/ OpenRefused(o) PROVE Kept
<1>1. UNCHANGED <<q, timer, dr, wire, dropped, passed>> /\ o \in Senders
  BY ManagerAssumption DEF TunnelOpens, OpenRefused
<1>2. PICK pc \in {"new", "gone"} : snd' = [snd EXCEPT ![o].pc = pc] /\ snd[o].pc \in {"off", "failed"}
  BY DEF TunnelOpens, OpenRefused
<1> DEFINE r == [snd[o] EXCEPT !.pc = pc]
<1>3. snd' = [snd EXCEPT ![o] = r]
  BY <1>1, <1>2, QueueFields
<1>4. r \in SenderRecord /\ r.pc = pc /\ r.before = snd[o].before
  BY <1>1, QueueFields DEF SenderRecord
<1> HIDE DEF r
<1>5. snd' \in [Senders -> SenderRecord] /\ \A x \in Senders : snd'[x] = IF x = o THEN r ELSE snd[x]
  BY <1>3, <1>4, QueueFields
<1> QED BY <1>1, <1>2, <1>4, <1>5, BesideStep

LEMMA TableKept ==
  ASSUME QueueInv, TableNext PROVE Kept
<1>1. ASSUME UNCHANGED <<q, timer, dr, snd, wire, dropped, passed>> PROVE Kept
  BY <1>1, QueueFields, SameKept
<1>2. ASSUME NEW o \in Objs,
             \/ allocate_tunnel_id(o) \/ add_tunnel(o) \/ TunnelSilent(o) \/ IdReleasable(o)
             \/ remove_tunnel_if(o) \/ SetOnIdReleasable(o)
             \/ \E st \in {"owing", "silent"} : TunnelEnds(o, st) \/ TearDown(o, st)
      PROVE  Kept
  BY <1>1, <1>2 DEF allocate_tunnel_id, add_tunnel, TunnelSilent, IdReleasable, remove_tunnel_if,
         SetOnIdReleasable, TunnelEnds, TearDown, queueVars
<1>3. ASSUME NEW o \in Objs, TunnelOpens(o) \/ OpenRefused(o) PROVE Kept
  BY <1>3, OpensKept
<1>4. ASSUME NEW o \in Objs, NEW i \in Ids, handle_incoming_open(o, i) PROVE Kept
  <2>1. UNCHANGED <<q, timer, dr, wire, dropped, passed>> /\ (Emit \/ UNCHANGED snd)
    BY <1>4 DEF handle_incoming_open
  <2> QED BY <1>1, <2>1, EmitKept
<1>5. ASSUME NEW h \in Handlers,
             \/ ReapScan(h) \/ ReapRemove(h) \/ ReapEnds(h) \/ TickSent(h)
             \/ \E st \in {"owing", "silent"} : ReapClose(h, st)
      PROVE  Kept
  BY <1>1, <1>5 DEF ReapScan, ReapRemove, ReapEnds, TickSent, ReapClose, queueVars
<1>6. ASSUME (\E h \in Handlers : TickPings(h)) \/ route_frame PROVE Kept
  <2>1. UNCHANGED <<q, timer, dr, wire, dropped, passed>> /\ (Emit \/ UNCHANGED snd)
    BY <1>6 DEF TickPings, route_frame
  <2> QED BY <1>1, <2>1, EmitKept
<1>7. ASSUME close_all \/ AbandonStarts \/ AbandonDetaches PROVE Kept
  BY <1>1, <1>7 DEF close_all, AbandonStarts, AbandonDetaches
<1> QED BY <1>2, <1>3, <1>4, <1>5, <1>6, <1>7 DEF TableNext

LEMMA QueueInitial == Init => QueueInv /\ FifoInv
<1> SUFFICES ASSUME Init PROVE QueueInv /\ FifoInv
  OBVIOUS
<1>1. /\ q = [items |-> <<>>, armed |-> FALSE, epoch |-> 0, inflight |-> FALSE, muted |-> FALSE]
      /\ timer = NoWait /\ dr = [d \in Drains |-> Idle]
      /\ snd = [s \in Senders |-> [pc |-> "off", before |-> {}]]
      /\ wire = <<>> /\ dropped = {} /\ passed = {}
  BY DEF Init, QueueInit
<1>2. QueueType
  BY <1>1, IdleType, FrameNone DEF QueueType, QueueRecord, SenderRecord, NoWait
<1>3. q.items = <<>> /\ \A d \in Drains : dr[d].frame = <<>> /\ dr[d].pc = "idle"
  BY <1>1, IdleType
<1>4. \A x : ~Parked(x) /\ ~Sent(x) /\ \A d \in Drains : ~With(d, x)
  BY <1>1, <1>3, FrameNone DEF Parked, Sent, With
<1>5. \A x : ~Held(x)
  BY <1>4 DEF Held
<1>6. Places
  BY <1>1, <1>3, <1>4, <1>5, FrameNone DEF Places
<1>7. FifoInv
  BY <1>1, <1>3, <1>5 DEF FifoInv
<1> QED BY <1>2, <1>6, <1>7 DEF QueueInv

LEMMA QueueStep == QueueInv /\ [Next]_vars => Kept
<1> SUFFICES ASSUME QueueInv, [Next]_vars PROVE Kept
  OBVIOUS
<1>1. ASSUME UNCHANGED <<q, timer, dr, snd, wire, dropped, passed>> PROVE Kept
  BY <1>1, QueueFields, SameKept
<1>2. CASE QueueNext
  BY <1>2, QueueNextKept
<1>3. CASE TableNext
  BY <1>3, TableKept
<1>4. CASE UNCHANGED queueButBudget
  BY <1>1, <1>4 DEF queueButBudget
<1>5. CASE UNCHANGED queueVars
  BY <1>1, <1>5 DEF queueVars
<1> QED BY <1>2, <1>3, <1>4, <1>5 DEF Next, vars

\* Where a parked frame can be, for any number of senders and of overlapping
\* drains: in the deque, with one drain, on the wire, dropped or given up, and
\* never in two of these (send_frame, drain_pending_outbound,
\* clear_pending_outbound, close_all_local).
THEOREM QueueInvariant == Spec => []QueueInv
<1>1. Init => QueueInv
  BY QueueInitial
<1>2. QueueInv /\ [Next]_vars => QueueInv'
  BY QueueStep DEF Kept
<1> QED BY <1>1, <1>2, PTL DEF Spec

\* What a clear or an abandoned session found parked never reaches the peer,
\* however many drains overlap and whatever they had popped.
THEOREM DroppedHolds == Spec => []DroppedStaysDropped
<1>1. QueueInv => DroppedStaysDropped
  <2> SUFFICES ASSUME QueueInv PROVE dropped \cap ToSet(wire) = {}
    BY DEF DroppedStaysDropped
  <2>1. \A x \in dropped : x \in Senders /\ x \notin ToSet(wire)
    BY QueueFields DEF QueueInv, Places, Sent
  <2> QED BY <2>1
<1> QED BY <1>1, QueueInvariant, PTL

\* With one drain at a time, as one io thread gives, the retry queue keeps its
\* order: no frame goes out past one that was parked before its sender began,
\* for any senders, cap and faults of the transport.
THEOREM QueueOrderedHolds == ASSUME OneDrain PROVE Spec => []QueueOrdered
<1>1. Init => FifoInv
  BY QueueInitial
<1>2. QueueInv /\ FifoInv /\ [Next]_vars => FifoInv'
  BY OneDrain, QueueStep DEF Kept
<1>3. Spec => []FifoInv
  BY <1>1, <1>2, QueueInvariant, PTL DEF Spec
<1>4. FifoInv => FifoBarrier
  BY DEF FifoInv, FifoBarrier
<1> QED BY <1>3, <1>4, DroppedHolds, PTL DEF QueueOrdered
=============================================================================
