--------------------------- MODULE ConfigReload ----------------------------
(***************************************************************************)
(* Which part of a new config a running daemon takes, and how a client     *)
(* applies its forwards (src/src/util/config_reload.cpp,                   *)
(* TunnelClient::reload).  A config is its fixed part and its forwards; a  *)
(* live forward is a rule and the number of its listener.                  *)
(***************************************************************************)
EXTENDS AtomicFile

check_reloadable(current, next) == current.fixed = next.fixed

RulesOf(live) == [i \in DOMAIN live |-> live[i].rule]

\* diff_forwards()
Added(live, next) == SelectSeq(next, LAMBDA r : r \notin ToSet(RulesOf(live)))
Removed(live, next) == SelectSeq(RulesOf(live), LAMBDA r : r \notin ToSet(next))

Endpoint(r) == <<r.addr, r.port>>
Bindable(live, taken, r) ==
  Endpoint(r) \notin taken /\ \A i \in DOMAIN live : Endpoint(live[i].rule) /= Endpoint(r)

\* The old rule a failed one was to replace: same local port, same target.
Rebinds(old, new) == old.port = new.port /\ old.target = new.target

\* bind_and_register()
Bound(a, r) == [a EXCEPT !.live = Append(@, [rule |-> r, lsn |-> a.next]), !.next = @ + 1]

\* Mutant: a rule whose bind fails takes its predecessor out of service.
AddForwardOnly(a, r, removed, taken) == IF Bindable(a.live, taken, r) THEN Bound(a, r) ELSE a

\* One added rule; when it cannot be bound its predecessor is restored, each
\* predecessor tried at most once.
AddForward(a, r, removed, taken) ==
  LET old == {i \in DOMAIN removed \ a.tried : Rebinds(removed[i], r)}
      i == Min(old)
      b == [a EXCEPT !.tried = @ \cup {i}]
  IN  IF Bindable(a.live, taken, r) THEN Bound(a, r)
      ELSE IF old = {} THEN a
      ELSE IF Bindable(a.live, taken, removed[i]) THEN Bound(b, removed[i]) ELSE b

\* The posted apply(): stop the removed listeners, bind the added ones.
ApplyForwards(live, lsn, diff, taken) ==
  LET kept == SelectSeq(live, LAMBDA f : f.rule \notin ToSet(diff.removed))
      Step(a, r) == AddForward(a, r, diff.removed, taken)
  IN  FoldLeft(Step, [live |-> kept, next |-> lsn, tried |-> {}], diff.added)
============================================================================
