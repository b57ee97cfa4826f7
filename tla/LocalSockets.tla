---------------------------- MODULE LocalSockets ----------------------------
(***************************************************************************)
(* The local sockets of one process: connections a TcpListener accepts,    *)
(* connections to targets, and SOCKS sessions, on one io context of        *)
(* several threads.                                                        *)
(***************************************************************************)
EXTENDS Socks5Session

CONSTANTS Conns, KindOf(_),   \* "forward", "target" or "socks"
          Scenarios           \* how often each outside event may happen

VARIABLES sk,     \* the connections
          x5,     \* the SOCKS sessions
          ls,     \* the listener
          at,     \* "new", "waiting" in the backlog, or "in"
          allow   \* what may still happen in the chosen scenario

vars == <<sk, x5, ls, at, allow>>

Init ==
  /\ sk = [c \in Conns |-> Fresh("Disconnected")]
  /\ x5 = [c \in Conns |-> NoSession]
  /\ ls = ListenerInit
  /\ at = [c \in Conns |-> "new"]
  /\ allow \in Scenarios

Spend(e) == allow[e] > 0 /\ allow' = [allow EXCEPT ![e] = @ - 1]
Set(c, s) == sk' = [sk EXCEPT ![c] = s]
Socks(c) == KindOf(c) = "socks"
Pair(c) == [s |-> sk[c], x |-> x5[c]]
SetPair(c, p) == Set(c, p.s) /\ x5' = [x5 EXCEPT ![c] = p.x]

----------------------------------------------------------------------------
(* The strands. *)

\* A handler other than on_data; its on_disconnect, on_closed and on_read_eof
\* reach the session and the listener.
RunTask(c) ==
  /\ sk[c].run /= <<>> /\ Head(sk[c].run).k /= "rdone"
  /\ LET s == Handle([sk[c] EXCEPT !.run = Tail(@)], Head(sk[c].run))
         ended == s.ends > sk[c].ends
     IN  /\ Set(c, s)
         /\ ls' = IF ended /\ KindOf(c) = "forward" THEN on_connection_closed(ls) ELSE ls
         /\ x5' = IF ended \/ s.eof > sk[c].eof THEN [x5 EXCEPT ![c] = Dropped(@)] ELSE x5
  /\ UNCHANGED at

\* A read that returned data, and the next one.
RunRead(c) ==
  /\ sk[c].run /= <<>> /\ Head(sk[c].run).k = "rdone"
  /\ LET s == [sk[c] EXCEPT !.run = Tail(@), !.rfly = FALSE]
         b == Head(sk[c].run).b
         p == IF Socks(c) THEN SessionData([s |-> s, x |-> x5[c]], b)
              ELSE [s |-> [s EXCEPT !.fed = @ \o b], x |-> x5[c]]
     IN  SetPair(c, [p EXCEPT !.s = do_read(@)])
  /\ UNCHANGED <<ls, at>>

\* The consumer throws on it.
ReadThrows(c) ==
  /\ sk[c].run /= <<>> /\ Head(sk[c].run).k = "rdone" /\ ~Socks(c)
  /\ LET s == Fail([sk[c] EXCEPT !.run = Tail(@), !.rfly = FALSE])
     IN  /\ Set(c, s)
         /\ ls' = IF s.ends > sk[c].ends /\ KindOf(c) = "forward" THEN on_connection_closed(ls) ELSE ls
  /\ UNCHANGED <<x5, at>>

Kernel(c) ==
  /\ sk[c].ops /= {}
  /\ \E s \in Completions(sk[c]) : Set(c, s)
  /\ UNCHANGED <<x5, ls, at>>

----------------------------------------------------------------------------
(* Accepting. *)

Look == ls.posts > 0 /\ ls' = Looks(ls) /\ UNCHANGED <<sk, x5, at>>
Claim ==
  /\ ls.seen > 0
  /\ ls' = IF ls.armed \/ ~ls.accepting THEN [ls EXCEPT !.seen = @ - 1] ELSE Claims(ls)
  /\ UNCHANGED <<sk, x5, at>>
Accept(c) ==
  /\ at[c] = "waiting" /\ KindOf(c) = "forward" /\ ls.armed
  /\ at' = [at EXCEPT ![c] = "in"] /\ ls' = Accepted(ls) /\ Set(c, Fresh("Connected"))
  /\ UNCHANGED x5

\* Socks5Listener::do_accept(): a session per connection, read at once.
SocksAccept(c) ==
  /\ at[c] = "waiting" /\ Socks(c)
  /\ at' = [at EXCEPT ![c] = "in"]
  /\ Set(c, Post(Fresh("Connected"), T("start")))
  /\ UNCHANGED <<x5, ls>>

Arrives(c) ==
  /\ at[c] = "new"
  /\ c = CHOOSE d \in Conns : KindOf(d) = KindOf(c) /\ at[d] = "new"
  /\ IF KindOf(c) = "target" THEN at' = [at EXCEPT ![c] = "in"] /\ Set(c, async_connect(sk[c]))
     ELSE at' = [at EXCEPT ![c] = "waiting"] /\ UNCHANGED sk
  /\ UNCHANGED <<x5, ls>>

----------------------------------------------------------------------------
(* The tunnel of a SOCKS session. *)

TunnelConnects(c) ==
  /\ x5[c].tun = "Connecting"
  /\ x5' = [x5 EXCEPT ![c].tun = "Connected"] /\ UNCHANGED <<sk, ls, at>>
TunnelCallback(c) ==
  /\ x5[c].tun = "Connected"
  /\ SetPair(c, TunnelReady(Pair(c))) /\ UNCHANGED <<ls, at>>
TunnelFails(c) ==
  /\ x5[c].tun = "Connecting"
  /\ SetPair(c, TunnelRefused(Pair(c))) /\ UNCHANGED <<ls, at>>

----------------------------------------------------------------------------
(* Calls and peers. *)

Ending == {"shut", "close", "force", "abort"}

\* A call of the tunnel's: read, write, pause or end.
Calls(c, k) ==
  /\ at[c] = "in" /\ sk[c].told + sk[c].ends < 3
  /\ CASE k = "start" -> sk[c].st = "Connected" /\ ~Socks(c) /\ sk[c].fed = <<>> /\ sk[c].eof = 0
                         /\ ~sk[c].rfly
       [] k = "watch" -> KindOf(c) = "target" /\ sk[c].st = "Connected" /\ ~sk[c].watch /\ ~sk[c].rfly
                         /\ T("start") \notin ToSet(sk[c].run)
       [] OTHER -> ~Socks(c) \/ x5[c].phase = "stream"
  /\ Set(c, CASE k = "write" -> Write(sk[c])
              [] k = "pause" -> pause_read(sk[c])
              [] k = "resume" -> resume_read(sk[c])
              [] k \in {"shut", "close"} -> Post([sk[c] EXCEPT !.due = IF @ = -1 THEN sk[c].sent ELSE @], T(k))
              [] OTHER -> Post(sk[c], T(k)))
  /\ UNCHANGED <<x5, ls, at>>

Said(c) == Len(sk[c].sentIn)
\* A SOCKS client that has not made its request, and one that waits for the answer.
Asks(c) == Socks(c) /\ ToSet(sk[c].sentIn) \cap {Connect, HttpConnect} = {}
Patient(c) == Socks(c) => x5[c].tun = "ready" /\ Len(sk[c].out) >= 2
Sends(c, b) ==
  /\ at[c] = "in" /\ sk[c].st /= "Connecting" /\ sk[c].pfin = "no" /\ sk[c].fin /= "rst"
  /\ Set(c, PeerSends(sk[c], b)) /\ UNCHANGED <<x5, ls, at>>
Finishes(c, how) ==
  /\ at[c] = "in" /\ sk[c].st /= "Connecting" /\ sk[c].pfin = "no"
  /\ Set(c, PeerEnds(sk[c], how)) /\ UNCHANGED <<x5, ls, at>>

Outside ==
  \/ \E c \in Conns :
       \/ Arrives(c) /\ Spend(KindOf(c))
       \/ \E k \in Ending \cup {"write", "pause", "resume", "start", "watch", "unwatch"} : Calls(c, k) /\ Spend(k)
       \/ Sends(c, Said(c) + 1) /\ ~Asks(c) /\ Spend(IF Patient(c) THEN "byte" ELSE "eager")
       \/ \E b \in Messages : Sends(c, b) /\ Asks(c) /\ Spend("talk")
       \/ \E how \in {"fin", "rst"} : Finishes(c, how) /\ Spend(how)
       \/ ReadThrows(c) /\ Spend("throw")
       \/ TunnelFails(c) /\ Spend("refuse")
  \/ /\ \/ ls.armed /\ ls' = AcceptFailed(ls) /\ Spend("flaky")
        \/ ls.accepting /\ ls' = StopListening(ls) /\ Spend("stop")
        \/ ls' = set_max_connections(ls, ls.max + 1) /\ Spend("raise")
     /\ UNCHANGED <<sk, x5, at>>

Inside == \/ \E c \in Conns : RunTask(c) \/ RunRead(c) \/ Kernel(c) \/ Accept(c) \/ SocksAccept(c)
                              \/ TunnelConnects(c) \/ TunnelCallback(c)
          \/ Look \/ Claim

Next == (Inside /\ UNCHANGED allow) \/ Outside

Spec == Init /\ [][Next]_vars

\* The io threads run handlers, the kernel completes what it can.
FairSpec ==
  /\ Spec
  /\ \A c \in Conns : /\ WF_vars((RunTask(c) \/ RunRead(c)) /\ UNCHANGED allow)
                      /\ WF_vars(Kernel(c) /\ UNCHANGED allow)
                      /\ WF_vars((TunnelConnects(c) \/ TunnelCallback(c)) /\ UNCHANGED allow)
  /\ WF_vars(Look /\ UNCHANGED allow) /\ WF_vars(Claim /\ UNCHANGED allow)
  /\ SF_vars((\E c \in Conns : Accept(c)) /\ UNCHANGED allow)

----------------------------------------------------------------------------
\* Bytes written leave in order, each once, and nothing overtakes them: when the
\* send side ends by request every byte written before the request is out.
OutWhole(c) ==
  LET s == sk[c]
  IN  /\ s.out = [i \in 1 .. Len(s.out) |-> i]
      /\ s.fin = "fin" /\ ~s.fault => Len(s.out) >= s.due

\* write_buffer_bytes_ is what is queued or in flight.
Accounted(c) == sk[c].bytes = Len(sk[c].q) + Len(sk[c].fly)

Payload(c) == IF Socks(c) THEN SelectSeq(sk[c].sentIn, LAMBDA b : b > 0)
              ELSE sk[c].sentIn

\* What the peer sent reaches the consumer in order, watch or no watch, and its
\* end is reported once, behind it.
InWhole(c) ==
  LET s == sk[c]
  IN  /\ IsPrefix(s.fed, Payload(c))
      /\ s.eof <= 1 /\ (s.eof = 1 /\ ~s.fault /\ (Socks(c) => x5[c].tun = "ready") => s.fed = Payload(c))

StreamsWhole == \A c \in Conns : OutWhole(c) /\ Accounted(c) /\ InWhole(c)

\* A connection tells of its end once, a connect of its outcome once, and the
\* listener counts exactly the connections that are open.
EndsOnce ==
  /\ \A c \in Conns : sk[c].ends <= 1 /\ sk[c].told <= 1
  /\ \A c \in Conns : KindOf(c) /= "target" /\ at[c] = "in" /\ sk[c].st = "Disconnected" => sk[c].ends = 1
  /\ ls.count = Cardinality({c \in Conns : KindOf(c) = "forward" /\ at[c] = "in" /\ sk[c].ends = 0})

\* A close that was asked for completes while the peer reads, and the accept loop
\* takes a waiting connection as long as there is room for one.
Progress ==
  /\ \A c \in Conns : sk[c].st = "Disconnecting" ~> sk[c].st = "Disconnected"
  /\ \A c \in {d \in Conns : KindOf(d) = "forward"} :
       at[c] = "waiting" /\ Room(ls) ~> at[c] = "in" \/ ~Room(ls)

\* What a client sends right behind its request reaches the target, in order.
PipelinedPreserved ==
  \A c \in Conns : Socks(c) => IsPrefix(sk[c].fed, Payload(c))
============================================================================
