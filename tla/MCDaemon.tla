----------------------------- MODULE MCDaemon ------------------------------
(* Instances of Daemon for TLC. *)
EXTENDS Daemon

CONSTANTS d1, d2, c1, t1, k1, k2

MCKind(p) == CASE p \in {d1, d2} -> "server" [] p = c1 -> "client" [] OTHER -> "print_id"

Events == {"start", "kill", "hup", "term", "hangup", "error", "cut", "take"}
Left(f) == [e \in Events |-> IF e \in DOMAIN f THEN f[e] ELSE 0]

R(a, t) == [addr |-> a, port |-> 1, target |-> t]
Config(fwds, pipe, fixed) == [forwards |-> fwds, pipe |-> pipe, fixed |-> fixed]

Server(f, rules) == [left |-> Left(f), rules |-> rules, configs |-> [i \in DOMAIN rules |-> Bad],
                     ports |-> {}]
Clients(f, configs, ports) == [left |-> Left(f), rules |-> [i \in DOMAIN configs |-> Bad],
                               configs |-> configs, ports |-> ports]

\* Kills, power cuts and failing writes while friends are added.
SaveScenarios ==
  {Server([start |-> 3, kill |-> 1, cut |-> 1, error |-> 1, term |-> 1], <<{k1}>>),
   Server([start |-> 3, cut |-> 2, error |-> 1], <<{k1, k2}>>),
   Server([start |-> 3, term |-> 2, error |-> 2], <<{k1}>>),
   Server([start |-> 2, hup |-> 2, term |-> 1, cut |-> 1], <<{k1}, Bad, {k1, k2}>>)}

\* Forwards come, go and move while another program takes their endpoints.
ForwardScenarios ==
  {Clients([start |-> 1, hup |-> 2, take |-> 2], cs, {<<"x", 1>>, <<"y", 1>>}) :
     cs \in {<<Config(<<R("x", 1)>>, FALSE, 1), Bad, Config(<<R("y", 1), R("x", 2)>>, FALSE, 1)>>,
             <<Config(<<R("x", 1), R("z", 2)>>, FALSE, 1), Config(<<R("y", 1), R("z", 2)>>, FALSE, 1),
               Config(<<R("z", 2)>>, FALSE, 1)>>,
             <<Config(<<R("x", 1), R("y", 1)>>, FALSE, 1), Config(<<R("z", 1), R("w", 1)>>, FALSE, 1),
               Config(<<>>, FALSE, 2)>>}}
  \cup {Clients([start |-> 2, hup |-> 1, term |-> 1, take |-> 1, error |-> 1],
                <<Config(<<R("x", 1)>>, FALSE, 1), Config(<<R("y", 1)>>, FALSE, 1)>>, {<<"x", 1>>})}
PipeScenarios == {Clients([start |-> 1, hup |-> 1, hangup |-> 1], <<Config(<<>>, TRUE, 1)>>, {})}

DaemonScenarios == SaveScenarios \cup ForwardScenarios \cup PipeScenarios
============================================================================
