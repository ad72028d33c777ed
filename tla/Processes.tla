----------------------------- MODULE Processes -----------------------------
(***************************************************************************)
(* The nodes of a cluster, each with the process that serves it: what the  *)
(* actors of the ScyllaDB and the Vector Store cluster have in common.     *)
(* Processes stop only when the actor kills them: a Child that is dropped  *)
(* leaves its process running, as no command is spawned with kill_on_drop. *)
(***************************************************************************)
EXTENDS Actor

CONSTANTS
  Self,      \* the actor that owns the processes
  IP         \* node addresses

VARIABLES
  nodes,     \* State::nodes
  waited,    \* nodes that wait_for_ready has seen ready
  ready,     \* addresses whose process answers
  orphans    \* orphans[ip]: running processes that no Child stands for

processVars == <<nodes, waited, ready, orphans>>

\* child: whether the node has a process (and, in a Vector Store node, a client).
NodeState == [ip : IP, child : BOOLEAN]

ProcessesTypeOK ==
  /\ nodes \in Seq(NodeState)
  /\ waited \in 0 .. Len(nodes)
  /\ ready \subseteq IP
  /\ orphans \in [IP -> Nat]

NothingLost == [ip \in IP |-> 0]

ProcessesInit ==
  /\ nodes = <<>>
  /\ waited = 0
  /\ ready = {}
  /\ orphans = NothingLost

\* The processes at ip that a Child of ns stands for.
Children(ns, ip) == Cardinality({i \in DOMAIN ns : ns[i].ip = ip /\ ns[i].child})

\* The index of the first node with the address ip, 0 if there is none.
Find(ip) == SelectInSeq(nodes, LAMBDA n : n.ip = ip)

\* Nodes with a new process each, for the configured addresses.
Started(ips) == [i \in DOMAIN ips |-> [ip |-> ips[i], child |-> TRUE]]

\* The nodes after the processes of the nodes of I were killed and waited for.
Killed(I) == [i \in DOMAIN nodes |-> [nodes[i] EXCEPT !.child = @ /\ i \notin I]]

\* The nodes after new processes were started for the nodes of I.
Restarted(I) == [i \in DOMAIN nodes |-> [nodes[i] EXCEPT !.child = @ \/ i \in I]]

\* The processes whose Child is overwritten when the nodes of I get a new one.
Overwritten(I) ==
  [ip \in IP |-> Cardinality({i \in I : nodes[i].ip = ip /\ nodes[i].child})]

\* The addresses that still answer when the nodes have become ns.
Answering(ns) == {ip \in ready : orphans[ip] > 0 \/ Children(ns, ip) > 0}

\* The panic of the actor with the nodes ns, after the processes in `lost` have
\* lost their Child: State is dropped, its processes go on.
Crash(ns, lost) ==
  /\ Panic(Self)
  /\ nodes' = <<>>
  /\ orphans' = [ip \in IP |-> orphans[ip] + lost[ip] + Children(ns, ip)]
  /\ waited' = 0

\* The end of process(): the state has become ns, the processes in `lost` have
\* lost their Child, and `result` is sent if the message carries a sender.
Finish(ns, lost, result) ==
  IF Unheard(Self)
  THEN Crash(ns, lost)
  ELSE /\ Reply(Self, result)
       /\ nodes' = ns
       /\ orphans' = [ip \in IP |-> orphans[ip] + lost[ip]]
       /\ waited' = 0

\* The same where no process is started or loses its Child.
FinishWith(ns, result) == Finish(ns, NothingLost, result)

\* A running process starts to answer (external).
BecomesReady(ip) ==
  /\ ip \notin ready
  /\ Children(nodes, ip) + orphans[ip] > 0
  /\ ready' = ready \cup {ip}
  /\ UNCHANGED <<actorVars, nodes, waited, orphans>>

-----------------------------------------------------------------------------
(***************************************************************************)
(* What is asked of the callers, as the actor starts a process without     *)
(* looking for one that the node has.                                      *)
(***************************************************************************)

\* The call m may start the process of the node with the address ip.
Starts(m, ip) ==
  /\ m.to = Self
  /\ m.op \in {"Start", "Up"} \/ (m.op \in {"UpNode", "StartNode"} /\ m.arg[1] = ip)

\* After the call m the node with the address ip has no process.
Stops(m, ip) ==
  /\ m.to = Self
  /\ m.op \in {"Stop", "Down"} \/ (m.op \in {"DownNode", "StopNode"} /\ m.arg[1] = ip)

StartsNothing(calls) == \A i \in DOMAIN calls, ip \in IP : ~Starts(calls[i], ip)

\* The calls start no process that they have started already and not stopped, as
\* restart does.
InTurn(calls) ==
  \A ip \in IP, h, i \in DOMAIN calls :
    h < i /\ Starts(calls[h], ip) /\ Starts(calls[i], ip) =>
      \E j \in h + 1 .. i - 1 : Stops(calls[j], ip)

-----------------------------------------------------------------------------
\* Every process that runs is one the actor can still stop, as long as it has
\* not panicked: no call drops the Child of a running process.  The final stop
\* leaves no process.
ProcessesOwned ==
  /\ actor[Self] # "dead" => orphans = NothingLost
  /\ actor[Self] = "finished" => nodes = <<>> /\ ready = {}

\* wait_for_ready says true only when all nodes run and answer, however many
\* there are and whoever started them.
ReadyMeansReady ==
  [][\A c \in Client :
       /\ From(current[Self], c) /\ current[Self].op = "WaitForReady"
       /\ current'[Self] = None /\ actor'[Self] = "run"
       /\ answer'[c] = Answer(TRUE)
       => \A i \in DOMAIN nodes : nodes[i].child /\ nodes[i].ip \in ready]_<<actorVars, processVars>>
=============================================================================
