--------------------------- MODULE ScyllaCluster ---------------------------
(***************************************************************************)
(* The actor of crates/e2etest-scylla-cluster: it owns the processes of a  *)
(* ScyllaDB cluster and serves the calls of ScyllaClusterExt.              *)
(***************************************************************************)
EXTENDS Processes

ASSUME ScyllaClusterAssumption ==
  /\ Self \in Actors
  /\ \A m \in Calls : m.op \in {"Start", "Up"} => m.arg \in Seq(IP)

vars == <<actorVars, processVars>>

\* A message of enum ScyllaCluster; arg holds the addresses of the configurations.
Request(op, arg, reply) == [to |-> Self, op |-> op, arg |-> arg, reply |-> reply]

Init == ActorInit /\ ProcessesInit

-----------------------------------------------------------------------------
(***************************************************************************)
(* ScyllaClusterExt                                                        *)
(***************************************************************************)
CallVersion == Request("Version", <<>>, "taken")

CallStart(ips) == Request("Start", ips, "none")

CallStop == Request("Stop", <<>>, "taken")

CallWaitForReady == Request("WaitForReady", <<>>, "taken")

CallUp(ips) == Request("Up", ips, "none")

CallUpNode(ip) == Request("UpNode", <<ip>>, "none")

CallDown == Request("Down", <<>>, "taken")

CallDownNode(ip) == Request("DownNode", <<ip>>, "taken")

CallFlush == Request("Flush", <<>>, "taken")

\* assert!(self.wait_for_ready().await)
AssertReady == Request("WaitForReady", <<>>, "asserted")

Restart(ip) == <<CallDownNode(ip), CallUpNode(ip), AssertReady>>

-----------------------------------------------------------------------------
(***************************************************************************)
(* The actor: new, process and the functions it calls                      *)
(***************************************************************************)
Serving(ops) == Processing(Self, ops)

\* Version and Flush leave the state alone (nodetool flush errors are logged).
Query ==
  /\ Serving({"Version", "Flush"})
  /\ FinishWith(nodes, NoAnswer)
  /\ UNCHANGED <<ready, disturbed>>

\* start: one new node per configuration, after the existing ones.
start ==
  /\ Serving({"Start"})
  /\ FinishWith(nodes \o Started(current[Self].arg), NoAnswer)
  /\ UNCHANGED <<ready, disturbed>>

\* Mutant: only the first process is killed before the nodes are forgotten.
stop_first ==
  /\ Serving({"Stop"})
  /\ Finish(<<>>,
            [ip \in IP |-> IF nodes # <<>> THEN Children(Tail(nodes), ip) ELSE 0], NoAnswer)
  /\ ready' = Answering(<<>>)
  /\ UNCHANGED disturbed

\* stop: every process is killed and waited for, the nodes are forgotten.
stop ==
  /\ Serving({"Stop"})
  /\ FinishWith(<<>>, NoAnswer)
  /\ ready' = Answering(<<>>)
  /\ UNCHANGED disturbed

\* Mutant: only the first process is killed.
down_first ==
  /\ Serving({"Down"})
  /\ LET paused == Killed({1})
     IN FinishWith(paused, NoAnswer) /\ ready' = Answering(paused)
  /\ UNCHANGED disturbed

\* down: every process is killed and waited for, the nodes stay.
down ==
  /\ Serving({"Down"})
  /\ LET paused == Killed(DOMAIN nodes)
     IN FinishWith(paused, NoAnswer) /\ ready' = Answering(paused)
  /\ UNCHANGED disturbed

\* down_node: the same for the first node with the address, if there is one.
down_node ==
  /\ Serving({"DownNode"})
  /\ LET paused == Killed({Find(current[Self].arg[1])})
     IN FinishWith(paused, NoAnswer) /\ ready' = Answering(paused)
  /\ UNCHANGED disturbed

\* up with n usable configurations: a process for every node, from the
\* configuration with the same index; an index out of range panics.
UpWith(n) ==
  /\ IF n >= Len(nodes)
     THEN Finish(Restarted(DOMAIN nodes), Overwritten(DOMAIN nodes), NoAnswer)
     ELSE Crash(Restarted(1 .. n), Overwritten(1 .. n))
  /\ UNCHANGED <<ready, disturbed>>

\* Mutant: the configurations are indexed from one.
up_from_one == Serving({"Up"}) /\ UpWith(Len(current[Self].arg) - 1)

up == Serving({"Up"}) /\ UpWith(Len(current[Self].arg))

\* Mutant: the new Child is not stored.
up_node_unstored ==
  /\ Serving({"UpNode"})
  /\ FinishWith(nodes, NoAnswer)
  /\ UNCHANGED <<ready, disturbed>>

\* up_node: a new process for the first node with the address, if there is one.
up_node ==
  /\ Serving({"UpNode"})
  /\ LET found == {Find(current[Self].arg[1])} \ {0}
     IN Finish(Restarted(found), Overwritten(found), NoAnswer)
  /\ UNCHANGED <<ready, disturbed>>

\* The system fails the actor, in the middle of what it does.
Fails == MayFail /\ disturbed' = disturbed \cup {Self} /\ UNCHANGED ready

\* run_node fails on an expect, after k processes of this call were started.
SpawnFails ==
  /\ Serving({"Start", "Up", "UpNode"})
  /\ LET m == current[Self]
     IN \E k \in 0 .. Len(m.arg) - 1 :
          \/ m.op = "Start" /\ Crash(nodes \o Started(SubSeq(m.arg, 1, k)), NothingLost)
          \/ m.op = "Up" /\ k < Len(nodes) /\ Crash(Restarted(1 .. k), Overwritten(1 .. k))
          \/ m.op = "UpNode" /\ Find(m.arg[1]) # 0 /\ Crash(nodes, NothingLost)
  /\ Fails

\* The nodetool command cannot be run, at one of the nodes.
NodetoolFails ==
  /\ Serving({"WaitForReady", "Flush"})
  /\ waited < Len(nodes)
  /\ Crash(nodes, NothingLost)
  /\ Fails

\* wait_for_node: the polling loops for one node end when it is ready.
wait_for_node ==
  /\ Serving({"WaitForReady"})
  /\ waited < Len(nodes)
  /\ nodes[waited + 1].ip \in ready
  /\ waited' = waited + 1
  /\ UNCHANGED <<actorVars, nodes, ready, orphans>>

\* Mutant: the last node is not waited for.
wait_for_ready_early ==
  /\ Serving({"WaitForReady"})
  /\ waited + 1 >= Len(nodes)
  /\ FinishWith(nodes, Answer(nodes # <<>>))
  /\ UNCHANGED <<ready, disturbed>>

\* wait_for_ready: false without nodes, true after all of them.
wait_for_ready ==
  /\ Serving({"WaitForReady"})
  /\ waited = Len(nodes)
  /\ FinishWith(nodes, Answer(nodes # <<>>))
  /\ UNCHANGED <<ready, disturbed>>

\* The loop of the actor ends with a final stop.
Shutdown ==
  /\ Ends(Self)
  /\ nodes' = <<>>
  /\ ready' = Answering(<<>>)
  /\ UNCHANGED <<waited, orphans>>

-----------------------------------------------------------------------------
ActorStep ==
  \/ Receive(Self) /\ UNCHANGED processVars
  \/ Query \/ start \/ stop \/ down \/ down_node \/ up \/ up_node
  \/ wait_for_node \/ wait_for_ready \/ Shutdown

Next ==
  \/ \E c \in Client : (ClientStep(c) \/ GiveUp(c)) /\ UNCHANGED processVars
  \/ ActorStep
  \/ SpawnFails \/ NodetoolFails
  \/ \E ip \in IP : BecomesReady(ip)

Spec == Init /\ [][Next]_vars

\* The executor polls tasks that can go on; a ScyllaDB process comes up.
FairSpec ==
  /\ Spec
  /\ WF_vars(ActorStep)
  /\ \A c \in Client : WF_vars(ClientStep(c) /\ UNCHANGED processVars)
  /\ \A ip \in IP : WF_vars(BecomesReady(ip))

-----------------------------------------------------------------------------
\* What the actor takes for granted of its callers, also when one of them is cancelled:
\* up_node and up replace a Child without looking, so the nodes have none (restart takes
\* the node down first); up has a configuration for every node; and wait_for_ready asks
\* an address, which no two nodes share.
CallsFit ==
  /\ Serving({"UpNode"}) => \A i \in {Find(current[Self].arg[1])} \ {0} : ~nodes[i].child
  /\ Serving({"Up"}) => /\ \A i \in DOMAIN nodes : ~nodes[i].child
                       /\ Len(nodes) <= Len(current[Self].arg)
  /\ \A i, j \in DOMAIN nodes : nodes[i].ip = nodes[j].ip => i = j

\* Calls to this actor, of one operation.
Asks(m, op) == m.to = Self /\ m.op = op

\* A way to see to that: only c starts processes, each one after it has stopped the last
\* one, and a cluster after it has stopped the last one; no cluster has an address
\* twice, and every up has a configuration for each of its nodes.  The other clients,
\* and whoever is cancelled, may stop what they like.
OneStarts(c) ==
  /\ \A d \in Client : /\ StartsNothing(Cleanup[d])
                        /\ \A p \in Plans : d # c => StartsNothing(p[d])
  /\ \A p \in Plans :
       /\ InTurn(p[c])
       /\ \A h, i \in DOMAIN p[c] :
            h < i /\ Asks(p[c][h], "Start") /\ Asks(p[c][i], "Start") =>
              \E j \in h + 1 .. i - 1 : Asks(p[c][j], "Stop")
  /\ \A m \in Calls : Asks(m, "Start") =>
       /\ \A i, j \in DOMAIN m.arg : m.arg[i] = m.arg[j] => i = j
       /\ \A k \in Calls : Asks(k, "Up") => Len(m.arg) <= Len(k.arg)

\* "internal actor should receive request" (lib.rs:178 and every other call): the
\* actor is there as long as somebody can call it, also after one of its clients
\* was cancelled.
ActorSurvives == actor[Self] # "dead"
=============================================================================
