------------------------- MODULE VectorStoreCluster -------------------------
(***************************************************************************)
(* The actor of crates/e2etest-vector-store-cluster: it owns the processes *)
(* of a Vector Store cluster.  A node has an HTTP client exactly when it   *)
(* has a process; a node that is stopped alone keeps its place.            *)
(***************************************************************************)
EXTENDS Processes

\* A message of enum VectorStoreCluster.
Request(op, arg, reply) == [to |-> Self, op |-> op, arg |-> arg, reply |-> reply]

-----------------------------------------------------------------------------
(***************************************************************************)
(* VectorStoreClusterExt                                                   *)
(***************************************************************************)
CallVersion == Request("Version", <<>>, "taken")

CallStart(ips) == Request("Start", ips, "none")

CallStartNode(ip) == Request("StartNode", <<ip>>, "none")

CallStop == Request("Stop", <<>>, "taken")

CallStopNode(ip) == Request("StopNode", <<ip>>, "taken")

CallWaitForReady == Request("WaitForReady", <<>>, "taken")

\* assert!(self.wait_for_ready().await)
AssertReady == Request("WaitForReady", <<>>, "asserted")

Restart(ip) == <<CallStopNode(ip), CallStartNode(ip), AssertReady>>

-----------------------------------------------------------------------------
(***************************************************************************)
(* The actor: process and the functions it calls                           *)
(***************************************************************************)
Serving(ops) == Processing(Self, ops)

Version ==
  /\ Serving({"Version"})
  /\ FinishWith(nodes, NoAnswer)
  /\ UNCHANGED <<ready, disturbed>>

\* start: one new node per configuration, after the existing ones.
start ==
  /\ Serving({"Start"})
  /\ FinishWith(nodes \o Started(current[Self].arg), NoAnswer)
  /\ UNCHANGED <<ready, disturbed>>

\* start_node: a new process, client and workdir for the first node with the
\* address, if there is one.
start_node ==
  /\ Serving({"StartNode"})
  /\ LET found == {Find(current[Self].arg[1])} \ {0}
     IN Finish(Restarted(found), Overwritten(found), NoAnswer)
  /\ UNCHANGED <<ready, disturbed>>

\* stop: every process is killed and waited for, the nodes are forgotten.
stop ==
  /\ Serving({"Stop"})
  /\ FinishWith(<<>>, NoAnswer)
  /\ ready' = Answering(<<>>)
  /\ UNCHANGED disturbed

\* Mutant: the Child is killed but not taken.
stop_node_untaken ==
  /\ Serving({"StopNode"})
  /\ FinishWith(nodes, NoAnswer)
  /\ ready' = Answering(Killed({Find(current[Self].arg[1])}))
  /\ UNCHANGED disturbed

\* stop_node: the first node with the address loses its process and client.
stop_node ==
  /\ Serving({"StopNode"})
  /\ LET stopped == Killed({Find(current[Self].arg[1])})
     IN FinishWith(stopped, NoAnswer) /\ ready' = Answering(stopped)
  /\ UNCHANGED disturbed

\* run_node fails on an expect, after k processes of this call were started.
SpawnFails ==
  /\ MayFail
  /\ Serving({"Start", "StartNode"})
  /\ LET m == current[Self]
     IN \E k \in 0 .. Len(m.arg) - 1 :
          \/ m.op = "Start" /\ Crash(nodes \o Started(SubSeq(m.arg, 1, k)), NothingLost)
          \/ m.op = "StartNode" /\ Find(m.arg[1]) # 0 /\ Crash(nodes, NothingLost)
  /\ disturbed' = disturbed \cup {Self}
  /\ UNCHANGED ready

\* The node that wait_for_ready has come to; it has a client to ask.
Asked(i) == Serving({"WaitForReady"}) /\ i = waited + 1 /\ i <= Len(nodes) /\ nodes[i].child

\* wait_for_node sees the node serving.
wait_for_node ==
  /\ Asked(waited + 1)
  /\ nodes[waited + 1].ip \in ready
  /\ waited' = waited + 1
  /\ UNCHANGED <<actorVars, nodes, ready, orphans>>

\* Mutant: wait_for_node polls for ever.
NeverTimesOut == FALSE

\* wait_for_node returns false after 30 seconds, and wait_for_ready asserts it.
WaitTimesOut ==
  /\ Asked(waited + 1)
  /\ nodes[waited + 1].ip \notin ready
  /\ Crash(nodes, NothingLost)
  /\ disturbed' = disturbed \cup {Self}
  /\ UNCHANGED ready

\* Mutant: a node without a client is passed over.
wait_for_ready_lenient ==
  /\ Serving({"WaitForReady"})
  /\ \A i \in waited + 1 .. Len(nodes) : ~nodes[i].child
  /\ FinishWith(nodes, Answer(nodes # <<>>))
  /\ UNCHANGED <<ready, disturbed>>

\* Mutant: the client of a node is unwrapped.
wait_for_ready_unwrap ==
  /\ Serving({"WaitForReady"})
  /\ \/ waited = Len(nodes) /\ FinishWith(nodes, Answer(nodes # <<>>))
     \/ waited < Len(nodes) /\ ~nodes[waited + 1].child /\ Crash(nodes, NothingLost)
  /\ UNCHANGED <<ready, disturbed>>

\* wait_for_ready: false without nodes and at a node without a client, true after
\* all of them.
wait_for_ready ==
  /\ Serving({"WaitForReady"})
  /\ \/ waited = Len(nodes) /\ FinishWith(nodes, Answer(nodes # <<>>))
     \/ waited < Len(nodes) /\ ~nodes[waited + 1].child /\ FinishWith(nodes, Answer(FALSE))
  /\ UNCHANGED <<ready, disturbed>>

\* Mutant: no final stop.
ShutdownOnly == Ends(Self) /\ UNCHANGED processVars

\* The loop of the actor ends with a final stop.
Shutdown ==
  /\ Ends(Self)
  /\ nodes' = <<>>
  /\ ready' = Answering(<<>>)
  /\ UNCHANGED <<waited, orphans>>

process ==
  \/ Version \/ start \/ start_node \/ stop \/ stop_node
  \/ wait_for_node \/ WaitTimesOut \/ wait_for_ready \/ Shutdown

-----------------------------------------------------------------------------
\* start_node gives a new process only to a node that has none: it replaces the
\* Child without looking.  It is up to the callers (restart stops the node first).
NotStartedTwice ==
  Serving({"StartNode"}) => \A i \in {Find(current[Self].arg[1])} \ {0} : ~nodes[i].child
=============================================================================
