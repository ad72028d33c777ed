------------------------ MODULE ScyllaClusterProofs ------------------------
(***************************************************************************)
(* Theorems about ScyllaCluster: what its actor promises holds for any     *)
(* number of clients and nodes, whatever is called and whoever is          *)
(* cancelled; some of it only if callers keep to what up and up_node take  *)
(* for granted (CallsFit).                                                   *)
(***************************************************************************)
EXTENDS ScyllaCluster, ActorProofs, FiniteSetTheorems

\* The steps of the clients, the cancelled ones included.
ClientsStep == \E c \in Client : (ClientStep(c) \/ GiveUp(c)) /\ UNCHANGED processVars

SelfStep == ActorStep \/ SpawnFails \/ NodetoolFails \/ \E ip \in IP : BecomesReady(ip)

\* The addresses of the nodes that wait_for_ready has passed answer, and no other call
\* counts nodes.
NodesInv ==
  /\ nodes \in Seq(NodeState)
  /\ waited \in 0 .. Len(nodes)
  /\ ready \subseteq IP
  /\ \A i \in 1 .. waited : nodes[i].ip \in ready
  /\ current[Self] = None \/ current[Self].op # "WaitForReady" => waited = 0

ClusterInv == ProtocolInv /\ NodesInv

-----------------------------------------------------------------------------
\* Every step is one of the clients or of the actor (ScyllaCluster::Next).
LEMMA NextSplits ==
  ASSUME [Next]_vars
  PROVE  ClientsStep \/ SelfStep \/ UNCHANGED vars
BY DEF Next, ClientsStep, SelfStep

\* Serving names the message that is served.
LEMMA ServingFacts ==
  ASSUME NEW ops, Serving(ops), "None" \notin ops
  PROVE  actor[Self] = "run" /\ current[Self] # None /\ current[Self].op \in ops
BY DEF Serving, Processing, None

\* A call ends with a reply, or with a panic where nobody is left to take it
\* (Processes::Finish).
LEMMA FinishServes ==
  ASSUME ProtocolInv, NEW ns, NEW lost, NEW result, Finish(ns, lost, result),
         current[Self] # None, UNCHANGED disturbed
  PROVE  Serves(Self)
<1>1. disturbed \subseteq Actors
  BY DEF ProtocolInv, ProtocolType
<1> QED  BY <1>1 DEF Finish, Crash, Serves

\* Every step of the actor is one of the protocol, but for the panic of an up that has
\* fewer configurations than there are nodes (ScyllaCluster::UpWith).
LEMMA SelfProtocol ==
  ASSUME ProtocolInv, SelfStep
  PROVE  OwnStep(Self) \/ (Abandons(Self) /\ ~ CallsFit)
<1>1. Self \in Actors /\ disturbed \subseteq Actors
  BY ScyllaClusterAssumption DEF ProtocolInv, ProtocolType
<1>2. ASSUME Query \/ start \/ stop \/ down \/ down_node \/ up_node \/ wait_for_ready
      PROVE  OwnStep(Self)
  <2>1. UNCHANGED disturbed
    BY <1>2 DEF Query, start, stop, down, down_node, up_node, wait_for_ready
  <2>2. \E ns, lost, result : Finish(ns, lost, result)
    BY <1>2 DEF Query, start, stop, down, down_node, up_node, wait_for_ready, FinishWith
  <2>3. current[Self] # None
    BY <1>2, ServingFacts DEF Query, start, stop, down, down_node, up_node, wait_for_ready
  <2> QED  BY <2>1, <2>2, <2>3, FinishServes DEF OwnStep
<1>3. CASE up
  <2>1. /\ Serving({"Up"}) /\ current[Self] # None /\ UNCHANGED disturbed
        /\ UpWith(Len(current[Self].arg))
    BY <1>3, ServingFacts DEF up, UpWith
  <2>2. CASE Len(current[Self].arg) >= Len(nodes)
    <3>1. \E ns, lost, result : Finish(ns, lost, result)
      BY <2>1, <2>2 DEF UpWith
    <3> QED  BY <2>1, <3>1, FinishServes DEF OwnStep
  <2>3. CASE ~ (Len(current[Self].arg) >= Len(nodes))
    <3>1. \E ns, lost : Crash(ns, lost)
      BY <2>1, <2>3 DEF UpWith
    <3>2. Abandons(Self)
      BY <1>1, <2>1, <3>1 DEF Crash, Abandons
    <3>3. ~ CallsFit
      BY <2>1, <2>3 DEF CallsFit
    <3> QED  BY <3>2, <3>3
  <2> QED  BY <2>2, <2>3
<1>4. CASE SpawnFails \/ NodetoolFails
  <2>1. Panic(Self) /\ disturbed' = disturbed \cup {Self}
    BY <1>4 DEF SpawnFails, NodetoolFails, Fails, Crash
  <2>2. current[Self] # None
    BY <1>4, ServingFacts DEF SpawnFails, NodetoolFails
  <2> QED  BY <1>1, <2>1, <2>2 DEF Serves, OwnStep
<1>5. CASE Receive(Self) \/ Shutdown
  BY <1>5 DEF Shutdown, OwnStep
<1>6. CASE wait_for_node \/ \E ip \in IP : BecomesReady(ip)
  BY <1>6 DEF wait_for_node, BecomesReady, OwnStep
<1> QED  BY <1>2, <1>3, <1>4, <1>5, <1>6 DEF SelfStep, ActorStep

\* Whatever happens is a step of the protocol of Actor, but for that panic.
LEMMA NextIsProtocolStep ==
  ASSUME ProtocolInv, [Next]_vars
  PROVE  ProtocolStep \/ (Abandons(Self) /\ ~ CallsFit)
<1>1. CASE ClientsStep
  BY <1>1 DEF ClientsStep, ClientStep, ProtocolStep
<1>2. CASE SelfStep
  BY <1>2, SelfProtocol, ScyllaClusterAssumption DEF OwnStep, ProtocolStep
<1>3. CASE UNCHANGED vars
  BY <1>3 DEF vars, ProtocolStep
<1> QED  BY <1>1, <1>2, <1>3, NextSplits

-----------------------------------------------------------------------------
\* Killing and restarting leave the nodes in their places (Processes::Killed,
\* Processes::Restarted).
LEMMA NodesChanged ==
  ASSUME nodes \in Seq(NodeState), NEW I
  PROVE  Killed(I) \in Seq(NodeState) /\ Restarted(I) \in Seq(NodeState)
<1>1. DOMAIN nodes = 1 .. Len(nodes) /\ Len(nodes) \in Nat
  OBVIOUS
<1>2. ASSUME NEW n \in NodeState, NEW b \in BOOLEAN
      PROVE  [n EXCEPT !.child = b] \in NodeState
  BY <1>2 DEF NodeState
<1>3. \A i \in DOMAIN nodes : nodes[i] \in NodeState
  OBVIOUS
<1>4. \A i \in DOMAIN nodes : /\ [nodes[i] EXCEPT !.child = @ /\ i \notin I] \in NodeState
                              /\ [nodes[i] EXCEPT !.child = @ \/ i \in I] \in NodeState
  BY <1>2, <1>3
<1>5. Killed(I) \in [1 .. Len(nodes) -> NodeState]
  BY <1>1, <1>4 DEF Killed
<1>6. Restarted(I) \in [1 .. Len(nodes) -> NodeState]
  BY <1>1, <1>4 DEF Restarted
<1> QED  BY <1>1, <1>5, <1>6, FunctionIsSeq

\* One new node for each address (Processes::Started).
LEMMA NodesStarted ==
  ASSUME NEW ips \in Seq(IP)
  PROVE  Started(ips) \in Seq(NodeState)
<1>1. DOMAIN ips = 1 .. Len(ips) /\ Len(ips) \in Nat /\ \A i \in DOMAIN ips : ips[i] \in IP
  OBVIOUS
<1>2. \A i \in DOMAIN ips : [ip |-> ips[i], child |-> TRUE] \in NodeState
  BY <1>1 DEF NodeState
<1>3. Started(ips) \in [1 .. Len(ips) -> NodeState]
  BY <1>1, <1>2 DEF Started
<1> QED  BY <1>1, <1>3, FunctionIsSeq

\* Nodes come and go only between two waits, and an address that was seen answering
\* does so until then (ScyllaCluster::wait_for_node).
LEMMA NodesKeep ==
  ASSUME ClusterInv, [Next]_vars
  PROVE  NodesInv'
<1>1. NodesInv /\ ProtocolInv /\ Self \in Actors
  BY ScyllaClusterAssumption DEF ClusterInv
<1>2. ready' \subseteq IP
  BY <1>1 DEF NodesInv, Next, vars, processVars, ActorStep, Query, start, stop, down, down_node, up, UpWith,
     up_node, wait_for_node, wait_for_ready, Shutdown, SpawnFails, NodetoolFails, Fails, BecomesReady, Answering
<1>3. ASSUME nodes' \in Seq(NodeState), waited' = 0 PROVE NodesInv'
  <2>1. Len(nodes') \in Nat
    BY <1>3
  <2> QED  BY <1>2, <1>3, <2>1 DEF NodesInv
<1>4. <<>> \in Seq(NodeState)
  OBVIOUS
<1>5. ASSUME NEW ns, NEW lost, Crash(ns, lost) PROVE NodesInv'
  BY <1>3, <1>4, <1>5 DEF Crash
<1>6. ASSUME NEW ns \in Seq(NodeState), NEW lost, NEW result, Finish(ns, lost, result)
      PROVE  NodesInv'
  BY <1>3, <1>5, <1>6 DEF Finish
<1>7. \A I : Killed(I) \in Seq(NodeState) /\ Restarted(I) \in Seq(NodeState)
  BY <1>1, NodesChanged DEF NodesInv
<1>8. CASE SelfStep
  <2>1. CASE Query \/ wait_for_ready
    BY <1>1, <1>6, <2>1 DEF Query, wait_for_ready, FinishWith, NodesInv
  <2>2. CASE start
    <3>1. current[Self] # None /\ current[Self].op = "Start"
      BY <2>2, ServingFacts DEF start
    <3>2. current[Self].arg \in Seq(IP)
      BY <1>1, <3>1, IsCalled, ScyllaClusterAssumption
    <3>3. nodes \o Started(current[Self].arg) \in Seq(NodeState)
      BY <1>1, <3>2, NodesStarted DEF NodesInv
    <3> QED  BY <1>6, <2>2, <3>3 DEF start, FinishWith
  <2>3. CASE stop
    BY <1>4, <1>6, <2>3 DEF stop, FinishWith
  <2>4. CASE down \/ down_node
    BY <1>6, <1>7, <2>4 DEF down, down_node, FinishWith
  <2>5. CASE up
    BY <1>5, <1>6, <1>7, <2>5 DEF up, UpWith
  <2>6. CASE up_node
    BY <1>6, <1>7, <2>6 DEF up_node
  <2>7. CASE SpawnFails \/ NodetoolFails
    BY <1>5, <2>7 DEF SpawnFails, NodetoolFails
  <2>8. CASE wait_for_node
    <3>1. /\ current[Self] # None /\ current[Self].op = "WaitForReady"
          /\ waited < Len(nodes) /\ nodes[waited + 1].ip \in ready
          /\ waited' = waited + 1 /\ UNCHANGED <<current, nodes, ready>>
      BY <2>8, ServingFacts DEF wait_for_node, actorVars
    <3>2. waited \in Nat /\ Len(nodes) \in Nat
      BY <1>1 DEF NodesInv
    <3> QED  BY <1>1, <3>1, <3>2 DEF NodesInv
  <2>9. CASE Shutdown
    <3>1. waited = 0
      BY <1>1, <2>9 DEF Shutdown, Ends, NodesInv
    <3> QED  BY <1>3, <1>4, <2>9, <3>1 DEF Shutdown
  <2>10. CASE \E ip \in IP : BecomesReady(ip)
    BY <1>1, <2>10 DEF BecomesReady, actorVars, NodesInv
  <2>11. CASE Receive(Self) /\ UNCHANGED processVars
    <3>1. waited = 0
      BY <1>1, <2>11 DEF Receive, NodesInv
    <3> QED  BY <1>1, <1>3, <2>11, <3>1 DEF processVars, NodesInv
  <2> QED
    BY <1>8, <2>1, <2>2, <2>3, <2>4, <2>5, <2>6, <2>7, <2>8, <2>9, <2>10, <2>11 DEF SelfStep, ActorStep
<1>9. CASE ClientsStep
  <2>1. UNCHANGED processVars /\ (current'[Self] = None <=> current[Self] = None)
        /\ current'[Self].op = current[Self].op
    BY <1>1, <1>9, ClientsKeep DEF ClientsStep
  <2> QED  BY <1>1, <2>1 DEF NodesInv, processVars
<1>10. CASE UNCHANGED vars
  BY <1>1, <1>10 DEF vars, actorVars, processVars, NodesInv
<1> QED  BY <1>8, <1>9, <1>10, NextSplits

-----------------------------------------------------------------------------
(***************************************************************************)
(* The processes: each has its Child as long as the actor is alive.        *)
(***************************************************************************)

Kept == actor[Self] # "dead" => orphans = NothingLost

Emptied == actor[Self] = "finished" => nodes = <<>>

\* What answers has its Child in a node.
Runs(ns, ip) == \E i \in DOMAIN ns : ns[i].ip = ip /\ ns[i].child

Answered == actor[Self] # "dead" => \A ip \in ready : Runs(nodes, ip)

OwnedInv == Kept /\ Emptied /\ Answered

\* Where processes are counted there is a node that runs (Processes::Children).
LEMMA CountedRuns ==
  ASSUME NEW ns \in Seq(NodeState), NEW ip
  PROVE  Children(ns, ip) \in Nat /\ (Children(ns, ip) > 0 => Runs(ns, ip))
<1> DEFINE T == {i \in DOMAIN ns : ns[i].ip = ip /\ ns[i].child}
<1>1. Children(ns, ip) = Cardinality(T)
  BY DEF Children
<1>2. IsFiniteSet(DOMAIN ns)
  <2>1. DOMAIN ns = 1 .. Len(ns) /\ Len(ns) \in Nat
    OBVIOUS
  <2> QED  BY <2>1, FS_Interval
<1>3. T \in SUBSET DOMAIN ns
  OBVIOUS
<1>4. T # {} => Runs(ns, ip)
  BY DEF Runs
<1> HIDE DEF T
<1>5. Cardinality(T) \in Nat
  BY <1>2, <1>3, FS_Subset, FS_CardinalityType
<1>6. T = {} => Cardinality(T) = 0
  BY FS_EmptySet
<1> QED  BY <1>1, <1>4, <1>5, <1>6

\* None counts in an empty cluster.
LEMMA NoChildren == \A ip : Children(<<>>, ip) = 0
<1> SUFFICES ASSUME NEW ip PROVE Children(<<>>, ip) = 0
  OBVIOUS
<1>1. {i \in DOMAIN <<>> : <<>>[i].ip = ip /\ <<>>[i].child} = {}
  OBVIOUS
<1> QED  BY <1>1, FS_EmptySet DEF Children

\* Without orphans, what still answers after a change of the nodes has its Child there
\* (Processes::Answering).
LEMMA AnsweringRuns ==
  ASSUME NEW ns \in Seq(NodeState), ready \subseteq IP, orphans = NothingLost
  PROVE  \A ip \in Answering(ns) : Runs(ns, ip)
<1> SUFFICES ASSUME NEW ip \in Answering(ns) PROVE Runs(ns, ip)
  OBVIOUS
<1>1. ~ (orphans[ip] > 0)
  BY DEF Answering, NothingLost
<1> QED  BY <1>1, CountedRuns DEF Answering

\* Only up and up_node overwrite a Child, and not one that runs if the callers see to it;
\* a panic leaves everything behind (Processes::Finish, Processes::Crash).
LEMMA FinishOwns ==
  ASSUME ProtocolInv, OwnedInv, NEW ns, NEW lost, NEW result, Finish(ns, lost, result),
         actor[Self] = "run", lost = NothingLost
  PROVE  /\ actor'[Self] \in {"run", "dead"}
         /\ Kept'
         /\ actor'[Self] # "dead" => nodes' = ns
<1>1. actor \in [Actors -> {"run", "dead", "finished"}] /\ Self \in Actors
  BY ScyllaClusterAssumption DEF ProtocolInv, ProtocolType
<1>2. CASE Crash(ns, lost)
  BY <1>1, <1>2 DEF Crash, Panic, Kept
<1>3. CASE ~ Crash(ns, lost)
  <2>1. actor' = actor /\ nodes' = ns /\ orphans' = [ip \in IP |-> orphans[ip] + lost[ip]]
    BY <1>3 DEF Finish, Reply
  <2>2. orphans = NothingLost
    BY DEF OwnedInv, Kept
  <2>3. orphans' = NothingLost
    BY <2>1, <2>2 DEF NothingLost
  <2> QED  BY <2>1, <2>3 DEF Kept, NothingLost
<1> QED  BY <1>2, <1>3

\* Replacing the Child of nodes that have none loses nothing (Processes::Overwritten).
LEMMA NoneOverwritten ==
  ASSUME NEW I, \A i \in I : ~ nodes[i].child
  PROVE  Overwritten(I) = NothingLost
<1>1. \A ip \in IP : {i \in I : nodes[i].ip = ip /\ nodes[i].child} = {}
  OBVIOUS
<1> QED  BY <1>1, FS_EmptySet DEF Overwritten, NothingLost

\* Every process keeps its Child until it was stopped (the functions of the actor).
LEMMA OwnedKeeps ==
  ASSUME ClusterInv, OwnedInv, CallsFit, [Next]_vars
  PROVE  OwnedInv'
<1>1. /\ NodesInv /\ ProtocolInv /\ Self \in Actors /\ nodes \in Seq(NodeState) /\ ready \subseteq IP
      /\ actor \in [Actors -> {"run", "dead", "finished"}]
  BY ScyllaClusterAssumption DEF ClusterInv, NodesInv, ProtocolInv, ProtocolType
<1>2. ASSUME UNCHANGED <<nodes, ready, orphans>>, actor'[Self] = actor[Self] PROVE OwnedInv'
  BY <1>2 DEF OwnedInv, Kept, Emptied, Answered, Runs, NothingLost
<1>3. ASSUME actor'[Self] = "dead" PROVE OwnedInv'
  BY <1>3 DEF OwnedInv, Kept, Emptied, Answered
<1>4. ASSUME NEW ns, NEW lost, Crash(ns, lost) PROVE actor'[Self] = "dead"
  BY <1>1, <1>4 DEF Crash, Panic
<1>5. \A ops : Serving(ops) => actor[Self] = "run"
  BY DEF Serving, Processing
<1>6. ASSUME NEW ns, NEW lost, NEW result, Finish(ns, lost, result), actor[Self] = "run",
             lost = NothingLost, \A ip \in ready' : Runs(ns, ip)
      PROVE  OwnedInv'
  <2>1. actor'[Self] \in {"run", "dead"} /\ Kept' /\ (actor'[Self] # "dead" => nodes' = ns)
    BY <1>1, <1>6, FinishOwns
  <2>2. CASE actor'[Self] = "dead"
    BY <1>3, <2>2
  <2>3. CASE actor'[Self] = "run"
    BY <1>6, <2>1, <2>3 DEF OwnedInv, Emptied, Answered, Runs
  <2> QED  BY <2>1, <2>2, <2>3
<1>7. actor[Self] = "run" => orphans = NothingLost /\ \A ip \in ready : Runs(nodes, ip)
  BY DEF OwnedInv, Kept, Answered
<1>8. \A I : \A ip : Runs(nodes, ip) => Runs(Restarted(I), ip)
  <2> SUFFICES ASSUME NEW I, NEW ip, NEW i \in DOMAIN nodes, nodes[i].ip = ip, nodes[i].child
               PROVE  Runs(Restarted(I), ip)
    BY DEF Runs
  <2>1. DOMAIN Restarted(I) = DOMAIN nodes /\ Restarted(I)[i] = [nodes[i] EXCEPT !.child = @ \/ i \in I]
    BY DEF Restarted
  <2>2. nodes[i] \in NodeState
    BY <1>1
  <2>3. Restarted(I)[i].ip = ip /\ Restarted(I)[i].child
    BY <2>1, <2>2 DEF NodeState
  <2> QED  BY <2>1, <2>3 DEF Runs
<1>9. CASE Query \/ wait_for_ready
  BY <1>5, <1>6, <1>7, <1>9 DEF Query, wait_for_ready, FinishWith
<1>10. CASE start
  <2> DEFINE more == Started(current[Self].arg)
  <2>1. current[Self] # None /\ current[Self].op = "Start" /\ actor[Self] = "run"
    BY <1>10, ServingFacts DEF start
  <2>2. current[Self].arg \in Seq(IP)
    BY <1>1, <2>1, IsCalled, ScyllaClusterAssumption
  <2>3. more \in Seq(NodeState)
    BY <2>2, NodesStarted
  <2>4. FinishWith(nodes \o more, NoAnswer) /\ UNCHANGED ready
    BY <1>10 DEF start
  <2> HIDE DEF more
  <2>5. \A i \in DOMAIN nodes : i \in DOMAIN (nodes \o more) /\ (nodes \o more)[i] = nodes[i]
    BY <1>1, <2>3
  <2>6. \A ip \in ready' : Runs(nodes \o more, ip)
    BY <1>7, <2>1, <2>4, <2>5 DEF Runs
  <2> QED  BY <1>6, <2>1, <2>4, <2>6 DEF FinishWith
<1>11. CASE stop
  <2>1. <<>> \in Seq(NodeState)
    OBVIOUS
  <2> QED  BY <1>1, <1>5, <1>6, <1>7, <1>11, <2>1, AnsweringRuns DEF stop, FinishWith
<1>12. ASSUME NEW I, FinishWith(Killed(I), NoAnswer), ready' = Answering(Killed(I)), actor[Self] = "run"
       PROVE  OwnedInv'
  <2>1. Killed(I) \in Seq(NodeState)
    BY <1>1, NodesChanged
  <2> QED  BY <1>1, <1>6, <1>7, <1>12, <2>1, AnsweringRuns DEF FinishWith
<1>13. CASE down \/ down_node
  BY <1>5, <1>12, <1>13 DEF down, down_node
<1>14. CASE up
  <2>1. Serving({"Up"}) /\ UpWith(Len(current[Self].arg)) /\ UNCHANGED ready
    BY <1>14 DEF up, UpWith
  <2>2. CASE Len(current[Self].arg) >= Len(nodes)
    <3>1. Overwritten(DOMAIN nodes) = NothingLost
      BY <2>1, NoneOverwritten DEF CallsFit
    <3> QED  BY <1>5, <1>6, <1>7, <1>8, <2>1, <2>2, <3>1 DEF UpWith
  <2>3. CASE ~ (Len(current[Self].arg) >= Len(nodes))
    BY <1>3, <1>4, <2>1, <2>3 DEF UpWith
  <2> QED  BY <2>2, <2>3
<1>15. CASE up_node
  <2> DEFINE found == {Find(current[Self].arg[1])} \ {0}
  <2>1. /\ Serving({"UpNode"}) /\ UNCHANGED ready
        /\ Finish(Restarted(found), Overwritten(found), NoAnswer)
    BY <1>15 DEF up_node
  <2>2. \A i \in found : ~ nodes[i].child
    BY <2>1 DEF CallsFit
  <2> HIDE DEF found
  <2>3. Overwritten(found) = NothingLost
    BY <2>2, NoneOverwritten
  <2> QED  BY <1>5, <1>6, <1>7, <1>8, <2>1, <2>3
<1>16. CASE SpawnFails \/ NodetoolFails
  BY <1>3, <1>4, <1>16 DEF SpawnFails, NodetoolFails
<1>17. CASE wait_for_node \/ (Receive(Self) /\ UNCHANGED processVars)
  BY <1>2, <1>17 DEF wait_for_node, Receive, actorVars, processVars
<1>18. CASE Shutdown
  <2>1. actor[Self] = "run" /\ actor' = [actor EXCEPT ![Self] = "finished"]
    BY <1>18 DEF Shutdown, Ends
  <2>2. /\ orphans = NothingLost /\ UNCHANGED orphans
        /\ nodes' = <<>> /\ ready' = Answering(<<>>) /\ <<>> \in Seq(NodeState)
    BY <1>7, <1>18, <2>1 DEF Shutdown
  <2>3. \A ip \in ready' : Runs(nodes', ip)
    BY <1>1, <2>2, AnsweringRuns
  <2> QED  BY <2>2, <2>3 DEF OwnedInv, Kept, Emptied, Answered, Runs, NothingLost
<1>19. ASSUME NEW ip \in IP, BecomesReady(ip) PROVE OwnedInv'
  <2>1. ready' = ready \cup {ip} /\ UNCHANGED <<actor, nodes, orphans>> /\ Children(nodes, ip) + orphans[ip] > 0
    BY <1>19 DEF BecomesReady, actorVars
  <2>2. ASSUME actor[Self] # "dead" PROVE Runs(nodes, ip)
    <3>1. orphans[ip] = 0
      BY <2>2 DEF OwnedInv, Kept, NothingLost
    <3> QED  BY <1>1, <2>1, <3>1, CountedRuns
  <2> QED  BY <2>1, <2>2 DEF OwnedInv, Kept, Emptied, Answered, Runs, NothingLost
<1>20. CASE SelfStep
  BY <1>9, <1>10, <1>11, <1>13, <1>14, <1>15, <1>16, <1>17, <1>18, <1>19, <1>20 DEF SelfStep, ActorStep
<1>21. CASE ClientsStep
  BY <1>1, <1>2, <1>21, ClientsKeep DEF ClientsStep, processVars
<1>22. CASE UNCHANGED vars
  BY <1>2, <1>22 DEF vars, actorVars, processVars
<1> QED  BY <1>20, <1>21, <1>22, NextSplits

\* A wait_for_ready that is answered with true has passed every node
\* (ScyllaCluster::wait_for_ready).
LEMMA TrueMeansPassed ==
  ASSUME ClusterInv, [Next]_vars, NEW c \in Client,
         From(current[Self], c), current[Self].op = "WaitForReady",
         current'[Self] = None, actor'[Self] = "run", answer'[c] = Answer(TRUE)
  PROVE  actor[Self] = "run" /\ nodes # <<>> /\ \A i \in DOMAIN nodes : nodes[i].ip \in ready
<1>1. NodesInv /\ ProtocolInv /\ Self \in Actors /\ current[Self] # None
  BY ScyllaClusterAssumption DEF ClusterInv, From
<1>2. SelfStep
  <2>1. ~ ClientsStep
    BY <1>1, ClientsKeep DEF ClientsStep
  <2>2. ~ UNCHANGED vars
    BY <1>1 DEF vars, actorVars
  <2> QED  BY <2>1, <2>2, NextSplits
<1>3. ASSUME NEW ns, NEW lost, Crash(ns, lost) PROVE FALSE
  BY <1>1, <1>3 DEF Crash, Panic, ProtocolInv, ProtocolType
<1>4. wait_for_ready
  <2>1. \A ops : Serving(ops) => current[Self].op \in ops
    BY DEF Serving, Processing
  <2>2. ~ Receive(Self) /\ ~ Shutdown
    BY <1>1 DEF Receive, Shutdown, Ends
  <2>3. ~ wait_for_node /\ ~ \E ip \in IP : BecomesReady(ip)
    BY <1>1 DEF wait_for_node, BecomesReady, actorVars
  <2>4. ~ SpawnFails /\ ~ NodetoolFails
    BY <1>3 DEF SpawnFails, NodetoolFails
  <2>5. ~ Query /\ ~ start /\ ~ stop /\ ~ down /\ ~ down_node /\ ~ up /\ ~ up_node
    BY <2>1 DEF Query, start, stop, down, down_node, up, UpWith, up_node
  <2> QED  BY <1>2, <2>2, <2>3, <2>4, <2>5 DEF SelfStep, ActorStep
<1>5. waited = Len(nodes) /\ actor[Self] = "run"
  BY <1>4 DEF wait_for_ready, Serving, Processing
<1>6. nodes # <<>>
  <2>1. Reply(Self, Answer(nodes # <<>>))
    BY <1>3, <1>4 DEF wait_for_ready, FinishWith, Finish
  <2>2. answer'[c] = Answer(nodes # <<>>)
    <3>1. c # NoClient /\ DOMAIN answer = Client
      BY <1>1, ActorAssumption DEF ProtocolInv, ProtocolType
    <3>2. answer' = [answer EXCEPT ![c] = Answer(nodes # <<>>)]
      BY <2>1, <3>1 DEF Reply, From
    <3> QED  BY <3>1, <3>2
  <2> QED  BY <2>2 DEF Answer, NoAnswer
<1>7. \A i \in DOMAIN nodes : nodes[i].ip \in ready
  BY <1>1, <1>5 DEF NodesInv
<1> QED  BY <1>5, <1>6, <1>7

\* Where each address has its one node, what answers there is the process of that node
\* (ScyllaCluster::wait_for_ready).
LEMMA TrueMeansReady ==
  ASSUME ClusterInv, OwnedInv, CallsFit, [Next]_vars, NEW c \in Client,
         From(current[Self], c), current[Self].op = "WaitForReady",
         current'[Self] = None, actor'[Self] = "run", answer'[c] = Answer(TRUE)
  PROVE  \A i \in DOMAIN nodes : nodes[i].child /\ nodes[i].ip \in ready
<1>1. actor[Self] = "run" /\ \A i \in DOMAIN nodes : nodes[i].ip \in ready
  BY TrueMeansPassed
<1>2. \A ip \in ready : Runs(nodes, ip)
  BY <1>1 DEF OwnedInv, Answered
<1> SUFFICES ASSUME NEW i \in DOMAIN nodes PROVE nodes[i].child
  BY <1>1
<1>3. PICK j \in DOMAIN nodes : nodes[j].ip = nodes[i].ip /\ nodes[j].child
  BY <1>1, <1>2 DEF Runs
<1>4. j = i
  BY <1>3 DEF CallsFit
<1> QED  BY <1>3, <1>4

-----------------------------------------------------------------------------
\* The invariant behind all theorems, for all clients and plans (ScyllaCluster::Spec).
LEMMA ClusterHolds == Spec => []ClusterInv
<1>1. Init => ClusterInv
  <2> SUFFICES ASSUME Init PROVE ClusterInv
    OBVIOUS
  <2>1. <<>> \in Seq(NodeState) /\ Len(<<>>) = 0
    OBVIOUS
  <2>2. NodesInv
    BY <2>1, ScyllaClusterAssumption DEF Init, ActorInit, ProcessesInit, NodesInv
  <2> QED  BY <2>2, InitProtocol DEF Init, ClusterInv
<1>2. ClusterInv /\ [Next]_vars => ClusterInv'
  <2> SUFFICES ASSUME ClusterInv, [Next]_vars PROVE ClusterInv'
    OBVIOUS
  <2>1. ProtocolInv'
    BY NextIsProtocolStep, ProtocolKeeps, ScyllaClusterAssumption DEF ClusterInv
  <2> QED  BY <2>1, NodesKeep DEF ClusterInv
<1> QED  BY <1>1, <1>2, PTL DEF Spec

\* The same for the processes, if callers keep to what the actor takes for granted.
LEMMA OwnedHolds == Spec /\ []CallsFit => []OwnedInv
<1>1. Init => OwnedInv
  BY ScyllaClusterAssumption DEF Init, ActorInit, ProcessesInit, OwnedInv, Kept, Emptied, Answered
<1>2. ClusterInv /\ OwnedInv /\ CallsFit /\ [Next]_vars => OwnedInv'
  BY OwnedKeeps
<1> QED  BY <1>1, <1>2, ClusterHolds, PTL DEF Spec

\* The actor panics only after a cancelled client or a failing system hit it, if every up
\* has enough configurations: no order of its calls makes an index or an expect fail
\* (ScyllaCluster::UpWith and the other functions of the actor).
THEOREM OnlyFaultsKill == Spec /\ []CallsFit => []DiesOnlyOfFaults
<1>1. Init => DiesOnlyOfFaults
  BY DEF Init, ActorInit, DiesOnlyOfFaults
<1>2. ClusterInv /\ DiesOnlyOfFaults /\ CallsFit /\ [Next]_vars => DiesOnlyOfFaults'
  BY NextIsProtocolStep, DyingKeeps DEF ClusterInv
<1> QED  BY <1>1, <1>2, ClusterHolds, PTL DEF Spec

\* As long as callers bring nodes up only after they were down, the actor keeps the Child
\* of every process until it has stopped it, and at its end it has stopped all, whatever
\* fails or is cancelled.  Without that premise it is false: up and up_node replace
\* the Child without looking (ScyllaCluster::up_node, ScyllaCluster::Shutdown).
THEOREM ProcessesOwnedHolds == Spec /\ []CallsFit => []ProcessesOwned
<1>1. OwnedInv /\ ClusterInv => ProcessesOwned
  <2> SUFFICES ASSUME OwnedInv, actor[Self] = "finished" PROVE ready = {}
    BY DEF OwnedInv, Kept, Emptied, ProcessesOwned
  <2>1. nodes = <<>> /\ \A ip \in ready : Runs(nodes, ip)
    BY DEF OwnedInv, Emptied, Answered
  <2> QED  BY <2>1 DEF Runs
<1> QED  BY <1>1, ClusterHolds, OwnedHolds, PTL

\* wait_for_ready is true only if every node runs and answers, whatever other clients
\* stop, restart and take down in between.  It asks addresses, not the Child of a
\* node: where two nodes share one, or a lost process answers there, it may be true
\* for a node that is down (ScyllaCluster::wait_for_node).
THEOREM ReadyIsReady == Spec /\ []CallsFit => ReadyMeansReady
<1> DEFINE A == \A c \in Client :
                  /\ From(current[Self], c) /\ current[Self].op = "WaitForReady"
                  /\ current'[Self] = None /\ actor'[Self] = "run"
                  /\ answer'[c] = Answer(TRUE)
                  => \A i \in DOMAIN nodes : nodes[i].child /\ nodes[i].ip \in ready
<1>1. ClusterInv /\ OwnedInv /\ CallsFit /\ [Next]_vars => [A]_<<actorVars, processVars>>
  <2> SUFFICES ASSUME ClusterInv, OwnedInv, CallsFit, [Next]_vars PROVE A
    OBVIOUS
  <2> QED  BY TrueMeansReady
<1> QED  BY <1>1, ClusterHolds, OwnedHolds, PTL DEF Spec, ReadyMeansReady

\* Whatever a client has sent to the actor before a call is processed when the call is
\* answered: the mpsc channel and the loop of the actor keep the order, also where
\* callers do not keep to what the actor takes for granted (ScyllaCluster::process).
THEOREM CallsAreFollowed == Spec => AnswersFollowCalls
<1> DEFINE A == \A a \in Actors, c \in Client :
                  (From(current[a], c) /\ current'[a] = None) =>
                    \A i \in DOMAIN mailbox'[a] : mailbox'[a][i].client # c
<1>1. ClusterInv /\ [Next]_vars => [A]_actorVars
  <2> SUFFICES ASSUME ClusterInv, [Next]_vars PROVE A
    OBVIOUS
  <2>1. ProtocolInv /\ (ProtocolStep \/ \E b \in Actors : Abandons(b))
    BY NextIsProtocolStep, ScyllaClusterAssumption DEF ClusterInv
  <2> QED  BY <2>1, AnswersFollow
<1> QED  BY <1>1, ClusterHolds, PTL DEF Spec, AnswersFollowCalls

-----------------------------------------------------------------------------
(***************************************************************************)
(* What holds whatever callers do.                                         *)
(***************************************************************************)

\* wait_for_ready is true only if there are nodes, and something answers at the address
\* of each of them, in whatever order any clients start, restart and stop them, and also
\* when processes were lost (ScyllaCluster::wait_for_ready).
THEOREM ReadyMeansAnswering ==
  Spec => [][\A c \in Client :
               /\ From(current[Self], c) /\ current[Self].op = "WaitForReady"
               /\ current'[Self] = None /\ actor'[Self] = "run"
               /\ answer'[c] = Answer(TRUE)
               => nodes # <<>> /\ \A i \in DOMAIN nodes : nodes[i].ip \in ready]_<<actorVars, processVars>>
<1> DEFINE A == \A c \in Client :
                  /\ From(current[Self], c) /\ current[Self].op = "WaitForReady"
                  /\ current'[Self] = None /\ actor'[Self] = "run"
                  /\ answer'[c] = Answer(TRUE)
                  => nodes # <<>> /\ \A i \in DOMAIN nodes : nodes[i].ip \in ready
<1>1. ClusterInv /\ [Next]_vars => [A]_<<actorVars, processVars>>
  <2> SUFFICES ASSUME ClusterInv, [Next]_vars PROVE A
    OBVIOUS
  <2> QED  BY TrueMeansPassed
<1> QED  BY <1>1, ClusterHolds, PTL DEF Spec

OrphansType == orphans \in [IP -> Nat]

\* The first node with an address, or none (Processes::Find).
LEMMA FindsNode ==
  ASSUME nodes \in Seq(NodeState), NEW ip
  PROVE  \/ Find(ip) \in DOMAIN nodes /\ nodes[Find(ip)].ip = ip
         \/ Find(ip) = 0 /\ \A i \in DOMAIN nodes : nodes[i].ip # ip
<1> DEFINE I == {i \in 1 .. Len(nodes) : nodes[i].ip = ip}
<1>1. Find(ip) = IF I # {} THEN Min(I) ELSE 0
  BY DEF Find, SelectInSeq
<1>2. CASE I # {}
  <2>1. I \in SUBSET Nat
    OBVIOUS
  <2>2. \E x \in I : \A y \in I : x <= y
    BY <1>2, <2>1, LeastElement
  <2>3. Min(I) \in I
    BY <2>2 DEF Min
  <2> QED  BY <1>1, <1>2, <2>3
<1>3. CASE I = {}
  BY <1>1, <1>3
<1> QED  BY <1>2, <1>3

\* Processes are counted in natural numbers (Processes::Overwritten).
LEMMA CountsLost ==
  ASSUME nodes \in Seq(NodeState), NEW I \in SUBSET DOMAIN nodes
  PROVE  Overwritten(I) \in [IP -> Nat]
<1>1. IsFiniteSet(DOMAIN nodes)
  <2>1. DOMAIN nodes = 1 .. Len(nodes) /\ Len(nodes) \in Nat
    OBVIOUS
  <2> QED  BY <2>1, FS_Interval
<1>2. \A ip : {i \in I : nodes[i].ip = ip /\ nodes[i].child} \in SUBSET DOMAIN nodes
  OBVIOUS
<1>3. \A ip : Cardinality({i \in I : nodes[i].ip = ip /\ nodes[i].child}) \in Nat
  BY <1>1, <1>2, FS_Subset, FS_CardinalityType
<1> QED  BY <1>3 DEF Overwritten

\* A process is lost when its Child is overwritten or dropped (Processes::Finish).
LEMMA OrphansKeep ==
  ASSUME ClusterInv, OrphansType, [Next]_vars
  PROVE  OrphansType'
<1>1. ProtocolInv /\ nodes \in Seq(NodeState) /\ Self \in Actors
  BY ScyllaClusterAssumption DEF ClusterInv, NodesInv
<1>2. NothingLost \in [IP -> Nat]
  BY DEF NothingLost
<1>3. ASSUME NEW ns \in Seq(NodeState), NEW lost \in [IP -> Nat], Crash(ns, lost)
      PROVE  OrphansType'
  <2>1. \A ip \in IP : Children(ns, ip) \in Nat
    BY CountedRuns
  <2> QED  BY <1>3, <2>1 DEF Crash, OrphansType
<1>4. ASSUME NEW ns \in Seq(NodeState), NEW lost \in [IP -> Nat], NEW r, Finish(ns, lost, r)
      PROVE  OrphansType'
  BY <1>3, <1>4 DEF Finish, OrphansType
<1>5. \A I : Killed(I) \in Seq(NodeState) /\ Restarted(I) \in Seq(NodeState)
  BY <1>1, NodesChanged
<1>6. ASSUME NEW ips \in Seq(IP) PROVE nodes \o Started(ips) \in Seq(NodeState)
  BY <1>1, NodesStarted
<1>7. current[Self] # None /\ current[Self].op \in {"Start", "Up"} => current[Self].arg \in Seq(IP)
  BY <1>1, IsCalled, ScyllaClusterAssumption
<1>8. CASE Query \/ wait_for_ready
  BY <1>1, <1>2, <1>4, <1>8 DEF Query, wait_for_ready, FinishWith
<1>9. CASE start
  <2>1. current[Self].arg \in Seq(IP)
    BY <1>7, <1>9, ServingFacts DEF start
  <2>2. nodes \o Started(current[Self].arg) \in Seq(NodeState)
    BY <1>6, <2>1
  <2> QED  BY <1>2, <1>4, <1>9, <2>2 DEF start, FinishWith
<1>10. CASE stop
  <2>1. <<>> \in Seq(NodeState)
    OBVIOUS
  <2> QED  BY <1>2, <1>4, <1>10, <2>1 DEF stop, FinishWith
<1>11. CASE down \/ down_node
  BY <1>2, <1>4, <1>5, <1>11 DEF down, down_node, FinishWith
<1>12. CASE up
  <2> PICK n : n = Len(current[Self].arg)
    OBVIOUS
  <2>1. n \in Nat /\ UpWith(n)
    BY <1>7, <1>12, ServingFacts DEF up
  <2>2. CASE n >= Len(nodes)
    BY <1>1, <1>4, <1>5, <2>1, <2>2, CountsLost DEF UpWith
  <2>3. CASE ~ (n >= Len(nodes))
    <3>1. 1 .. n \in SUBSET DOMAIN nodes
      BY <1>1, <2>1, <2>3
    <3> QED  BY <1>1, <1>3, <1>5, <2>1, <2>3, <3>1, CountsLost DEF UpWith
  <2> QED  BY <2>2, <2>3
<1>13. CASE up_node
  <2> PICK I : I = {Find(current[Self].arg[1])} \ {0}
    OBVIOUS
  <2>1. I \in SUBSET DOMAIN nodes /\ Finish(Restarted(I), Overwritten(I), NoAnswer)
    BY <1>1, <1>13, FindsNode DEF up_node
  <2> QED  BY <1>1, <1>4, <1>5, <2>1, CountsLost
<1>14. CASE SpawnFails
  <2> PICK m : m = current[Self]
    OBVIOUS
  <2>1. current[Self] # None
    BY <1>14, ServingFacts DEF SpawnFails
  <2>2. PICK k \in 0 .. Len(m.arg) - 1 :
          \/ m.op = "Start" /\ Crash(nodes \o Started(SubSeq(m.arg, 1, k)), NothingLost)
          \/ m.op = "Up" /\ k < Len(nodes) /\ Crash(Restarted(1 .. k), Overwritten(1 .. k))
          \/ Crash(nodes, NothingLost)
    BY <1>14 DEF SpawnFails
  <2>3. CASE m.op = "Start" /\ Crash(nodes \o Started(SubSeq(m.arg, 1, k)), NothingLost)
    <3>1. SubSeq(m.arg, 1, k) \in Seq(IP)
      <4>1. m.arg \in Seq(IP)
        BY <1>7, <2>1, <2>3
      <4> QED  BY <4>1
    <3> QED  BY <1>2, <1>3, <1>6, <2>3, <3>1
  <2>4. CASE m.op = "Up" /\ k < Len(nodes) /\ Crash(Restarted(1 .. k), Overwritten(1 .. k))
    <3>1. 1 .. k \in SUBSET DOMAIN nodes
      <4>1. m.arg \in Seq(IP)
        BY <1>7, <2>1, <2>4
      <4>2. k \in Nat
        BY <4>1
      <4> QED  BY <1>1, <2>4, <4>2
    <3> QED  BY <1>1, <1>3, <1>5, <2>4, <3>1, CountsLost
  <2>5. CASE Crash(nodes, NothingLost)
    BY <1>1, <1>2, <1>3, <2>5
  <2> QED  BY <2>2, <2>3, <2>4, <2>5
<1>15. CASE NodetoolFails
  BY <1>1, <1>2, <1>3, <1>15 DEF NodetoolFails
<1>16. CASE UNCHANGED orphans
  BY <1>16 DEF OrphansType
<1>17. CASE \/ Receive(Self) /\ UNCHANGED processVars
            \/ wait_for_node \/ Shutdown \/ \E ip \in IP : BecomesReady(ip)
  BY <1>16, <1>17 DEF processVars, wait_for_node, Shutdown, BecomesReady
<1>18. CASE SelfStep
  BY <1>8, <1>9, <1>10, <1>11, <1>12, <1>13, <1>14, <1>15, <1>17, <1>18 DEF SelfStep, ActorStep
<1>19. CASE ClientsStep \/ UNCHANGED vars
  BY <1>16, <1>19 DEF ClientsStep, vars, processVars
<1> QED  BY <1>18, <1>19, NextSplits

\* The variables of the actor and its clients have their types, and its mailbox does not
\* exceed its capacity, whatever clients call (Actor::Send, ScyllaCluster::process).
THEOREM TypesHold == Spec => [](ActorTypeOK /\ ProcessesTypeOK)
<1>1. Init => ClientType /\ OrphansType
  <2> SUFFICES ASSUME Init PROVE ClientType /\ OrphansType
    OBVIOUS
  <2>1. ClientType
    BY ClientTypeInit DEF Init
  <2> QED  BY <2>1 DEF Init, ProcessesInit, NothingLost, OrphansType
<1>2. ClusterInv /\ ClientType /\ OrphansType /\ [Next]_vars => ClientType' /\ OrphansType'
  <2> SUFFICES ASSUME ClusterInv, ClientType, OrphansType, [Next]_vars PROVE ClientType' /\ OrphansType'
    OBVIOUS
  <2>1. ProtocolInv /\ (ProtocolStep \/ \E a \in Actors : Abandons(a))
    BY NextIsProtocolStep, ScyllaClusterAssumption DEF ClusterInv
  <2> QED  BY <2>1, ClientTypeKeeps, OrphansKeep
<1>3. ClusterInv /\ ClientType /\ OrphansType => ActorTypeOK /\ ProcessesTypeOK
  <2> SUFFICES ASSUME ClusterInv, ClientType, OrphansType PROVE ActorTypeOK /\ ProcessesTypeOK
    OBVIOUS
  <2>1. ActorTypeOK
    BY ActorTypes DEF ClusterInv
  <2> QED  BY <2>1 DEF ClusterInv, NodesInv, OrphansType, ProcessesTypeOK
<1> QED  BY <1>1, <1>2, <1>3, ClusterHolds, PTL DEF Spec

-----------------------------------------------------------------------------
(***************************************************************************)
(* CallsFit itself: it holds where one client starts processes, each after *)
(* it has stopped the last one, whatever the others call and whoever is    *)
(* cancelled (OneStarts).                                                  *)
(***************************************************************************)

\* What may start the process of a node, what stops it, and one operation.
StartLabels(ip) == {Label(m) : m \in {k \in Calls : Starts(k, ip)}}

StopLabels(ip) == {Label(m) : m \in {k \in Calls : Stops(k, ip)}}

AskLabels(op) == {Label(m) : m \in {k \in Calls : Asks(k, op)}}

\* The nodes are those of one start.
OfOneStart ==
  nodes = <<>> \/ \E m \in Calls : /\ Asks(m, "Start") /\ Len(m.arg) = Len(nodes)
                                   /\ \A i \in DOMAIN nodes : nodes[i].ip = m.arg[i]

\* Before each call of c that starts a process of ip comes one that stops it, if it runs
\* or another such call comes first; the same for starts of the whole cluster.
StopsFirst(c, ip) ==
  /\ Fit(Line(Self, c, StartLabels(ip)), Line(Self, c, StopLabels(ip)), Runs(nodes, ip))
  /\ Fit(Line(Self, c, AskLabels("Start")), Line(Self, c, AskLabels("Stop")), nodes # <<>>)

TurnInv(c) ==
  /\ OfOneStart
  /\ \A ip \in IP : /\ Quiet(c, StartLabels(ip)) /\ Quiet(c, AskLabels("Start"))
                    /\ actor[Self] = "run" => StopsFirst(c, ip)

\* A label says what a call does (Processes::Starts, Processes::Stops).
LEMMA LabelTells ==
  ASSUME NEW m, NEW k \in Calls, Label(m) = Label(k), NEW ip, NEW op
  PROVE  /\ Label(m) \in StartLabels(ip) <=> Starts(m, ip)
         /\ Label(m) \in StopLabels(ip) <=> Stops(m, ip)
         /\ Label(m) \in AskLabels(op) <=> Asks(m, op)
<1>1. \A x : Label(x) = Label(m) => /\ Starts(x, ip) <=> Starts(m, ip)
                                    /\ Stops(x, ip) <=> Stops(m, ip)
                                    /\ Asks(x, op) <=> Asks(m, op)
  BY DEF Label, Starts, Stops, Asks
<1>2. Label(m) \in StartLabels(ip) <=> Starts(m, ip)
  BY <1>1 DEF StartLabels
<1>3. Label(m) \in StopLabels(ip) <=> Stops(m, ip)
  BY <1>1 DEF StopLabels
<1>4. Label(m) \in AskLabels(op) <=> Asks(m, op)
  BY <1>1 DEF AskLabels
<1> QED  BY <1>2, <1>3, <1>4

\* These calls are all for this actor.
LEMMA LabelsSelf ==
  ASSUME NEW ip, NEW op
  PROVE  \A k \in StartLabels(ip) \cup StopLabels(ip) \cup AskLabels(op) : k[1] = Self
BY DEF StartLabels, StopLabels, AskLabels, Label, Starts, Stops, Asks

\* What is processed is a call.
LEMMA CurrentLabel ==
  ASSUME ProtocolInv, current[Self] # None, NEW ip, NEW op
  PROVE  /\ Label(current[Self]) \in StartLabels(ip) <=> Starts(current[Self], ip)
         /\ Label(current[Self]) \in StopLabels(ip) <=> Stops(current[Self], ip)
         /\ Label(current[Self]) \in AskLabels(op) <=> Asks(current[Self], op)
         /\ current[Self].to = Self
<1>1. current[Self] \in Messages /\ current[Self].to = Self
  <2>1. 0 \in Places(Self) /\ MsgAt(Self, 0) = current[Self] /\ Self \in Actors
    BY ScyllaClusterAssumption DEF Places, MsgAt, ProtocolInv, ProtocolType
  <2> QED  BY <2>1 DEF Addressed, ProtocolInv, ProtocolType
<1>2. PICK k \in Calls, d \in Client \cup {NoClient} : current[Self] = Message(k, d)
  BY <1>1 DEF Messages
<1>3. Label(current[Self]) = Label(k)
  BY <1>2, MessageLabel
<1> QED  BY <1>1, <1>3, LabelTells

\* What is first in line comes after nothing.
LEMMA FirstInLine ==
  ASSUME ProtocolInv, NEW c \in Client, NEW K, NEW L, NEW live, current[Self] # None,
         Label(current[Self]) \in K, Fit(Line(Self, c, K), Line(Self, c, L), live)
  PROVE  ~ live
<1>1. mailbox[Self] \in Seq(Messages)
  BY ScyllaClusterAssumption DEF ProtocolInv, ProtocolType
<1>2. 0 \in Line(Self, c, K)
  BY <1>1, RowFirst DEF Line
<1>3. \A y \in Line(Self, c, L) : y \in Nat
  BY DEF Line, Row
<1>4. \A y \in Nat : ~ (y < 0)
  OBVIOUS
<1> QED  BY <1>2, <1>3, <1>4 DEF Fit

\* The actor gets what it takes for granted (ScyllaCluster::up, ScyllaCluster::up_node).
LEMMA TurnsFit ==
  ASSUME ClusterInv, NEW c \in Client, OneStarts(c), TurnInv(c)
  PROVE  CallsFit
<1>1. ProtocolInv /\ nodes \in Seq(NodeState) /\ Self \in Actors
  BY ScyllaClusterAssumption DEF ClusterInv, NodesInv
<1>2. ASSUME NEW i \in DOMAIN nodes, current[Self] # None, actor[Self] = "run",
             Starts(current[Self], nodes[i].ip)
      PROVE  ~ nodes[i].child
  <2>1. nodes[i].ip \in IP
    <3>1. nodes[i] \in NodeState
      BY <1>1
    <3> QED  BY <3>1 DEF NodeState
  <2> PICK ip \in IP : ip = nodes[i].ip
    BY <2>1
  <2>2. Label(current[Self]) \in StartLabels(ip)
    BY <1>1, <1>2, CurrentLabel
  <2> PICK live : live = Runs(nodes, ip)
    OBVIOUS
  <2>3. Fit(Line(Self, c, StartLabels(ip)), Line(Self, c, StopLabels(ip)), live)
    BY <1>2 DEF TurnInv, StopsFirst
  <2>4. ~ live
    BY <1>1, <1>2, <2>2, <2>3, FirstInLine
  <2> QED  BY <2>4 DEF Runs
<1>3. ASSUME Serving({"UpNode"}), NEW i \in {Find(current[Self].arg[1])} \ {0}
      PROVE  ~ nodes[i].child
  <2>1. actor[Self] = "run" /\ current[Self] # None /\ current[Self].op = "UpNode"
    BY <1>3, ServingFacts
  <2>2. i \in DOMAIN nodes /\ nodes[i].ip = current[Self].arg[1]
    BY <1>1, FindsNode
  <2>3. Starts(current[Self], nodes[i].ip)
    BY <1>1, <2>1, <2>2, CurrentLabel DEF Starts
  <2> QED  BY <1>2, <2>1, <2>2, <2>3
<1>4. ASSUME Serving({"Up"})
      PROVE  (\A i \in DOMAIN nodes : ~ nodes[i].child) /\ Len(nodes) <= Len(current[Self].arg)
  <2>1. actor[Self] = "run" /\ current[Self] # None /\ current[Self].op = "Up"
    BY <1>4, ServingFacts
  <2>2. \A i \in DOMAIN nodes : Starts(current[Self], nodes[i].ip)
    BY <1>1, <2>1, CurrentLabel DEF Starts
  <2>3. PICK k \in Calls : k.to = Self /\ k.op = "Up" /\ k.arg = current[Self].arg
    BY <1>1, <2>1, IsCalled
  <2>4. Len(k.arg) \in Nat
    <3>1. k.arg \in Seq(IP)
      BY <2>3, ScyllaClusterAssumption
    <3> QED  BY <3>1
  <2>5. Len(nodes) <= Len(k.arg)
    <3>1. CASE nodes = <<>>
      BY <2>4, <3>1
    <3>2. CASE nodes # <<>>
      BY <2>3, <3>2 DEF TurnInv, OfOneStart, OneStarts, Asks
    <3> QED  BY <3>1, <3>2
  <2> QED  BY <1>2, <2>1, <2>2, <2>3, <2>5
<1>5. ASSUME NEW i \in DOMAIN nodes, NEW j \in DOMAIN nodes, nodes[i].ip = nodes[j].ip
      PROVE  i = j
  <2>1. nodes # <<>>
    BY <1>5
  <2>2. PICK m \in Calls : /\ Asks(m, "Start") /\ Len(m.arg) = Len(nodes)
                           /\ \A k \in DOMAIN nodes : nodes[k].ip = m.arg[k]
    BY <2>1 DEF TurnInv, OfOneStart
  <2>3. m.arg \in Seq(IP)
    BY <2>2, ScyllaClusterAssumption DEF Asks
  <2>4. i \in DOMAIN m.arg /\ j \in DOMAIN m.arg
    BY <1>1, <2>2, <2>3
  <2> QED  BY <1>5, <2>2, <2>4 DEF OneStarts
<1> QED  BY <1>3, <1>4, <1>5 DEF CallsFit

\* The nodes keep their addresses when processes are killed and restarted.
LEMMA AddressesKept ==
  ASSUME nodes \in Seq(NodeState), NEW I
  PROVE  \A ns \in {Killed(I), Restarted(I)} :
           /\ DOMAIN ns = DOMAIN nodes
           /\ \A i \in DOMAIN nodes : ns[i].ip = nodes[i].ip
<1>1. \A i \in DOMAIN nodes : nodes[i] \in NodeState
  OBVIOUS
<1>2. \A i \in DOMAIN nodes : /\ [nodes[i] EXCEPT !.child = @ /\ i \notin I].ip = nodes[i].ip
                              /\ [nodes[i] EXCEPT !.child = @ \/ i \in I].ip = nodes[i].ip
  BY <1>1 DEF NodeState
<1>3. DOMAIN Killed(I) = DOMAIN nodes /\ \A i \in DOMAIN nodes : Killed(I)[i].ip = nodes[i].ip
  BY <1>2 DEF Killed
<1>4. DOMAIN Restarted(I) = DOMAIN nodes /\ \A i \in DOMAIN nodes : Restarted(I)[i].ip = nodes[i].ip
  BY <1>2 DEF Restarted
<1> QED  BY <1>3, <1>4

\* What runs afterwards ran before, or was restarted.
LEMMA RunsAfter ==
  ASSUME nodes \in Seq(NodeState), NEW I, NEW ip
  PROVE  /\ Runs(Killed(I), ip) =>
              \E i \in DOMAIN nodes \ I : nodes[i].ip = ip /\ nodes[i].child
         /\ Runs(Restarted(I), ip) =>
              Runs(nodes, ip) \/ \E i \in DOMAIN nodes \cap I : nodes[i].ip = ip
<1>1. \A i \in DOMAIN nodes : nodes[i] \in NodeState
  OBVIOUS
<1>2. \A i \in DOMAIN nodes : /\ [nodes[i] EXCEPT !.child = @ /\ i \notin I].child <=> nodes[i].child /\ i \notin I
                              /\ [nodes[i] EXCEPT !.child = @ \/ i \in I].child <=> nodes[i].child \/ i \in I
  BY <1>1 DEF NodeState
<1>3. ASSUME Runs(Killed(I), ip)
      PROVE  \E i \in DOMAIN nodes \ I : nodes[i].ip = ip /\ nodes[i].child
  <2>1. PICK i \in DOMAIN Killed(I) : Killed(I)[i].ip = ip /\ Killed(I)[i].child
    BY <1>3 DEF Runs
  <2>2. i \in DOMAIN nodes /\ nodes[i].ip = ip
    BY <2>1, AddressesKept
  <2>3. nodes[i].child /\ i \notin I
    BY <1>2, <2>1, <2>2 DEF Killed
  <2> QED  BY <2>2, <2>3
<1>4. ASSUME Runs(Restarted(I), ip)
      PROVE  Runs(nodes, ip) \/ \E i \in DOMAIN nodes \cap I : nodes[i].ip = ip
  <2>1. PICK i \in DOMAIN Restarted(I) : Restarted(I)[i].ip = ip /\ Restarted(I)[i].child
    BY <1>4 DEF Runs
  <2>2. i \in DOMAIN nodes /\ nodes[i].ip = ip
    BY <2>1, AddressesKept
  <2>3. nodes[i].child \/ i \in I
    BY <1>2, <2>1, <2>2 DEF Restarted
  <2> QED  BY <2>2, <2>3 DEF Runs
<1> QED  BY <1>3, <1>4

\* A call that is done has done what its label says (Processes::Finish).
LEMMA FinishTurns ==
  ASSUME ClusterInv, NEW c \in Client, TurnInv(c), NEW ip \in IP,
         NEW ns, NEW lost, NEW result, Finish(ns, lost, result),
         current[Self] # None, actor[Self] = "run",
         Runs(ns, ip) => \/ Starts(current[Self], ip)
                         \/ Runs(nodes, ip) /\ ~ Stops(current[Self], ip),
         ns # <<>> => \/ Asks(current[Self], "Start")
                      \/ nodes # <<>> /\ ~ Asks(current[Self], "Stop")
  PROVE  actor'[Self] = "run" => StopsFirst(c, ip)'
<1>1. ProtocolInv /\ Self \in Actors /\ actor \in [Actors -> {"run", "dead", "finished"}]
  BY ScyllaClusterAssumption DEF ClusterInv, ProtocolInv, ProtocolType
<1>2. CASE Crash(ns, lost)
  BY <1>1, <1>2 DEF Crash, Panic
<1>3. CASE Reply(Self, result) /\ nodes' = ns
  <2>1. StopsFirst(c, ip)
    BY DEF TurnInv
  <2> PICK live : live = Runs(nodes, ip)
    OBVIOUS
  <2> PICK after : after = Runs(ns, ip)
    OBVIOUS
  <2>2. after => \/ Label(current[Self]) \in StartLabels(ip)
                 \/ live /\ Label(current[Self]) \notin StopLabels(ip)
    BY <1>1, CurrentLabel
  <2>3. Fit(Line(Self, c, StartLabels(ip))', Line(Self, c, StopLabels(ip))', after)
    BY <1>1, <1>3, <2>1, <2>2, LineServed DEF StopsFirst
  <2> PICK live2 : live2 = (nodes # <<>>)
    OBVIOUS
  <2> PICK after2 : after2 = (ns # <<>>)
    OBVIOUS
  <2>4. after2 => \/ Label(current[Self]) \in AskLabels("Start")
                  \/ live2 /\ Label(current[Self]) \notin AskLabels("Stop")
    BY <1>1, CurrentLabel
  <2>5. Fit(Line(Self, c, AskLabels("Start"))', Line(Self, c, AskLabels("Stop"))', after2)
    BY <1>1, <1>3, <2>1, <2>4, LineServed DEF StopsFirst
  <2> QED  BY <1>3, <2>3, <2>5 DEF StopsFirst, StartLabels, StopLabels, AskLabels
<1> QED  BY <1>2, <1>3 DEF Finish

\* The nodes stay those of one start until they are forgotten.
LEMMA OneStartKept ==
  ASSUME OfOneStart, nodes \in Seq(NodeState), NEW ns \in Seq(NodeState),
         DOMAIN ns = DOMAIN nodes, \A i \in DOMAIN nodes : ns[i].ip = nodes[i].ip,
         nodes' = ns
  PROVE  OfOneStart'
<1>1. Len(ns) = Len(nodes)
  <2>1. Len(ns) \in Nat /\ Len(nodes) \in Nat /\ 1 .. Len(ns) = 1 .. Len(nodes)
    OBVIOUS
  <2>2. ASSUME NEW p \in Nat, NEW q \in Nat, 1 .. p = 1 .. q PROVE p <= q
    <3>1. CASE p = 0
      BY <3>1
    <3>2. CASE p # 0
      <4>1. p \in 1 .. p
        BY <3>2
      <4>2. p \in 1 .. q
        BY <2>2, <4>1
      <4> QED  BY <4>2
    <3> QED  BY <3>1, <3>2
  <2>3. Len(ns) <= Len(nodes) /\ Len(nodes) <= Len(ns)
    BY <2>1, <2>2
  <2> QED  BY <2>1, <2>3
<1>2. CASE nodes = <<>>
  <2>1. ns = <<>>
    BY <1>1, <1>2
  <2> QED  BY <2>1 DEF OfOneStart
<1>3. CASE nodes # <<>>
  BY <1>1, <1>3 DEF OfOneStart
<1> QED  BY <1>2, <1>3

\* Nodes are started only where there are none (ScyllaCluster::start).
LEMMA StartsAlone ==
  ASSUME ClusterInv, NEW c \in Client, TurnInv(c), start
  PROVE  /\ nodes = <<>>
         /\ nodes' = nodes \o Started(current[Self].arg) => OfOneStart'
<1>1. ProtocolInv /\ nodes \in Seq(NodeState) /\ Self \in Actors
  BY ScyllaClusterAssumption DEF ClusterInv, NodesInv
<1>2. actor[Self] = "run" /\ current[Self] # None /\ current[Self].op = "Start"
  BY ServingFacts DEF start
<1>3. nodes = <<>>
  <2> SUFFICES ASSUME nodes # <<>> PROVE FALSE
    OBVIOUS
  <2>1. nodes[1] \in NodeState
    BY <1>1
  <2>2. PICK ip \in IP : ip = nodes[1].ip
    BY <2>1 DEF NodeState
  <2> PICK live : live = (nodes # <<>>)
    OBVIOUS
  <2>3. Fit(Line(Self, c, AskLabels("Start")), Line(Self, c, AskLabels("Stop")), live)
    BY <1>2, <2>2 DEF TurnInv, StopsFirst
  <2>4. Label(current[Self]) \in AskLabels("Start")
    BY <1>1, <1>2, CurrentLabel DEF Asks
  <2>5. ~ live
    BY <1>1, <1>2, <2>3, <2>4, FirstInLine
  <2> QED  BY <2>5
<1>4. PICK k \in Calls : k.to = Self /\ k.op = "Start" /\ k.arg = current[Self].arg
  BY <1>1, <1>2, IsCalled
<1> PICK ips : ips = k.arg
  OBVIOUS
<1>5. ips \in Seq(IP) /\ Started(ips) \in Seq(NodeState)
  BY <1>4, NodesStarted, ScyllaClusterAssumption
<1>6. nodes \o Started(ips) = Started(ips)
  BY <1>3, <1>5
<1>7. DOMAIN Started(ips) = DOMAIN ips /\ \A i \in DOMAIN ips : Started(ips)[i].ip = ips[i]
  BY DEF Started
<1>8. Len(Started(ips)) = Len(ips)
  BY <1>5 DEF Started
<1>9. ASSUME nodes' = Started(ips) PROVE OfOneStart'
  BY <1>4, <1>7, <1>8, <1>9 DEF OfOneStart, Asks
<1> QED  BY <1>3, <1>4, <1>6, <1>9

\* c starts processes only where none runs, whatever happens (the functions of the actor).
LEMMA TurnKeeps ==
  ASSUME ClusterInv, NEW c \in Client, OneStarts(c), TurnInv(c), [Next]_vars
  PROVE  TurnInv(c)'
<1>1. /\ ProtocolInv /\ NodesInv /\ nodes \in Seq(NodeState) /\ Self \in Actors
      /\ actor \in [Actors -> {"run", "dead", "finished"}]
  BY ScyllaClusterAssumption DEF ClusterInv, NodesInv, ProtocolInv, ProtocolType
<1>2. CallsFit
  BY TurnsFit
<1>3. ProtocolStep
  BY <1>1, <1>2, NextIsProtocolStep
<1>4. \A ip : \A d \in Client : \A i \in DOMAIN Cleanup[d] : ip \in IP =>
         /\ Label(Cleanup[d][i]) \notin StartLabels(ip)
         /\ Label(Cleanup[d][i]) \notin AskLabels("Start")
  <2> SUFFICES ASSUME NEW ip \in IP, NEW d \in Client, NEW i \in DOMAIN Cleanup[d]
               PROVE  /\ Label(Cleanup[d][i]) \notin StartLabels(ip)
                      /\ Label(Cleanup[d][i]) \notin AskLabels("Start")
    OBVIOUS
  <2>1. ~ Starts(Cleanup[d][i], ip)
    BY DEF OneStarts, StartsNothing
  <2>2. Cleanup[d] \in Seq(Calls)
    BY ActorAssumption
  <2>3. Cleanup[d][i] \in Calls
    BY <2>2
  <2> QED  BY <2>1, <2>3, LabelTells DEF Starts, Asks
<1>5. \A ip \in IP : Quiet(c, StartLabels(ip))' /\ Quiet(c, AskLabels("Start"))'
  <2> SUFFICES ASSUME NEW ip \in IP PROVE Quiet(c, StartLabels(ip))' /\ Quiet(c, AskLabels("Start"))'
    OBVIOUS
  <2>1. Quiet(c, StartLabels(ip)) /\ Quiet(c, AskLabels("Start"))
    BY DEF TurnInv
  <2> PICK K : K = StartLabels(ip)
    OBVIOUS
  <2> PICK J : J = AskLabels("Start")
    OBVIOUS
  <2>2. Quiet(c, K)' /\ Quiet(c, J)'
    BY <1>1, <1>3, <1>4, <2>1, QuietKeeps
  <2> QED  BY <2>2 DEF StartLabels, AskLabels
<1> DEFINE Ordered == /\ OfOneStart'
                      /\ \A ip \in IP : actor'[Self] = "run" => StopsFirst(c, ip)'
<1>6. SUFFICES Ordered
  BY <1>5 DEF TurnInv
<1> HIDE DEF Ordered
<1>7. ASSUME UNCHANGED nodes, ~ Serves(Self) PROVE Ordered
  <2>1. OfOneStart'
    BY <1>7 DEF TurnInv, OfOneStart
  <2>2. ASSUME NEW ip \in IP, actor'[Self] = "run" PROVE StopsFirst(c, ip)'
    <3>1. actor[Self] = "run"
      BY <1>1, <1>3, <2>2, RanBefore
    <3>2. StopsFirst(c, ip) /\ Quiet(c, StartLabels(ip)) /\ Quiet(c, AskLabels("Start"))
      BY <3>1 DEF TurnInv
    <3> PICK K : K = StartLabels(ip)
      OBVIOUS
    <3> PICK L : L = StopLabels(ip)
      OBVIOUS
    <3> PICK J : J = AskLabels("Start")
      OBVIOUS
    <3> PICK M : M = AskLabels("Stop")
      OBVIOUS
    <3> PICK live : live = Runs(nodes, ip)
      OBVIOUS
    <3> PICK some : some = (nodes # <<>>)
      OBVIOUS
    <3>3. (\A k \in K \cup L : k[1] = Self) /\ (\A k \in J \cup M : k[1] = Self)
      BY LabelsSelf
    <3>4. Fit(Line(Self, c, K)', Line(Self, c, L)', live)
      BY <1>1, <1>3, <1>4, <1>7, <3>2, <3>3, LineKeeps DEF StopsFirst
    <3>5. Fit(Line(Self, c, J)', Line(Self, c, M)', some)
      BY <1>1, <1>3, <1>4, <1>7, <3>2, <3>3, LineKeeps DEF StopsFirst
    <3> QED  BY <1>7, <3>4, <3>5 DEF StopsFirst, StartLabels, StopLabels, AskLabels
  <2> QED  BY <2>1, <2>2 DEF Ordered
<1>8. ASSUME NEW ns, NEW lost, Crash(ns, lost) PROVE Ordered
  BY <1>1, <1>8 DEF Crash, Panic, OfOneStart, Ordered
<1>9. ASSUME NEW ns, NEW lost, NEW result, Finish(ns, lost, result),
             current[Self] # None, actor[Self] = "run", nodes' = ns => OfOneStart',
             \A ip \in IP : Runs(ns, ip) => \/ Starts(current[Self], ip)
                                            \/ Runs(nodes, ip) /\ ~ Stops(current[Self], ip),
             ns # <<>> => \/ Asks(current[Self], "Start")
                          \/ nodes # <<>> /\ ~ Asks(current[Self], "Stop")
      PROVE  Ordered
  <2>1. CASE Crash(ns, lost)
    BY <1>8, <2>1
  <2>2. CASE ~ Crash(ns, lost)
    <3>1. OfOneStart'
      BY <1>9, <2>2 DEF Finish
    <3>2. \A ip \in IP : actor'[Self] = "run" => StopsFirst(c, ip)'
      BY <1>9, FinishTurns
    <3> QED  BY <3>1, <3>2 DEF Ordered
  <2> QED  BY <2>1, <2>2
<1>10. \A ops : Serving(ops) /\ "None" \notin ops =>
         /\ actor[Self] = "run" /\ current[Self] # None /\ current[Self].op \in ops
         /\ current[Self].to = Self
  BY <1>1, ServingFacts, CurrentLabel
<1>11. ASSUME NEW I PROVE nodes' \in {nodes, Killed(I), Restarted(I)} => OfOneStart'
  BY <1>1, AddressesKept, NodesChanged, OneStartKept DEF TurnInv
<1>12. CASE Query \/ wait_for_ready
  <2>1. /\ actor[Self] = "run" /\ current[Self] # None
        /\ current[Self].op \in {"Version", "Flush", "WaitForReady"}
    BY <1>10, <1>12 DEF Query, wait_for_ready
  <2>2. \E result : Finish(nodes, NothingLost, result)
    BY <1>12 DEF Query, wait_for_ready, FinishWith
  <2> QED  BY <1>9, <1>11, <2>1, <2>2 DEF Stops, Asks
<1>13. CASE start
  <2>1. /\ actor[Self] = "run" /\ current[Self] # None /\ current[Self].op = "Start"
        /\ current[Self].to = Self
    BY <1>10, <1>13 DEF start
  <2>2. Finish(nodes \o Started(current[Self].arg), NothingLost, NoAnswer)
    BY <1>13 DEF start, FinishWith
  <2>3. nodes' = nodes \o Started(current[Self].arg) => OfOneStart'
    BY <1>13, StartsAlone
  <2> QED  BY <1>9, <2>1, <2>2, <2>3 DEF Starts, Asks
<1>14. CASE stop
  <2>1. actor[Self] = "run" /\ current[Self] # None /\ Finish(<<>>, NothingLost, NoAnswer)
    BY <1>10, <1>14 DEF stop, FinishWith
  <2>2. \A ip : ~ Runs(<<>>, ip)
    BY DEF Runs
  <2>3. nodes' = <<>> => OfOneStart'
    BY DEF OfOneStart
  <2> QED  BY <1>9, <2>1, <2>2, <2>3
<1>15. CASE down
  <2>1. /\ actor[Self] = "run" /\ current[Self] # None /\ current[Self].op = "Down"
        /\ Finish(Killed(DOMAIN nodes), NothingLost, NoAnswer)
    BY <1>10, <1>15 DEF down, FinishWith
  <2>2. \A ip : ~ Runs(Killed(DOMAIN nodes), ip)
    BY <1>1, RunsAfter
  <2>3. Killed(DOMAIN nodes) # <<>> => nodes # <<>>
    <3>1. DOMAIN Killed(DOMAIN nodes) = DOMAIN nodes
      BY <1>1, AddressesKept
    <3> QED  BY <1>1, <3>1, NodesChanged
  <2> QED  BY <1>9, <1>11, <2>1, <2>2, <2>3 DEF Asks
<1>16. CASE down_node
  <2> PICK I : I = {Find(current[Self].arg[1])}
    OBVIOUS
  <2>1. /\ actor[Self] = "run" /\ current[Self] # None /\ current[Self].op = "DownNode"
        /\ Finish(Killed(I), NothingLost, NoAnswer)
    BY <1>10, <1>16 DEF down_node, FinishWith
  <2>2. ASSUME NEW ip \in IP, Runs(Killed(I), ip)
        PROVE  Runs(nodes, ip) /\ ~ Stops(current[Self], ip)
    <3>1. PICK i \in DOMAIN nodes \ I : nodes[i].ip = ip /\ nodes[i].child
      BY <1>1, <2>2, RunsAfter
    <3>2. current[Self].arg[1] # ip
      <4> SUFFICES ASSUME current[Self].arg[1] = ip PROVE FALSE
        OBVIOUS
      <4>1. Find(ip) \in DOMAIN nodes /\ nodes[Find(ip)].ip = ip
        BY <1>1, <3>1, FindsNode
      <4>2. i = Find(ip)
        BY <1>2, <3>1, <4>1 DEF CallsFit
      <4> QED  BY <3>1, <4>2
    <3> QED  BY <2>1, <3>1, <3>2 DEF Runs, Stops
  <2>3. Killed(I) # <<>> => nodes # <<>>
    <3>1. DOMAIN Killed(I) = DOMAIN nodes
      BY <1>1, AddressesKept
    <3> QED  BY <1>1, <3>1, NodesChanged
  <2>4. nodes' = Killed(I) => OfOneStart'
    BY <1>11
  <2>5. ~ Asks(current[Self], "Stop")
    BY <2>1 DEF Asks
  <2> QED  BY <1>9, <2>1, <2>2, <2>3, <2>4, <2>5
<1>17. CASE up
  <2>1. /\ actor[Self] = "run" /\ current[Self] # None /\ current[Self].op = "Up"
        /\ current[Self].to = Self /\ UpWith(Len(current[Self].arg))
    BY <1>10, <1>17 DEF up
  <2>2. CASE ~ (Len(current[Self].arg) >= Len(nodes))
    BY <1>8, <2>1, <2>2 DEF UpWith
  <2>3. CASE Len(current[Self].arg) >= Len(nodes)
    <3>1. Finish(Restarted(DOMAIN nodes), Overwritten(DOMAIN nodes), NoAnswer)
      BY <2>1, <2>3 DEF UpWith
    <3>2. Restarted(DOMAIN nodes) # <<>> => nodes # <<>>
      <4>1. DOMAIN Restarted(DOMAIN nodes) = DOMAIN nodes
        BY <1>1, AddressesKept
      <4> QED  BY <1>1, <4>1, NodesChanged
    <3> QED  BY <1>9, <1>11, <2>1, <3>1, <3>2 DEF Starts, Asks
  <2> QED  BY <2>2, <2>3
<1>18. CASE up_node
  <2> PICK I : I = {Find(current[Self].arg[1])} \ {0}
    OBVIOUS
  <2>1. /\ actor[Self] = "run" /\ current[Self] # None /\ current[Self].op = "UpNode"
        /\ current[Self].to = Self /\ Finish(Restarted(I), Overwritten(I), NoAnswer)
    BY <1>10, <1>18 DEF up_node
  <2>2. ASSUME NEW ip \in IP, Runs(Restarted(I), ip)
        PROVE  Starts(current[Self], ip) \/ Runs(nodes, ip)
    <3>1. CASE \E i \in DOMAIN nodes \cap I : nodes[i].ip = ip
      <4>1. current[Self].arg[1] = ip
        BY <1>1, <3>1, FindsNode
      <4> QED  BY <2>1, <4>1 DEF Starts
    <3> QED  BY <1>1, <2>2, <3>1, RunsAfter
  <2>3. Restarted(I) # <<>> => nodes # <<>>
    <3>1. DOMAIN Restarted(I) = DOMAIN nodes
      BY <1>1, AddressesKept
    <3> QED  BY <1>1, <3>1, NodesChanged
  <2>4. nodes' = Restarted(I) => OfOneStart'
    BY <1>11
  <2>5. ~ Asks(current[Self], "Stop") /\ \A ip : ~ Stops(current[Self], ip)
    BY <2>1 DEF Asks, Stops
  <2> QED  BY <1>9, <2>1, <2>2, <2>3, <2>4, <2>5
<1>19. CASE SpawnFails \/ NodetoolFails
  BY <1>8, <1>19 DEF SpawnFails, NodetoolFails
<1>20. CASE (Receive(Self) /\ UNCHANGED processVars) \/ wait_for_node \/ \E ip \in IP : BecomesReady(ip)
  <2>1. UNCHANGED nodes
    BY <1>20 DEF processVars, wait_for_node, BecomesReady
  <2>2. ~ Serves(Self)
    BY <1>1, <1>20 DEF Receive, wait_for_node, BecomesReady, actorVars, Serves, Reply, Panic, ProtocolInv, ProtocolType
  <2> QED  BY <1>7, <2>1, <2>2
<1>21. CASE Shutdown
  BY <1>1, <1>21 DEF Shutdown, Ends, OfOneStart, Ordered
<1>22. CASE ClientsStep
  <2>1. UNCHANGED nodes /\ (current'[Self] = None <=> current[Self] = None)
    BY <1>1, <1>22, ClientsKeep DEF ClientsStep, processVars
  <2>2. ~ Serves(Self)
    BY <1>1, <2>1 DEF Serves, Reply, Panic, ProtocolInv, ProtocolType
  <2> QED  BY <1>7, <2>1, <2>2
<1>23. CASE UNCHANGED vars
  <2>1. UNCHANGED nodes /\ current' = current
    BY <1>23 DEF vars, processVars, actorVars
  <2>2. ~ Serves(Self)
    BY <1>1, <2>1 DEF Serves, Reply, Panic, ProtocolInv, ProtocolType
  <2> QED  BY <1>7, <2>1, <2>2
<1>24. CASE SelfStep
  BY <1>12, <1>13, <1>14, <1>15, <1>16, <1>17, <1>18, <1>19, <1>20, <1>21, <1>24 DEF SelfStep, ActorStep
<1> QED  BY <1>22, <1>23, <1>24, NextSplits

\* c begins with a cluster without nodes (ScyllaCluster::Init).
LEMMA TurnInit ==
  ASSUME Init, NEW c \in Client, OneStarts(c)
  PROVE  TurnInv(c)
<1> PICK p \in Plans : plan = p /\ script = p
  BY DEF Init, ActorInit
<1>1. /\ p \in [Client -> Seq(Calls)] /\ nodes = <<>> /\ current[Self] = None /\ mailbox[Self] = <<>>
  BY ActorAssumption, ScyllaClusterAssumption DEF Init, ActorInit, ProcessesInit
<1>2. OfOneStart
  BY <1>1 DEF OfOneStart
<1>3. ASSUME NEW d \in Client, NEW i \in DOMAIN p[d] PROVE p[d][i] \in Calls
  <2>1. p[d] \in Seq(Calls)
    BY <1>1
  <2> QED  BY <2>1
<1>4. ASSUME NEW ip \in IP
      PROVE  Quiet(c, StartLabels(ip)) /\ Quiet(c, AskLabels("Start"))
  <2> SUFFICES ASSUME NEW d \in Client \ {c}, NEW i \in DOMAIN p[d]
               PROVE  Label(p[d][i]) \notin StartLabels(ip) /\ Label(p[d][i]) \notin AskLabels("Start")
    BY DEF Quiet
  <2>1. ~ Starts(p[d][i], ip)
    BY DEF OneStarts, StartsNothing
  <2> QED  BY <1>3, <2>1, LabelTells DEF Starts, Asks
<1>5. ASSUME NEW K, NEW x
      PROVE  x \in Line(Self, c, K) <=> x \in DOMAIN p[c] /\ Label(p[c][x]) \in K
  <2>1. Len(mailbox[Self]) = 0 /\ DOMAIN mailbox[Self] = {}
    BY <1>1
  <2>2. p[c] \in Seq(Calls)
    BY <1>1
  <2>3. \A j \in DOMAIN p[c] : j \in Nat /\ 0 + j = j
    BY <2>2
  <2> QED  BY <1>1, <2>1, <2>3 DEF Line, Row
<1>6. ASSUME NEW ip \in IP PROVE StopsFirst(c, ip)
  <2>0. p[c] \in Seq(Calls) /\ DOMAIN p[c] \subseteq Nat
    BY <1>1
  <2>1. ~ Runs(nodes, ip)
    BY <1>1 DEF Runs
  <2>2. ASSUME NEW x \in Line(Self, c, StartLabels(ip)), NEW w \in Line(Self, c, StartLabels(ip)), w < x
        PROVE  \E y \in Line(Self, c, StopLabels(ip)) : w < y /\ y < x
    <3>1. w \in DOMAIN p[c] /\ x \in DOMAIN p[c] /\ Starts(p[c][w], ip) /\ Starts(p[c][x], ip)
      BY <1>3, <1>5, LabelTells
    <3>2. PICK y \in w + 1 .. x - 1 : Stops(p[c][y], ip)
      BY <2>2, <3>1 DEF OneStarts, InTurn
    <3>3. y \in DOMAIN p[c] /\ w < y /\ y < x
      BY <2>0, <3>1
    <3> QED  BY <1>3, <1>5, <3>2, <3>3, LabelTells
  <2>3. ASSUME NEW x \in Line(Self, c, AskLabels("Start")), NEW w \in Line(Self, c, AskLabels("Start")), w < x
        PROVE  \E y \in Line(Self, c, AskLabels("Stop")) : w < y /\ y < x
    <3>1. w \in DOMAIN p[c] /\ x \in DOMAIN p[c] /\ Asks(p[c][w], "Start") /\ Asks(p[c][x], "Start")
      BY <1>3, <1>5, LabelTells
    <3>2. PICK y \in w + 1 .. x - 1 : Asks(p[c][y], "Stop")
      BY <2>3, <3>1 DEF OneStarts
    <3>3. y \in DOMAIN p[c] /\ w < y /\ y < x
      BY <2>0, <3>1
    <3> QED  BY <1>3, <1>5, <3>2, <3>3, LabelTells
  <2> QED  BY <1>1, <2>1, <2>2, <2>3 DEF StopsFirst, Fit
<1> QED  BY <1>2, <1>4, <1>6 DEF TurnInv

\* The actor is never asked to replace a process that runs, to bring up a node without a
\* configuration or to tell two nodes with one address apart, if one client starts
\* processes and stops the last one first: neither other clients that stop them nor a
\* cancellation at any moment, with its cleanup, make a difference
\* (ScyllaCluster::up, ScyllaCluster::up_node).
THEOREM CallsFitHolds ==
  ASSUME NEW c \in Client, OneStarts(c)
  PROVE  Spec => []CallsFit
<1>1. Init => TurnInv(c)
  BY TurnInit
<1>2. ClusterInv /\ TurnInv(c) /\ [Next]_vars => TurnInv(c)'
  BY TurnKeeps
<1>3. ClusterInv /\ TurnInv(c) => CallsFit
  BY TurnsFit
<1> QED  BY <1>1, <1>2, <1>3, ClusterHolds, PTL DEF Spec

\* What follows for such callers, with nothing taken for granted: no process is lost, no
\* wait_for_ready is true too early, and no order of the calls makes the actor panic
\* (ScyllaCluster::Shutdown, ScyllaCluster::wait_for_ready, ScyllaCluster::UpWith).
THEOREM ServesOneStarter ==
  ASSUME NEW c \in Client, OneStarts(c)
  PROVE  Spec => []ProcessesOwned /\ ReadyMeansReady /\ []DiesOnlyOfFaults
BY CallsFitHolds, ProcessesOwnedHolds, ReadyIsReady, OnlyFaultsKill, PTL
=============================================================================
