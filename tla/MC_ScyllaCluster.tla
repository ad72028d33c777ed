-------------------------- MODULE MC_ScyllaCluster --------------------------
(***************************************************************************)
(* A cluster of two nodes and two clients: c1 starts the cluster, disturbs *)
(* it in one way and stops it or leaves that to the final shutdown; c2     *)
(* asks about the cluster, stops it in between, or waits for it.           *)
(***************************************************************************)
EXTENDS ScyllaCluster, TLC

CONSTANTS c1, c2, n1, n2

Two == <<n1, n2>>

Bring == <<CallStart(Two), CallWaitForReady>>

OwnerPlans ==
  {Bring \o middle \o end :
     middle \in {Restart(n1), Restart(n2), <<CallDown, CallUp(Two), CallWaitForReady>>},
     end \in {<<>>, <<CallStop>>}}

PlansWith(others) == {(c1 :> p) @@ (c2 :> q) : p \in OwnerPlans, q \in others}

\* c1 does not wait for nodes that c2 takes down: a wait for them has no end.
TakenDown ==
  {(c1 :> <<CallStart(Two), CallDownNode(n1), CallUpNode(n1), CallDown, CallUp(Two)>>) @@ (c2 :> q) :
     q \in {<<CallDown, CallFlush>>, <<CallDownNode(n1), CallDownNode(n2)>>}}

MC_Shared ==
  PlansWith({<<CallVersion, CallFlush>>, <<CallFlush, CallFlush>>, <<CallStop, CallFlush>>})
  \cup TakenDown

MC_Waited == PlansWith({<<CallWaitForReady>>})

\* The plans meet what the theorems about CallsFit ask of them.
ASSUME PlansInTurn == OneStarts(c1)

MC_Cleanup == (c1 :> <<CallStop>>) @@ (c2 :> <<>>)
=============================================================================
