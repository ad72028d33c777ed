------------------------------ MODULE Firewall ------------------------------
(***************************************************************************)
(* The actor of crates/e2etest-firewall: it blocks addresses by blackhole  *)
(* routes in the kernel and remembers which ones.  Each route is a request *)
(* of its own to the kernel; one that fails is logged and passed over, and *)
(* nothing is removed when the actor ends.                                 *)
(***************************************************************************)
EXTENDS Actor

CONSTANTS
  Self,         \* the actor
  IP            \* addresses that can be blocked

VARIABLES
  disabled_ips, \* the addresses of the last DropTraffic
  phase,        \* of process(): "idle", "remove" or "add"
  left,         \* the addresses whose route is still to be changed in this phase
  routes,       \* addresses with a blackhole route in the kernel
  unsettled     \* history: addresses whose last route change failed

firewallVars == <<disabled_ips, phase, left, routes, unsettled>>

FirewallTypeOK ==
  /\ disabled_ips \in Seq(IP) /\ left \in Seq(IP)
  /\ phase \in {"idle", "remove", "add"}
  /\ routes \subseteq IP /\ unsettled \subseteq IP

FirewallInit ==
  /\ disabled_ips = <<>> /\ left = <<>>
  /\ phase = "idle"
  /\ routes = {} /\ unsettled = {}

\* FirewallExt
Request(op, arg) == [to |-> Self, op |-> op, arg |-> arg, reply |-> "taken"]

CallDropTraffic(ips) == Request("DropTraffic", ips)

CallTurnOffRules == Request("TurnOffRules", <<>>)

-----------------------------------------------------------------------------
Working(p) == actor[Self] = "run" /\ current[Self] # None /\ phase = p

\* Mutant: the rules in force stay when new ones are made.
turn_off_rules_later ==
  /\ Working("idle")
  /\ left' = IF current[Self].op = "TurnOffRules" THEN disabled_ips ELSE <<>>
  /\ disabled_ips' = <<>>
  /\ phase' = "remove"
  /\ UNCHANGED <<actorVars, routes, unsettled>>

\* Both messages begin with turn_off_rules(mem::take(disabled_ips)).
turn_off_rules ==
  /\ Working("idle")
  /\ left' = disabled_ips
  /\ disabled_ips' = <<>>
  /\ phase' = "remove"
  /\ UNCHANGED <<actorVars, routes, unsettled>>

\* DropTraffic goes on with its own addresses.
drop_traffic ==
  /\ Working("remove") /\ left = <<>>
  /\ current[Self].op = "DropTraffic"
  /\ disabled_ips' = current[Self].arg
  /\ left' = current[Self].arg
  /\ phase' = "add"
  /\ UNCHANGED <<actorVars, routes, unsettled>>

\* The request for the next route is made: the routes become `after`, or the
\* request fails and the loop goes on.
Change(after) ==
  /\ left # <<>>
  /\ left' = Tail(left)
  /\ \/ routes' = after /\ unsettled' = unsettled \ {Head(left)}
     \/ MayFail /\ routes' = routes /\ unsettled' = unsettled \cup {Head(left)}
  /\ UNCHANGED <<actorVars, disabled_ips, phase>>

remove_unreachable_route == Working("remove") /\ Change(routes \ {Head(left)})

add_unreachable_route == Working("add") /\ Change(routes \cup {Head(left)})

\* log_routes, then the reply.
Done ==
  /\ Working(IF current[Self].op = "DropTraffic" THEN "add" ELSE "remove")
  /\ left = <<>>
  /\ ExpectReply(Self, NoAnswer)
  /\ phase' = "idle"
  /\ UNCHANGED <<disturbed, disabled_ips, left, routes, unsettled>>

\* The loop ends; the routes stay as they are.
Shutdown == Ends(Self) /\ UNCHANGED firewallVars

process ==
  \/ turn_off_rules \/ drop_traffic
  \/ remove_unreachable_route \/ add_unreachable_route
  \/ Done \/ Shutdown

-----------------------------------------------------------------------------
\* Between two calls the blocked addresses are those of the last DropTraffic since
\* when the rules were not turned off, whoever called and however calls of several
\* clients mixed, but for addresses whose own last route change the kernel refused.
BlockedAsAsked ==
  current[Self] = None =>
    \A ip \in IP \ unsettled : ip \in routes <=> ip \in ToSet(disabled_ips)
=============================================================================
