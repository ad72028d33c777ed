------------------------- MODULE ScyllaProxyCluster -------------------------
(***************************************************************************)
(* The actor of crates/e2etest-scylla-proxy-cluster: it runs at most one   *)
(* proxy, which listens on an address for each node, and changes the rules *)
(* by which the proxy disturbs the traffic.                                *)
(***************************************************************************)
EXTENDS Actor

CONSTANTS
  Self,       \* the actor
  Addr        \* proxy addresses

VARIABLES
  proxy,      \* Option<RunningProxy>: its addresses, {} for None
  rules,      \* kinds of rules in force, in the running proxy
  listening,  \* addresses that some proxy listens on
  offered,    \* history: the translation map that a client was last given
  refused     \* history: the proxy of that map failed to run

proxyVars == <<proxy, rules, listening, offered, refused>>

ProxyTypeOK ==
  /\ proxy \subseteq Addr /\ listening \subseteq Addr /\ offered \subseteq Addr
  /\ rules \subseteq {"request", "response"}
  /\ refused \in BOOLEAN

ProxyInit == proxy = {} /\ rules = {} /\ listening = {} /\ offered = {} /\ refused = FALSE

\* ScyllaProxyClusterExt.  A node is kept as its proxy address; rules are kept as
\* whether there are some.
Request(op, arg) == [to |-> Self, op |-> op, arg |-> arg, reply |-> "taken"]

CallStart(addrs) == Request("Start", addrs)

CallStop == Request("Stop", {})

CallChangeRequestRules(some) == Request("ChangeRequestRules", Answer(some))

CallChangeResponseRules(some) == Request("ChangeResponseRules", Answer(some))

CallTurnOffRules == Request("TurnOffRules", {})

-----------------------------------------------------------------------------
\* A new proxy for `addrs` is made and run while `taken` addresses are in use: run
\* fails if one of them is asked for, and for reasons of its own; this is logged.
\* The translation map is returned in any case.
Run(addrs, taken) ==
  \E fails \in (IF MayFail THEN BOOLEAN ELSE {FALSE}) :
    LET runs == ~fails /\ addrs \cap taken = {}
    IN /\ proxy' = IF runs THEN addrs ELSE {}
       /\ listening' = taken \cup proxy'
       /\ rules' = {}
       /\ offered' = addrs
       /\ refused' = fails

\* Mutant: the proxy that runs is not finished first.
start_over ==
  /\ Processing(Self, {"Start"})
  /\ LET addrs == current[Self].arg
     IN /\ IF addrs = {} THEN UNCHANGED proxyVars ELSE Run(addrs, listening)
        /\ ExpectReply(Self, addrs)
  /\ UNCHANGED disturbed

\* start: nothing happens without nodes; else the running proxy is stopped first.
start ==
  /\ Processing(Self, {"Start"})
  /\ LET addrs == current[Self].arg
     IN /\ IF addrs = {} THEN UNCHANGED proxyVars ELSE Run(addrs, listening \ proxy)
        /\ ExpectReply(Self, addrs)
  /\ UNCHANGED disturbed

\* The running proxy, if any, is taken and finished.
Finished ==
  /\ proxy' = {} /\ rules' = {}
  /\ listening' = listening \ proxy
  /\ offered' = {} /\ refused' = FALSE

stop ==
  /\ Processing(Self, {"Stop"})
  /\ Finished
  /\ ExpectReply(Self, NoAnswer)
  /\ UNCHANGED disturbed

\* change_request_rules, change_response_rules: nothing without a proxy.
Change(kind) ==
  /\ rules' = IF proxy = {} THEN rules
              ELSE IF current[Self].arg = NoAnswer THEN rules \ {kind} ELSE rules \cup {kind}
  /\ ExpectReply(Self, NoAnswer)
  /\ UNCHANGED <<disturbed, proxy, listening, offered, refused>>

change_request_rules == Processing(Self, {"ChangeRequestRules"}) /\ Change("request")

change_response_rules == Processing(Self, {"ChangeResponseRules"}) /\ Change("response")

turn_off_rules ==
  /\ Processing(Self, {"TurnOffRules"})
  /\ rules' = {}
  /\ ExpectReply(Self, NoAnswer)
  /\ UNCHANGED <<disturbed, proxy, listening, offered, refused>>

\* The loop of the actor ends with a final stop.
Shutdown == Ends(Self) /\ Finished

process ==
  \/ start \/ stop \/ change_request_rules \/ change_response_rules \/ turn_off_rules
  \/ Shutdown

-----------------------------------------------------------------------------
\* Whoever was given the last translation map finds a proxy at its addresses, also
\* when a proxy at the same addresses was running before, unless its own start
\* failed; and every address in use belongs to the proxy the actor can stop.
MapIsServed ==
  actor[Self] # "dead" =>
    /\ ~refused => offered \subseteq listening
    /\ listening = proxy
=============================================================================
