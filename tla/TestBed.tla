------------------------------ MODULE TestBed ------------------------------
(***************************************************************************)
(* The actors around a test together: a Vector Store cluster, a firewall,  *)
(* a proxy, a DNS server and the TLS files, with clients that call several *)
(* of them in turn.  A client that is cancelled or fails in a call to one  *)
(* of them does not make the rest of its calls to the others.              *)
(***************************************************************************)
EXTENDS Actor

CONSTANTS
  IP,        \* addresses of nodes
  Name       \* DNS names that can be parsed

VARIABLES
  vs_nodes, vs_waited, vs_ready, vs_orphans,                     \* "vs"
  fw_disabled_ips, fw_phase, fw_left, fw_routes, fw_unsettled,   \* "fw"
  px_proxy, px_rules, px_listening, px_offered, px_refused,      \* "px"
  dns_zone, dns_server, dns_changer,                             \* "dns"
  tls_files                                                      \* "tls"

\* The plans of the clients are made of the calls that these instances define, so
\* the instances themselves are given none.
NoPlans == {}

NoCleanup == [c \in Client |-> <<>>]

VS == INSTANCE VectorStoreCluster WITH Self <- "vs", Plans <- NoPlans, Cleanup <- NoCleanup,
        nodes <- vs_nodes, waited <- vs_waited, ready <- vs_ready, orphans <- vs_orphans

FW == INSTANCE Firewall WITH Self <- "fw", Plans <- NoPlans, Cleanup <- NoCleanup,
        disabled_ips <- fw_disabled_ips, phase <- fw_phase, left <- fw_left,
        routes <- fw_routes, unsettled <- fw_unsettled

PX == INSTANCE ScyllaProxyCluster WITH Self <- "px", Plans <- NoPlans, Cleanup <- NoCleanup, Addr <- IP,
        proxy <- px_proxy, rules <- px_rules, listening <- px_listening,
        offered <- px_offered, refused <- px_refused

DNS == INSTANCE Dns WITH Self <- "dns", Plans <- NoPlans, Cleanup <- NoCleanup,
        zone <- dns_zone, server <- dns_server, changer <- dns_changer

TLS == INSTANCE Tls WITH Self <- "tls", Plans <- NoPlans, Cleanup <- NoCleanup,
        files <- tls_files

ASSUME TestBedAssumption ==
  /\ Actors = {"vs", "fw", "px", "dns", "tls"}
  /\ \A m \in Calls :
       /\ (m.to = "vs" /\ m.op = "Start") \/ (m.to = "fw" /\ m.op = "DropTraffic") => m.arg \in Seq(IP)
       /\ m.to = "px" /\ m.op = "Start" => m.arg \in SUBSET IP
       /\ m.to = "dns" /\ m.op = "Upsert" => m.arg[2] \in IP
       /\ m.to = "dns" /\ m.op \in {"Upsert", "Remove"} => m.reply = "none"

vsVars == <<vs_nodes, vs_waited, vs_ready, vs_orphans>>

fwVars == <<fw_disabled_ips, fw_phase, fw_left, fw_routes, fw_unsettled>>

pxVars == <<px_proxy, px_rules, px_listening, px_offered, px_refused>>

dnsVars == <<dns_zone, dns_server, dns_changer>>

vars == <<actorVars, vsVars, fwVars, pxVars, dnsVars, tls_files>>

\* The variables have their types; no mailbox exceeds its capacity.
TypeOK ==
  /\ ActorTypeOK
  /\ VS!ProcessesTypeOK /\ FW!FirewallTypeOK /\ PX!ProxyTypeOK /\ DNS!DnsTypeOK /\ TLS!TlsTypeOK

Init ==
  /\ ActorInit
  /\ VS!ProcessesInit /\ FW!FirewallInit /\ PX!ProxyInit /\ DNS!DnsInit /\ TLS!TlsInit

-----------------------------------------------------------------------------
resources == <<vsVars, fwVars, pxVars, dnsVars, tls_files>>

ClientOf(c) == ClientStep(c) /\ UNCHANGED resources

Taken(a) == Receive(a) /\ UNCHANGED resources

VsStep ==
  \/ Taken("vs")
  \/ VS!process /\ UNCHANGED <<fwVars, pxVars, dnsVars, tls_files>>

FwStep ==
  \/ Taken("fw")
  \/ FW!process /\ UNCHANGED <<vsVars, pxVars, dnsVars, tls_files>>

PxStep ==
  \/ Taken("px")
  \/ PX!process /\ UNCHANGED <<vsVars, fwVars, dnsVars, tls_files>>

DnsStep ==
  \/ Taken("dns")
  \/ DNS!process /\ UNCHANGED <<vsVars, fwVars, pxVars, tls_files>>

TlsStep ==
  \/ Taken("tls")
  \/ TLS!process /\ UNCHANGED <<vsVars, fwVars, pxVars, dnsVars>>

\* What no task does: a client is cancelled, a process fails to start or answers.
Environment ==
  \/ \E c \in Client : GiveUp(c) /\ UNCHANGED resources
  \/ /\ VS!SpawnFails \/ \E ip \in IP : VS!BecomesReady(ip)
     /\ UNCHANGED <<fwVars, pxVars, dnsVars, tls_files>>

Next ==
  \/ \E c \in Client : ClientOf(c)
  \/ VsStep \/ FwStep \/ PxStep \/ DnsStep \/ TlsStep
  \/ Environment

Spec == Init /\ [][Next]_vars

\* The executor polls every task that can go on.  A Vector Store process need not
\* come up: wait_for_node has a timeout.
FairSpec ==
  /\ Spec
  /\ \A c \in Client : WF_vars(ClientOf(c))
  /\ WF_vars(VsStep) /\ WF_vars(FwStep) /\ WF_vars(PxStep) /\ WF_vars(DnsStep) /\ WF_vars(TlsStep)

-----------------------------------------------------------------------------
(***************************************************************************)
(* Properties                                                              *)
(***************************************************************************)

\* A restart that is cut short never leaves a start_node of a node that runs.
StoresNotStartedTwice == VS!NotStartedTwice

\* A way to see to that: only c starts processes, each one after it has stopped the last
\* one; the other clients, and whoever is cancelled, may stop what they like.
OneStarts(c) ==
  \A d \in Client :
    /\ VS!StartsNothing(Cleanup[d])
    /\ \A p \in Plans : IF d = c THEN VS!InTurn(p[d]) ELSE VS!StartsNothing(p[d])

\* wait_for_ready of the Vector Store cluster says true only when every node has its
\* process and serves, also when one was stopped alone in the meantime.
StoresReady == VS!ReadyMeansReady

\* As long as the Vector Store actor has not panicked, it can stop every process that it
\* started, and at its end it has.  The others leave nothing behind but routes: no
\* proxy at the end; no DNS server and no files even after a panic.
NothingLeftBehind ==
  /\ VS!ProcessesOwned
  /\ actor["px"] = "finished" => px_listening = {}
  /\ actor["dns"] # "run" => ~dns_server
  /\ actor["tls"] # "run" => tls_files = {}

\* The addresses that are blocked are those of the last DropTraffic, but for ones
\* whose own route the kernel refused to change.
BlockedAsAsked == FW!BlockedAsAsked

\* The last translation map leads to the running proxy unless its start failed.
MapIsServed == PX!MapIsServed

\* Unacknowledged upserts and removes have taken effect, in order, when a later call of
\* the same client to the DNS actor is answered, unless another client has changed the
\* name in between.
UpdatesTakeEffect == DNS!UpdatesTakeEffect

\* The paths of the TLS files stay valid for whoever was told them.
PathsLead == TLS!PathsLead
=============================================================================
